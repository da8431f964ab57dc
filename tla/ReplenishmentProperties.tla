----------------------- MODULE ReplenishmentProperties -----------------------
(***************************************************************************)
(* What is claimed of module Replenishments.                               *)
(***************************************************************************)
EXTENDS Replenishments

JobsOf(n) == {j \in Jobs : job[j].of = n}
OrdersOf(n) == {j \in JobsOf(n) : ordered[j]}
AtRest == \A r \in Requests : pc[r] = "idle"

-----------------------------------------------------------------------------
(* However handlers, listeners and jobs interleave, and wherever they die. *)

(* An order is committed for a completed job only, which has charged.      *)
OrdersArePaid == \A j \in Jobs :
    ordered[j] => job[j].state = "completed" /\ charges[j] > 0

(* Every order has its row in replenishment_payments, and neither stale    *)
(* executions nor counted ones exceed these rows.                          *)
PaymentsCovered == \A n \in Replenishments :
    Cardinality(OrdersOf(n)) <= payments[n] /\ row[n].executions <= payments[n]

(* A job may charge its customer more than once, as an attempt that fails  *)
(* or stalls after the charge is made again.  No more charges are made     *)
(* than attempts that were counted, stalls and the attempt that succeeded, *)
(* and in its life a job charges once more than the options' attempts at   *)
(* most.                                                                   *)
ChargedPerAttempt == \A j \in Jobs :
    /\ charges[j] <= job[j].attempts + job[j].stalls
                        + IF job[j].state \in {"charged", "completed"} THEN 1 ELSE 0
    /\ charges[j] <= Attempts + 1

-----------------------------------------------------------------------------
(* Why they hold: the inductive invariant.                                 *)

Completing == {"read", "finish", "del", "next", "store", "save"}
Taken      == {"running", "charged", "backoff", "completed", "failed"}

(* A job belongs to one replenishment from when it is made until, before   *)
(* anybody has taken it, it is withdrawn.                                  *)
JobSound(j) ==
    /\ job[j].of = None <=> job[j].state = "none"
    /\ job[j].state \notin Taken => charges[j] = 0 /\ job[j].attempts = 0 /\ job[j].stalls = 0
    /\ job[j].state # "failed" => job[j].attempts < Attempts /\ job[j].stalls <= 1
    /\ job[j].attempts + job[j].stalls <= Attempts + 1
    /\ job[j].state \in {"charged", "completed"} => charges[j] > 0
    /\ job[j].state \notin {"charged", "completed"} => charges[j] <= job[j].attempts + job[j].stalls
    /\ charges[j] <= job[j].attempts + job[j].stalls + 1
    /\ ordered[j] => job[j].state = "completed"
    /\ event[j].step # "none" => job[j].state \in Taken
    /\ event[j].step \in Completing => job[j].state = "completed" /\ ~ordered[j]

JobsSound == \A j \in Jobs : JobSound(j)

(* A listener adds one execution to what it read, and one payment.         *)
ListenersRemember == \A j \in Jobs :
    LET e == event[j] IN
    /\ e.step \in Completing \ {"read"} =>
          e.new.paid /\ e.new.executions <= payments[job[j].of] + 1
    /\ e.step \in {"failed.del", "failed.save"} =>
          e.new.executions <= payments[job[j].of]

HandlersRemember == \A r \in Requests : pc[r] # "idle" =>
    /\ arg[r].of \in Replenishments
    /\ arg[r].new.executions <= payments[arg[r].of]

IInv ==
    /\ TypeOK
    /\ JobsSound
    /\ PaymentsCovered
    /\ ListenersRemember
    /\ HandlersRemember

-----------------------------------------------------------------------------
(* When nothing fails.                                                     *)

(* A charge becomes an order, unless the replenishment is removed, also    *)
(* when the customer cancels, resumes or updates it meanwhile.             *)
ChargesBecomeOrders == \A n \in Replenishments, j \in Jobs :
    charges[j] > 0 /\ job[j].of = n ~> ordered[j] \/ row[n].status = "removed"

(* When the customer's handlers run one at a time: between two of them a   *)
(* replenishment that is canceled or removed has no job to come, whatever  *)
(* the worker's listeners save meanwhile.                                  *)
StoppedStays == \A n \in Replenishments :
    AtRest /\ row[n].status \in {"canceled", "removed"} =>
        ~scheduler[n].on /\ \A j \in Jobs : ~IsDelayed(j, n)

-----------------------------------------------------------------------------
(* Why the second holds, when nothing fails and the customer's handlers    *)
(* run one at a time.                                                      *)

OneByOne == ~Faults /\ \A r, s \in Requests : r = s

Stopped == {"canceled", "removed"}
Calm(n) == ~scheduler[n].on /\ \A j \in Jobs : ~IsDelayed(j, n)

(* A listener stops nothing, whatever it has read.                         *)
ListenersStopNothing == \A j \in Jobs :
    event[j].step \notin {"none", "read", "failed.read"} /\ event[j].new.status \in Stopped =>
        event[j].old.status = event[j].new.status

Going == {<<"create", "upsert">>, <<"create", "store">>, <<"create", "save">>,
          <<"update", "count">>, <<"update", "upsert">>, <<"update", "del">>, <<"update", "store">>,
          <<"update", "save">>, <<"cancel", "unschedule">>, <<"cancel", "save">>,
          <<"resume", "load">>, <<"resume", "upsert">>, <<"resume", "del">>, <<"resume", "store">>,
          <<"resume", "save">>, <<"remove", "unschedule">>, <<"remove", "del">>,
          <<"remove", "destroy">>}

(* The customer's handler unschedules before it stops a replenishment, and *)
(* schedules what is not stopped, or will no longer be.                    *)
HandlerMinds(r) ==
    LET a == arg[r]  n == a.of IN
    pc[r] # "idle" =>
        /\ <<a.kind, pc[r]>> \in Going
        /\ a.kind \in {"create", "update"} =>
              a.new.status = a.old.status /\ row[n].status \notin Stopped
        /\ a.kind = "resume" =>
              /\ row[n].status # "removed" /\ a.old.status = "canceled"
              /\ pc[r] # "load" => a.new.status \in {"active", "scheduled"}
        /\ <<a.kind, pc[r]>> \in {<<"cancel", "save">>, <<"remove", "del">>, <<"remove", "destroy">>} =>
              Calm(n)

HandlersMind == \A r \in Requests : HandlerMinds(r)

Resuming(n) == \E r \in Requests :
    pc[r] \in {"del", "store", "save"} /\ arg[r].kind = "resume" /\ arg[r].of = n

StoppedAreCalm == \A n \in Replenishments :
    row[n].status \in Stopped => Calm(n) \/ Resuming(n)

StopInv == ListenersStopNothing /\ HandlersMind /\ StoppedAreCalm

-----------------------------------------------------------------------------
(* What the code says of itself and does not keep.                         *)

(* "No more replenishments will be sent.": a finished replenishment is not *)
(* charged for.                                                            *)
NoPaymentAfterFinish ==
    [][\A j \in Jobs : charges'[j] # charges[j] => row[job[j].of].status # "finished"]_charges

=============================================================================
