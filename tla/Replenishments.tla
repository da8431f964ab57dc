--------------------------- MODULE Replenishments ---------------------------
(***************************************************************************)
(* Replenishments, orders that are paid again and again: Scheduler, which  *)
(* customers call, WorkerService, which BullMQ calls, and what they share: *)
(* the table replenishments, the hashes orderData in Redis, and BullMQ's   *)
(* job schedulers and jobs.                                                *)
(*                                                                         *)
(* As in Orders, pc[r] is the awaited call that the customer's handler in  *)
(* slot r makes next, and event[j] that of the worker's listener for job   *)
(* j; both know the row as they read it, and save the columns they have    *)
(* changed.  BullMQ is modelled from how it is used here.                  *)
(***************************************************************************)
EXTENDS Integers, FiniteSets

CONSTANTS
    Replenishments, \* ids of replenishments
    Requests,       \* slots of the customers' handlers under way
    Jobs,           \* ids of jobs
    None,           \* no value
    Times,          \* how often customers want to be supplied, 0 for no end
    Starts,         \* is a starting date given: values in use
    Expiries,       \* may an end date be near: values in use
    Attempts,       \* attempts of the queue's default job options
    PaymentRows,    \* bound: rows of a replenishment in replenishment_payments
    Kinds,          \* what customers do, of "create", "update", "cancel", ...
    Faults,         \* may an awaited call fail, or the process die
    Stalls          \* may it die amid a job

ASSUME NoneAssumption == None \notin Replenishments \cup Jobs
ASSUME TimesAssumption == Times \subseteq Nat
ASSUME StartsAssumption == Starts \subseteq BOOLEAN /\ Expiries \subseteq BOOLEAN
ASSUME JobsAssumption == IsFiniteSet(Jobs)
ASSUME AttemptsAssumption == Attempts \in Nat \ {0} /\ PaymentRows \in Nat
ASSUME KindsAssumption == Kinds \subseteq {"create", "update", "cancel", "resume", "remove"}
ASSUME FaultsAssumption == Faults \in BOOLEAN /\ Stalls \in BOOLEAN

VARIABLES
    row,       \* the table replenishments
    payments,  \* rows in replenishment_payments
    orderData, \* the keys of the hashes in Redis, each the set of job ids in it
    begun,     \* has the replenishment's start date passed
    scheduler, \* BullMQ's job schedulers
    job,       \* BullMQ's jobs
    charges,   \* history: how often Stripe charged the customer for the job
    ordered,   \* has the job's order been committed
    event,     \* what the worker's listener is doing for the job
    pc,        \* the call a customer's handler makes next
    arg        \* what it knows

queue == <<scheduler, job, begun>>
money == <<charges, ordered, event>>
vars  == <<row, payments, orderData, queue, money, pc, arg>>

Statuses == {"scheduled", "active", "finished", "canceled", "failed"}

(* next is the key of nextJobId, {} for SQL's NULL; paid tells whether     *)
(* lastPaymentDate is set.  A row that is soft-deleted is found no more.   *)
Row == [status: Statuses \cup {"none", "removed"}, times: Nat, executions: Nat,
        next: SUBSET Jobs, paid: BOOLEAN]
NoRow == [status |-> "none", times |-> 0, executions |-> 0, next |-> {}, paid |-> FALSE]

(* left is how many jobs a scheduler may still make.                       *)
SchedulerState == [on: BOOLEAN, left: Nat]
Off == [on |-> FALSE, left |-> 0]

JobState == [of: Replenishments \cup {None},
             state: {"none", "delayed", "running", "charged", "backoff", "completed", "failed"},
             attempts: 0..Attempts, stalls: 0..2]
NoJob == [of |-> None, state |-> "none", attempts |-> 0, stalls |-> 0]
NewJob(n) == [of |-> n, state |-> "delayed", attempts |-> 0, stalls |-> 0]

Listening == {"none", "read", "finish", "del", "next", "store", "save",
              "failed.read", "failed.del", "failed.save"}
Event == [step: Listening, old: Row, new: Row]
NoEvent == [step |-> "none", old |-> NoRow, new |-> NoRow]

Steps == {"idle", "count", "load", "upsert", "del", "store", "unschedule", "save", "destroy"}
Arg == [kind: {"create", "update", "cancel", "resume", "remove", "none"},
        of: Replenishments \cup {None}, old: Row, new: Row, limit: Int]
NoArg == [kind |-> "none", of |-> None, old |-> NoRow, new |-> NoRow, limit |-> 0]

TypeOK ==
    /\ row \in [Replenishments -> Row]
    /\ payments \in [Replenishments -> Nat]
    /\ orderData \subseteq SUBSET Jobs
    /\ begun \in [Replenishments -> BOOLEAN]
    /\ scheduler \in [Replenishments -> SchedulerState]
    /\ job \in [Jobs -> JobState]
    /\ charges \in [Jobs -> Nat]
    /\ ordered \in [Jobs -> BOOLEAN]
    /\ event \in [Jobs -> Event]
    /\ pc \in [Requests -> Steps]
    /\ arg \in [Requests -> Arg]

Init ==
    /\ row = [n \in Replenishments |-> NoRow]
    /\ payments = [n \in Replenishments |-> 0]
    /\ orderData = {}
    /\ begun = [n \in Replenishments |-> FALSE]
    /\ scheduler = [n \in Replenishments |-> Off]
    /\ job = [j \in Jobs |-> NoJob]
    /\ charges = [j \in Jobs |-> 0]
    /\ ordered = [j \in Jobs |-> FALSE]
    /\ event = [j \in Jobs |-> NoEvent]
    /\ pc = [r \in Requests |-> "idle"]
    /\ arg = [r \in Requests |-> NoArg]

-----------------------------------------------------------------------------
(* The parts handlers are made of.                                         *)

(* A cancellation that leaves the job scheduler be: faulty.                *)
AfterWithoutUnscheduling(kind, step) ==
    CASE step = "read" /\ kind = "update"     -> "count"
      [] step = "read" /\ kind = "resume"     -> "load"
      [] step = "read" /\ kind = "cancel"     -> "save"
      [] step = "read" /\ kind = "remove"     -> "unschedule"
      [] step \in {"insert", "count", "load"} -> "upsert"
      [] step = "upsert"     -> IF kind = "create" THEN "store" ELSE "del"
      [] step = "unschedule" -> "del"
      [] step = "del"        -> IF kind = "remove" THEN "destroy" ELSE "store"
      [] step = "store"      -> "save"

(* The steps of each of Scheduler's methods.                               *)
After(kind, step) ==
    CASE step = "read" /\ kind = "update"               -> "count"
      [] step = "read" /\ kind = "resume"               -> "load"
      [] step = "read" /\ kind \in {"cancel", "remove"} -> "unschedule"
      [] step \in {"insert", "count", "load"}           -> "upsert"
      [] step = "upsert"     -> IF kind = "create" THEN "store" ELSE "del"
      [] step = "unschedule" -> IF kind = "cancel" THEN "save" ELSE "del"
      [] step = "del"        -> IF kind = "remove" THEN "destroy" ELSE "store"
      [] step = "store"      -> "save"

Begin(r, a, step) ==
    /\ pc[r] = "idle"
    /\ arg' = [arg EXCEPT ![r] = a]
    /\ pc' = [pc EXCEPT ![r] = After(a.kind, step)]

Proceed(r, step) ==
    /\ pc[r] = step
    /\ pc' = [pc EXCEPT ![r] = After(arg[r].kind, step)]

Finish(r) ==
    /\ pc' = [pc EXCEPT ![r] = "idle"]
    /\ arg' = [arg EXCEPT ![r] = NoArg]

(* instance.save: the columns in which the instance differs from what was  *)
(* read are written to the row as it is now.                               *)
Saved(now, old, new) ==
    [status     |-> IF now.status = "removed" \/ new.status = old.status THEN now.status ELSE new.status,
     times      |-> IF new.times = old.times THEN now.times ELSE new.times,
     executions |-> IF new.executions = old.executions THEN now.executions ELSE new.executions,
     next       |-> IF new.next = old.next THEN now.next ELSE new.next,
     paid       |-> now.paid \/ new.paid]

(* A hook that adds a payment for the first date only: faulty.             *)
SaveFirstDate(n, old, new) ==
    /\ row' = [row EXCEPT ![n] = Saved(row[n], old, new)]
    /\ payments' = [payments EXCEPT ![n] = IF new.paid /\ ~old.paid THEN @ + 1 ELSE @]

(* The hook beforeUpdate adds a payment for the date of the last one, with *)
(* every update of a replenishment that was ever paid.                     *)
Save(n, old, new) ==
    /\ row' = [row EXCEPT ![n] = Saved(row[n], old, new)]
    /\ payments' = [payments EXCEPT ![n] = IF new.paid THEN @ + 1 ELSE @]

-----------------------------------------------------------------------------
(* BullMQ.                                                                 *)

(* No limit: as many jobs as there are ids.                                *)
Forever == Cardinality(Jobs)

IsDelayed(j, n) == job[j].of = n /\ job[j].state = "delayed"

Withdrawn(n) == [j \in Jobs |-> IF IsDelayed(j, n) THEN NoJob ELSE job[j]]

(* The scheduler's delayed job gives way to a new one.  It counts anew.    *)
UpsertJobScheduler(n, limit, j) ==
    /\ Withdrawn(n)[j] = NoJob
    /\ job' = [Withdrawn(n) EXCEPT ![j] = NewJob(n)]
    /\ scheduler' = [scheduler EXCEPT ![n] = [on |-> TRUE, left |-> limit - 1]]

(* A job that was taken already, or waits to be tried again, stays.        *)
RemoveJobScheduler(n) ==
    /\ job' = Withdrawn(n)
    /\ scheduler' = [scheduler EXCEPT ![n] = Off]

(* A job that is due is taken by the worker, and the next one is made.     *)
TakeJob(j) ==
    LET n == job[j].of  taken == [job EXCEPT ![j].state = "running"] IN
    /\ job[j].state = "delayed"
    /\ begun[n]
    /\ IF scheduler[n].on /\ scheduler[n].left > 0
          THEN /\ \E k \in Jobs :
                     /\ job[k] = NoJob
                     /\ job' = [taken EXCEPT ![k] = NewJob(n)]
               /\ scheduler' = [scheduler EXCEPT ![n].left = @ - 1]
          ELSE job' = taken /\ UNCHANGED scheduler
    /\ UNCHANGED <<row, payments, orderData, begun, money, pc, arg>>

(* The backoff is five seconds and more: no listener takes that long.      *)
RetryJob(j) ==
    /\ job[j].state = "backoff"
    /\ event[j].step = "none"
    /\ job' = [job EXCEPT ![j].state = "running"]
    /\ UNCHANGED <<row, payments, orderData, begun, scheduler, money, pc, arg>>

StartDatePasses(n) ==
    /\ ~begun[n]
    /\ begun' = [begun EXCEPT ![n] = TRUE]
    /\ UNCHANGED <<row, payments, orderData, scheduler, job, money, pc, arg>>

-----------------------------------------------------------------------------
(* PaymentService.processPayment, called by the worker for each attempt.   *)

Charge(j) ==
    /\ job[j].state = "running"
    /\ job' = [job EXCEPT ![j].state = "charged"]
    /\ charges' = [charges EXCEPT ![j] = @ + 1]
    /\ UNCHANGED <<row, payments, orderData, begun, scheduler, ordered, event, pc, arg>>

(* An attempt whose error is caught and not thrown again: faulty.          *)
CompleteAnyway(j) ==
    /\ job[j].state \in {"running", "charged"}
    /\ job' = [job EXCEPT ![j].state = "completed"]
    /\ event' = [event EXCEPT ![j].step = "read"]
    /\ UNCHANGED <<row, payments, orderData, begun, scheduler, charges, ordered, pc, arg>>

Complete(j) ==
    /\ job[j].state = "charged"
    /\ job' = [job EXCEPT ![j].state = "completed"]
    /\ event' = [event EXCEPT ![j].step = "read"]
    /\ UNCHANGED <<row, payments, orderData, begun, scheduler, charges, ordered, pc, arg>>

(* An attempt that fails after the charge is tried again at once and does  *)
(* not count as one: faulty.                                               *)
FailAttemptUncounted(j) ==
    LET attempts == job[j].attempts + IF job[j].state = "charged" THEN 0 ELSE 1 IN
    /\ job[j].state = "running" \/ (Faults /\ job[j].state = "charged")
    /\ job' = [job EXCEPT ![j] = [@ EXCEPT
          !.attempts = attempts,
          !.state = IF attempts < Attempts THEN "backoff" ELSE "failed"]]
    /\ event' = [event EXCEPT ![j].step = IF attempts = 1 THEN "failed.read" ELSE @]
    /\ UNCHANGED <<row, payments, orderData, begun, scheduler, charges, ordered, pc, arg>>

(* The card is declined, or something fails when it has been charged.      *)
FailAttempt(j) ==
    LET attempts == job[j].attempts + 1 IN
    /\ job[j].state = "running" \/ (Faults /\ job[j].state = "charged")
    /\ job' = [job EXCEPT ![j] = [@ EXCEPT
          !.attempts = attempts,
          !.state = IF attempts < Attempts THEN "backoff" ELSE "failed"]]
    /\ event' = [event EXCEPT ![j].step = IF attempts = 1 THEN "failed.read" ELSE @]
    /\ UNCHANGED <<row, payments, orderData, begun, scheduler, charges, ordered, pc, arg>>

(* The worker's process dies amid a job.  BullMQ finds it stalled and has  *)
(* it run again, once and without counting an attempt; then it has failed. *)
StallJob(j) ==
    LET stalls == job[j].stalls + 1 IN
    /\ Stalls
    /\ job[j].state \in {"running", "charged"}
    /\ job' = [job EXCEPT ![j] = [@ EXCEPT !.stalls = stalls,
                                          !.state = IF stalls = 1 THEN "running" ELSE "failed"]]
    /\ event' = [event EXCEPT
          ![j].step = IF stalls > 1 /\ job[j].attempts = 1 THEN "failed.read" ELSE @]
    /\ UNCHANGED <<row, payments, orderData, begun, scheduler, charges, ordered, pc, arg>>

-----------------------------------------------------------------------------
(* WorkerService's listener for completed jobs.                            *)

Heard(j, at, e) ==
    /\ event[j].step = at
    /\ event' = [event EXCEPT ![j] = e]
    /\ UNCHANGED <<queue, charges, pc, arg>>

Over(old, expired) == expired \/ (old.times # 0 /\ old.executions + 1 >= old.times)

Executed(old, expired) ==
    LET over == Over(old, expired) IN
        [old EXCEPT !.status = IF over THEN "finished"
                               ELSE IF @ \in {"scheduled", "failed"} THEN "active" ELSE @,
                    !.executions = @ + 1,
                    !.next = IF over THEN {} ELSE @,
                    !.paid = TRUE]

(* A listener that gives up when the replenishment is canceled: faulty.    *)
CompletedReadLive(j) ==
    LET old == row[job[j].of] IN
    /\ event[j].step = "read"
    /\ \/ /\ old.status \in {"removed", "canceled"}
          /\ Heard(j, "read", NoEvent)
       \/ /\ old.status \notin {"removed", "canceled"}
          /\ \E expired \in Expiries :
                Heard(j, "read", [step |-> IF Over(old, expired) THEN "finish" ELSE "del",
                                  old |-> old, new |-> Executed(old, expired)])
    /\ UNCHANGED <<row, payments, orderData, ordered>>

(* The transaction sees what its first query saw.  The order is inserted,  *)
(* the replenishment is read, or the transaction is rolled back.           *)
CompletedRead(j) ==
    LET old == row[job[j].of] IN
    /\ event[j].step = "read"
    /\ \/ /\ old.status = "removed"
          /\ Heard(j, "read", NoEvent)
       \/ /\ old.status # "removed"
          /\ \E expired \in Expiries :
                Heard(j, "read", [step |-> IF Over(old, expired) THEN "finish"
                                           ELSE IF old.status = "canceled" THEN "save" ELSE "del",
                                  old |-> old, new |-> Executed(old, expired)])
    /\ UNCHANGED <<row, payments, orderData, ordered>>

CompletedDel(j) ==
    /\ \/ Heard(j, "finish", [event[j] EXCEPT !.step = "save"])
       \/ Heard(j, "del", [event[j] EXCEPT !.step = "next"])
    /\ orderData' = orderData \ {event[j].old.next}
    /\ UNCHANGED <<row, payments, ordered>>

(* All of the scheduler's jobs that are delayed, for a date or a backoff.  *)
CompletedNext(j) ==
    LET n == job[j].of
        found == {k \in Jobs : job[k].of = n /\ job[k].state \in {"delayed", "backoff"}}
    IN  /\ Heard(j, "next", IF found = {} THEN [event[j] EXCEPT !.step = "save"]
                            ELSE [step |-> "store", old |-> event[j].old,
                                  new |-> [event[j].new EXCEPT !.next = found]])
        /\ UNCHANGED <<row, payments, orderData, ordered>>

CompletedStore(j) ==
    /\ Heard(j, "store", [event[j] EXCEPT !.step = "save"])
    /\ orderData' = orderData \cup {event[j].new.next}
    /\ UNCHANGED <<row, payments, ordered>>

(* The replenishment is saved, and the transaction commits.                *)
CompletedSave(j) ==
    /\ Heard(j, "save", NoEvent)
    /\ Save(job[j].of, event[j].old, event[j].new)
    /\ ordered' = [ordered EXCEPT ![j] = TRUE]
    /\ UNCHANGED orderData

-----------------------------------------------------------------------------
(* Its listener for failed attempts; it does nothing but for the first.    *)

FailedRead(j) ==
    LET old == row[job[j].of] IN
    /\ event[j].step = "failed.read"
    /\ Heard(j, "failed.read",
             IF old.status = "removed" THEN NoEvent
             ELSE [step |-> "failed.del", old |-> old,
                   new |-> [old EXCEPT !.status = "failed", !.next = {}]])
    /\ UNCHANGED <<row, payments, orderData, ordered>>

FailedDel(j) ==
    /\ Heard(j, "failed.del", [event[j] EXCEPT !.step = "failed.save"])
    /\ orderData' = orderData \ {event[j].old.next}
    /\ UNCHANGED <<row, payments, ordered>>

FailedSave(j) ==
    /\ Heard(j, "failed.save", NoEvent)
    /\ Save(job[j].of, event[j].old, event[j].new)
    /\ UNCHANGED <<orderData, ordered>>

-----------------------------------------------------------------------------
(* Scheduler: the first call of each of its methods.                       *)

Limit(times) == IF times = 0 THEN Forever ELSE times

CreateReplenishment(r, n, times, starting) ==
    LET created == [NoRow EXCEPT !.status = IF starting THEN "scheduled" ELSE "active",
                                 !.times = times]
    IN  /\ "create" \in Kinds
        /\ row[n].status = "none"
        /\ row' = [row EXCEPT ![n] = created]
        /\ begun' = [begun EXCEPT ![n] = ~starting]
        /\ Begin(r, [kind |-> "create", of |-> n, old |-> created, new |-> created,
                     limit |-> Limit(times)], "insert")
        /\ UNCHANGED <<payments, orderData, scheduler, job, money>>

(* A row that is found, with a status of which the method takes.           *)
ReadReplenishment(r, n, kind, statuses, new, given) ==
    /\ kind \in Kinds
    /\ row[n].status \in statuses
    /\ payments[n] < PaymentRows
    /\ Begin(r, [kind |-> kind, of |-> n, old |-> row[n], new |-> new, limit |-> given], "read")
    /\ UNCHANGED <<row, payments, orderData, queue, money>>

UpdateReplenishment(r, n, times) ==
    ReadReplenishment(r, n, "update", {"scheduled", "active"},
        [row[n] EXCEPT !.times = IF times = 0 THEN @ ELSE times], times)

CancelReplenishment(r, n) ==
    ReadReplenishment(r, n, "cancel", {"scheduled", "active"},
        [row[n] EXCEPT !.status = "canceled"], 0)

ResumeReplenishment(r, n) ==
    /\ row[n].next # {}
    /\ ReadReplenishment(r, n, "resume", {"canceled"}, row[n], 0)

RemoveReplenishment(r, n) ==
    ReadReplenishment(r, n, "remove", Statuses, row[n], 0)

-----------------------------------------------------------------------------
(* The calls that follow.                                                  *)

(* The payments are counted, and taken for the executions there were.      *)
Count(r) ==
    LET given == arg[r].limit  times == arg[r].old.times  count == payments[arg[r].of] IN
    /\ Proceed(r, "count")
    /\ arg' = [arg EXCEPT
          ![r].limit = IF given # 0 THEN IF given > count THEN given - count ELSE given
                       ELSE IF times # 0 THEN times - count ELSE Forever,
          ![r].new.executions = IF given = 0 THEN @ ELSE IF given <= count THEN 0 ELSE count]
    /\ UNCHANGED <<row, payments, orderData, queue, money>>

(* The data that the resumed jobs are to carry; gone, it cannot be parsed. *)
Load(r) ==
    LET old == arg[r].old IN
    /\ pc[r] = "load"
    /\ \/ /\ old.next \in orderData
          /\ Proceed(r, "load")
          /\ arg' = [arg EXCEPT ![r].limit = Limit(old.times),
                                ![r].new.status = IF begun[arg[r].of] THEN "active" ELSE "scheduled"]
       \/ /\ old.next \notin orderData
          /\ Finish(r)
    /\ UNCHANGED <<row, payments, orderData, queue, money>>

(* BullMQ makes no job for a limit below one, and the method throws.  A    *)
(* scheduled replenishment is updated with another starting date.          *)
Upsert(r) ==
    LET n == arg[r].of IN
    /\ pc[r] = "upsert"
    /\ \/ /\ arg[r].limit > 0
          /\ \E j \in Jobs :
                /\ UpsertJobScheduler(n, arg[r].limit, j)
                /\ arg' = [arg EXCEPT ![r].new.next = {j}]
          /\ \E passed \in IF arg[r].kind = "update" /\ arg[r].old.status = "scheduled"
                              THEN BOOLEAN ELSE {begun[n]} :
                begun' = [begun EXCEPT ![n] = passed]
          /\ Proceed(r, "upsert")
       \/ /\ arg[r].limit <= 0
          /\ Finish(r)
          /\ UNCHANGED queue
    /\ UNCHANGED <<row, payments, orderData, money>>

Unschedule(r) ==
    /\ Proceed(r, "unschedule")
    /\ RemoveJobScheduler(arg[r].of)
    /\ UNCHANGED <<row, payments, orderData, begun, money, arg>>

Del(r) ==
    /\ Proceed(r, "del")
    /\ orderData' = orderData \ {arg[r].old.next}
    /\ UNCHANGED <<row, payments, queue, money, arg>>

Store(r) ==
    /\ Proceed(r, "store")
    /\ orderData' = orderData \cup {arg[r].new.next}
    /\ UNCHANGED <<row, payments, queue, money, arg>>

SaveReplenishment(r) ==
    /\ pc[r] = "save"
    /\ Save(arg[r].of, arg[r].old, arg[r].new)
    /\ Finish(r)
    /\ UNCHANGED <<orderData, queue, money>>

Destroy(r) ==
    /\ pc[r] = "destroy"
    /\ row' = [row EXCEPT ![arg[r].of].status = "removed"]
    /\ Finish(r)
    /\ UNCHANGED <<payments, orderData, queue, money>>

-----------------------------------------------------------------------------
(* An awaited call throws, or the process dies.  A listener's transaction  *)
(* is rolled back; what was written to Redis stays written.                *)

Abort(r) ==
    /\ Faults
    /\ pc[r] # "idle"
    /\ Finish(r)
    /\ UNCHANGED <<row, payments, orderData, queue, money>>

AbortListener(j) ==
    /\ Faults
    /\ event[j].step # "none"
    /\ Heard(j, event[j].step, NoEvent)
    /\ UNCHANGED <<row, payments, orderData, ordered>>

Arrive(r) ==
    \E n \in Replenishments :
        \/ \E times \in Times, starting \in Starts : CreateReplenishment(r, n, times, starting)
        \/ \E times \in Times \cup {0} : UpdateReplenishment(r, n, times)
        \/ CancelReplenishment(r, n) \/ ResumeReplenishment(r, n) \/ RemoveReplenishment(r, n)

Continue(r) ==
    \/ Count(r) \/ Load(r) \/ Upsert(r) \/ Unschedule(r)
    \/ Del(r) \/ Store(r) \/ SaveReplenishment(r) \/ Destroy(r)

Listen(j) ==
    \/ CompletedRead(j) \/ CompletedDel(j) \/ CompletedNext(j)
    \/ CompletedStore(j) \/ CompletedSave(j)
    \/ FailedRead(j) \/ FailedDel(j) \/ FailedSave(j)

Work(j) ==
    \/ TakeJob(j) \/ RetryJob(j) \/ Charge(j)
    \/ Complete(j) \/ FailAttempt(j) \/ StallJob(j)

Next ==
    \/ \E r \in Requests : Arrive(r) \/ Continue(r) \/ Abort(r)
    \/ \E j \in Jobs : Work(j) \/ Listen(j) \/ AbortListener(j)
    \/ \E n \in Replenishments : StartDatePasses(n)

Spec == Init /\ [][Next]_vars

(* Node resumes handlers and listeners, and BullMQ hands out its jobs.     *)
FairSpec ==
    /\ Spec
    /\ \A r \in Requests : WF_vars(Continue(r))
    /\ \A j \in Jobs : WF_vars(Work(j)) /\ WF_vars(Listen(j))

=============================================================================
