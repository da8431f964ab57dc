------------------------- MODULE ReplenishmentProofs -------------------------
(***************************************************************************)
(* What is proved of the replenishments: the life of a job and what its    *)
(* listeners remember (IInv), and what becomes of one that is stopped.     *)
(***************************************************************************)
EXTENDS ReplenishmentProperties, FiniteSetTheorems, TLAPS

(* Records, once: the steps below take them as they are.                   *)
LEMMA Records ==
    /\ NoRow \in Row /\ NoJob \in JobState /\ NoEvent \in Event /\ NoArg \in Arg
    /\ Off \in SchedulerState
    /\ NoRow.executions = 0 /\ NoRow.paid = FALSE /\ NoEvent.step = "none"
    /\ NoJob.state = "none" /\ NoJob.of = None /\ NoJob.attempts = 0 /\ NoJob.stalls = 0
    /\ \A w \in Row : w.executions \in Nat /\ w.times \in Nat /\ w.paid \in BOOLEAN
                      /\ w.next \in SUBSET Jobs
    /\ \A e \in Event : e.step \in Listening /\ e.old \in Row /\ e.new \in Row
    /\ \A a \in Arg : /\ a.of \in Replenishments \cup {None}
                      /\ a.old \in Row /\ a.new \in Row /\ a.limit \in Int
    /\ \A b \in JobState : /\ b.of \in Replenishments \cup {None}
                           /\ b.attempts \in 0..Attempts /\ b.stalls \in 0..2
                           /\ b.state \in {"none", "delayed"} \cup Taken
    /\ \A s \in SchedulerState : s.left \in Nat
<1>1. NoRow \in Row /\ NoRow.executions = 0 /\ NoRow.paid = FALSE
  BY DEF Row, NoRow
<1>2. NoJob \in JobState /\ Off \in SchedulerState
  BY AttemptsAssumption DEF JobState, NoJob, SchedulerState, Off
<1>3. NoEvent \in Event /\ NoEvent.step = "none"
  BY <1>1 DEF Event, NoEvent, Listening
<1>4. NoArg \in Arg
  BY <1>1 DEF Arg, NoArg
<1>5. NoJob.state = "none" /\ NoJob.of = None /\ NoJob.attempts = 0 /\ NoJob.stalls = 0
  BY DEF NoJob
<1>6. \A w \in Row : w.executions \in Nat /\ w.times \in Nat /\ w.paid \in BOOLEAN
                     /\ w.next \in SUBSET Jobs
  BY DEF Row
<1>7. \A e \in Event : e.step \in Listening /\ e.old \in Row /\ e.new \in Row
  BY DEF Event
<1>8. \A a \in Arg : /\ a.of \in Replenishments \cup {None}
                     /\ a.old \in Row /\ a.new \in Row /\ a.limit \in Int
  BY DEF Arg
<1>9. \A b \in JobState : /\ b.of \in Replenishments \cup {None}
                          /\ b.attempts \in 0..Attempts /\ b.stalls \in 0..2
                          /\ b.state \in {"none", "delayed"} \cup Taken
  BY DEF JobState, Taken
<1>10. \A s \in SchedulerState : s.left \in Nat
  BY DEF SchedulerState
<1>11. QED
  BY <1>1, <1>2, <1>3, <1>4, <1>5, <1>6, <1>7, <1>8, <1>9, <1>10

LEMMA RowUpdates == \A w \in Row :
    /\ \A s \in Statuses \cup {"none", "removed"} :
          LET v == [w EXCEPT !.status = s] IN v \in Row /\ v.executions = w.executions
    /\ \A t \in Nat : [w EXCEPT !.times = t] \in Row
    /\ \A x \in Nat : [w EXCEPT !.executions = x] \in Row
    /\ \A x \in SUBSET Jobs :
          LET v == [w EXCEPT !.next = x] IN
          v \in Row /\ v.executions = w.executions /\ v.paid = w.paid
  BY DEF Row

LEMMA SavedType == ASSUME NEW now \in Row, NEW old \in Row, NEW new \in Row
                   PROVE  /\ Saved(now, old, new) \in Row
                          /\ Saved(now, old, new).executions \in {now.executions, new.executions}
<1>1. Saved(now, old, new) \in Row
  BY DEF Saved, Row, Statuses
<1>2. QED
  BY <1>1 DEF Saved

(* A job that changes its state, and what it keeps.                        *)
LEMMA JobUpdates == \A b \in JobState :
    /\ \A s \in {"none", "delayed"} \cup Taken :
          LET c == [b EXCEPT !.state = s] IN
          /\ c \in JobState /\ c.state = s /\ c.of = b.of
          /\ c.attempts = b.attempts /\ c.stalls = b.stalls
    /\ \A s \in {"none", "delayed"} \cup Taken, n \in 0..Attempts :
          LET c == [b EXCEPT !.attempts = n, !.state = s] IN
          c \in JobState /\ c.state = s /\ c.of = b.of /\ c.attempts = n /\ c.stalls = b.stalls
    /\ \A s \in {"none", "delayed"} \cup Taken, n \in 0..2 :
          LET c == [b EXCEPT !.stalls = n, !.state = s] IN
          c \in JobState /\ c.state = s /\ c.of = b.of /\ c.stalls = n /\ c.attempts = b.attempts
<1>1. ASSUME NEW b \in JobState, NEW s \in {"none", "delayed"} \cup Taken
      PROVE  LET c == [b EXCEPT !.state = s] IN
             /\ c \in JobState /\ c.state = s /\ c.of = b.of
             /\ c.attempts = b.attempts /\ c.stalls = b.stalls
  BY DEF JobState, Taken
<1>2. ASSUME NEW b \in JobState, NEW s \in {"none", "delayed"} \cup Taken, NEW n \in 0..Attempts
      PROVE  LET c == [b EXCEPT !.attempts = n, !.state = s] IN
             c \in JobState /\ c.state = s /\ c.of = b.of /\ c.attempts = n /\ c.stalls = b.stalls
  BY DEF JobState, Taken
<1>3. ASSUME NEW b \in JobState, NEW s \in {"none", "delayed"} \cup Taken, NEW n \in 0..2
      PROVE  LET c == [b EXCEPT !.stalls = n, !.state = s] IN
             c \in JobState /\ c.state = s /\ c.of = b.of /\ c.stalls = n /\ c.attempts = b.attempts
  BY DEF JobState, Taken
<1>4. QED
  BY <1>1, <1>2, <1>3

LEMMA NewJobs == \A n \in Replenishments :
    /\ NewJob(n) \in JobState /\ NewJob(n).state = "delayed"
    /\ NewJob(n).of = n /\ NewJob(n).attempts = 0 /\ NewJob(n).stalls = 0
  BY AttemptsAssumption DEF JobState, NewJob

LEMMA EventUpdates == \A e \in Event, s \in Listening :
    LET c == [e EXCEPT !.step = s] IN
    c \in Event /\ c.step = s /\ c.old = e.old /\ c.new = e.new
  BY DEF Event

(* The steps of a handler are steps, and none of them is the end.          *)
LEMMA AfterType ==
    /\ \A kind \in {"update", "cancel", "resume", "remove"} : After(kind, "read") \in Steps \ {"idle"}
    /\ \A kind : \A step \in {"insert", "count", "load", "upsert", "unschedule", "del", "store"} :
          After(kind, step) \in Steps \ {"idle"}
<1>1. ASSUME NEW kind \in {"update", "cancel", "resume", "remove"}
      PROVE  After(kind, "read") \in {"count", "load", "unschedule"}
  BY DEF After
<1>2. ASSUME NEW kind, NEW step \in {"insert", "count", "load"}
      PROVE  After(kind, step) = "upsert"
  BY DEF After
<1>3. ASSUME NEW kind
      PROVE  /\ After(kind, "upsert") \in {"store", "del"}
             /\ After(kind, "unschedule") \in {"save", "del"}
             /\ After(kind, "del") \in {"destroy", "store"}
             /\ After(kind, "store") = "save"
  BY DEF After
<1>4. QED
  BY <1>1, <1>2, <1>3 DEF Steps

LEMMA ArgUpdates == \A a \in Arg :
    /\ \A l \in Int : LET b == [a EXCEPT !.limit = l] IN b \in Arg /\ b.of = a.of /\ b.new = a.new
    /\ \A w \in Row : LET b == [a EXCEPT !.new = w] IN b \in Arg /\ b.of = a.of /\ b.new = w
  BY DEF Arg

LEMMA InitInvariant == Init => IInv
<1> SUFFICES ASSUME Init PROVE IInv
  OBVIOUS
<1> USE DEF Init
<1>1. TypeOK
  BY Records DEF TypeOK, Steps
<1>2. JobsSound
  BY Records, AttemptsAssumption DEF JobsSound, JobSound, Completing, Taken
<1>3. PaymentsCovered
  <2>1. \A n \in Replenishments : OrdersOf(n) = {}
    BY DEF OrdersOf, JobsOf
  <2>2. Cardinality({}) = 0
    BY FS_EmptySet
  <2>3. ASSUME NEW n \in Replenishments
        PROVE  Cardinality(OrdersOf(n)) = 0 /\ payments[n] = 0 /\ row[n] = NoRow
    BY <2>1, <2>2
  <2>4. QED
    BY <2>3, Records DEF PaymentsCovered
<1>4. ListenersRemember /\ HandlersRemember
  BY Records DEF ListenersRemember, HandlersRemember, Completing
<1>5. QED
  BY <1>1, <1>2, <1>3, <1>4 DEF IInv

-----------------------------------------------------------------------------
(* The rows, and the payments that bound their executions.                 *)
RowsKept == \A n \in Replenishments :
    /\ payments'[n] >= payments[n]
    /\ row'[n].executions <= payments'[n]

LEMMA SaveKeeps ==
    ASSUME TypeOK, PaymentsCovered, NEW n \in Replenishments, NEW old \in Row, NEW new \in Row,
           Save(n, old, new),
           new.executions <= payments[n] \/ (new.paid /\ new.executions <= payments[n] + 1)
    PROVE  /\ row' \in [Replenishments -> Row] /\ payments' \in [Replenishments -> Nat]
           /\ RowsKept
<1> USE DEF TypeOK, Save
<1> DEFINE w == Saved(row[n], old, new)
<1>1. w \in Row /\ w.executions \in {row[n].executions, new.executions}
  BY SavedType
<1>2. row' = [row EXCEPT ![n] = w]
  BY DEF Save
<1> HIDE DEF w
<1>3. row' \in [Replenishments -> Row]
  BY <1>1, <1>2
<1>4. payments' \in [Replenishments -> Nat] /\ \A m \in Replenishments : payments'[m] >= payments[m]
  OBVIOUS
<1>5. w.executions <= payments'[n]
  BY <1>1, Records DEF PaymentsCovered
<1>6. row'[n].executions <= payments'[n]
  BY <1>2, <1>5
<1>7. ASSUME NEW m \in Replenishments, m # n PROVE row'[m].executions <= payments'[m]
  BY <1>2, <1>7 DEF PaymentsCovered
<1>8. QED
  BY <1>3, <1>4, <1>6, <1>7 DEF RowsKept

LEMMA RowsStep == IInv /\ [Next]_vars =>
    /\ row' \in [Replenishments -> Row] /\ payments' \in [Replenishments -> Nat]
    /\ RowsKept
<1> DEFINE Goal == /\ row' \in [Replenishments -> Row] /\ payments' \in [Replenishments -> Nat]
                   /\ RowsKept
<1> SUFFICES ASSUME IInv, [Next]_vars PROVE Goal
  OBVIOUS
<1> TypeOK /\ PaymentsCovered /\ ListenersRemember /\ HandlersRemember /\ JobsSound
  BY DEF IInv
<1>1. CASE row' = row /\ payments' = payments
  BY <1>1 DEF RowsKept, PaymentsCovered, TypeOK
<1>2. ASSUME NEW r \in Requests, NEW n \in Replenishments, NEW times \in Times, NEW starting \in Starts,
             CreateReplenishment(r, n, times, starting)
      PROVE  Goal
  <2> DEFINE created == [NoRow EXCEPT !.status = IF starting THEN "scheduled" ELSE "active",
                                      !.times = times]
  <2>1. created \in Row /\ created.executions = 0
    BY TimesAssumption DEF Row, NoRow, Statuses
  <2>2. row' = [row EXCEPT ![n] = created] /\ payments' = payments
    BY <1>2 DEF CreateReplenishment
  <2> HIDE DEF created
  <2>3. QED
    BY <2>1, <2>2 DEF RowsKept, PaymentsCovered, TypeOK
<1>3. ASSUME NEW j \in Jobs, CompletedSave(j) PROVE Goal
  <2>1. /\ job[j].of \in Replenishments
        /\ event[j].new.paid /\ event[j].new.executions <= payments[job[j].of] + 1
        /\ event[j].old \in Row /\ event[j].new \in Row
    BY <1>3, Records
    DEF CompletedSave, Heard, ListenersRemember, JobsSound, JobSound, Completing, TypeOK, Taken
  <2>2. QED
    BY <1>3, <2>1, SaveKeeps DEF CompletedSave
<1>4. ASSUME NEW j \in Jobs, FailedSave(j) PROVE Goal
  <2>1. /\ job[j].of \in Replenishments
        /\ event[j].new.executions <= payments[job[j].of]
        /\ event[j].old \in Row /\ event[j].new \in Row
    BY <1>4, Records
    DEF FailedSave, Heard, ListenersRemember, JobsSound, JobSound, TypeOK, Taken
  <2>2. QED
    BY <1>4, <2>1, SaveKeeps DEF FailedSave
<1>5. ASSUME NEW r \in Requests, SaveReplenishment(r) PROVE Goal
  <2>1. /\ arg[r].of \in Replenishments /\ arg[r].new.executions <= payments[arg[r].of]
        /\ arg[r].old \in Row /\ arg[r].new \in Row
    BY <1>5, Records DEF SaveReplenishment, HandlersRemember, TypeOK
  <2>2. QED
    BY <1>5, <2>1, SaveKeeps DEF SaveReplenishment
<1>6. ASSUME NEW r \in Requests, Destroy(r) PROVE Goal
  <2> DEFINE n == arg[r].of
             w == [row[n] EXCEPT !.status = "removed"]
  <2>1. n \in Replenishments
    BY <1>6 DEF Destroy, HandlersRemember
  <2>2. w \in Row /\ w.executions = row[n].executions
    BY <2>1, RowUpdates DEF TypeOK
  <2>3. row' = [row EXCEPT ![n] = w] /\ payments' = payments
    BY <1>6 DEF Destroy
  <2> HIDE DEF w, n
  <2>4. QED
    BY <2>1, <2>2, <2>3 DEF RowsKept, PaymentsCovered, TypeOK
<1> HIDE DEF Goal
<1>7. ASSUME NEW r \in Requests, Arrive(r) PROVE Goal
  BY <1>1, <1>2, <1>7
  DEF Arrive, UpdateReplenishment, CancelReplenishment, ResumeReplenishment, RemoveReplenishment,
      ReadReplenishment
<1>8. ASSUME NEW r \in Requests, Continue(r) PROVE Goal
  BY <1>1, <1>5, <1>6, <1>8 DEF Continue, Count, Load, Upsert, Unschedule, Del, Store
<1>9. ASSUME NEW j \in Jobs, Listen(j) \/ AbortListener(j) PROVE Goal
  BY <1>1, <1>3, <1>4, <1>9
  DEF Listen, AbortListener, CompletedRead, CompletedDel, CompletedNext, CompletedStore,
      FailedRead, FailedDel
<1>10. ASSUME NEW j \in Jobs, Work(j) PROVE Goal
  BY <1>1, <1>10 DEF Work, TakeJob, RetryJob, Charge, Complete, FailAttempt, StallJob
<1>11. QED
  BY <1>1, <1>7, <1>8, <1>9, <1>10 DEF Next, vars, Abort, StartDatePasses

-----------------------------------------------------------------------------
(* What a step does to a job: nothing, or it is made or withdrawn, or      *)
(* worked at, or its listener goes on.                                     *)
Rests(k) ==
    job'[k] = job[k] /\ charges'[k] = charges[k] /\ ordered'[k] = ordered[k] /\ event'[k] = event[k]

Replaced(k) ==
    /\ job[k].state \in {"none", "delayed"}
    /\ job'[k] = NoJob \/ \E n \in Replenishments : job'[k] = NewJob(n)
    /\ charges'[k] = charges[k] /\ ordered'[k] = ordered[k] /\ event'[k] = event[k]

Worked(k) ==
    /\ Work(k)
    /\ job[k].state \in {"delayed", "running", "charged", "backoff"}
    /\ job'[k].of = job[k].of
    /\ ordered'[k] = ordered[k]

Listened(k) == Listen(k) \/ AbortListener(k)

LEMMA WithdrawnType ==
    ASSUME TypeOK, NEW n \in Replenishments
    PROVE  /\ Withdrawn(n) \in [Jobs -> JobState]
           /\ \A k \in Jobs : \/ Withdrawn(n)[k] = job[k]
                              \/ Withdrawn(n)[k] = NoJob /\ job[k].state = "delayed"
  BY Records DEF TypeOK, Withdrawn, IsDelayed

(* A job of the queue belongs to a replenishment.                          *)
LEMMA OwnedJob ==
    ASSUME TypeOK, JobsSound, NEW j \in Jobs, job[j].state # "none"
    PROVE  job[j].of \in Replenishments
  BY Records DEF TypeOK, JobsSound, JobSound

LEMMA TakeStep ==
    ASSUME TypeOK, JobsSound, NEW j \in Jobs, TakeJob(j)
    PROVE  /\ job' \in [Jobs -> JobState]
           /\ job'[j] = [job[j] EXCEPT !.state = "running"]
           /\ \A k \in Jobs \ {j} : job'[k] = job[k] \/ (job[k] = NoJob /\ job'[k] = NewJob(job[j].of))
<1> DEFINE n == job[j].of
           b == [job[j] EXCEPT !.state = "running"]
           taken == [job EXCEPT ![j] = b]
<1>1. n \in Replenishments /\ job[j].state = "delayed"
  BY OwnedJob DEF TakeJob
<1>2. b \in JobState
  BY JobUpdates DEF TypeOK, Taken
<1>3. \/ job' = taken
      \/ \E k \in Jobs : job[k] = NoJob /\ job' = [taken EXCEPT ![k] = NewJob(n)]
  BY DEF TakeJob
<1>4. NewJob(n) \in JobState
  BY <1>1, NewJobs
<1>5. job[j] # NoJob
  BY <1>1, Records
<1> HIDE DEF b, n
<1>6. taken \in [Jobs -> JobState] /\ taken[j] = b /\ \A k \in Jobs \ {j} : taken[k] = job[k]
  BY <1>2 DEF TypeOK
<1> HIDE DEF taken
<1>7. /\ job' \in [Jobs -> JobState] /\ job'[j] = b
      /\ \A k \in Jobs \ {j} : job'[k] = job[k] \/ (job[k] = NoJob /\ job'[k] = NewJob(n))
  BY <1>3, <1>4, <1>5, <1>6
<1>8. QED
  BY <1>7 DEF b, n

JobsKept ==
    /\ job' \in [Jobs -> JobState] /\ charges' \in [Jobs -> Nat] /\ ordered' \in [Jobs -> BOOLEAN]
    /\ \A k \in Jobs : Rests(k) \/ Replaced(k) \/ Worked(k) \/ Listened(k)

LEMMA WithdrawStep ==
    ASSUME IInv, NEW r \in Requests, Upsert(r) \/ Unschedule(r)
    PROVE  JobsKept
<1> TypeOK /\ JobsSound /\ HandlersRemember
  BY DEF IInv
<1> USE DEF TypeOK, money
<1> DEFINE n == arg[r].of
<1>1. n \in Replenishments
  BY DEF Upsert, Unschedule, Proceed, HandlersRemember
<1> HIDE DEF n
<1>2. /\ Withdrawn(n) \in [Jobs -> JobState]
      /\ \A k \in Jobs : \/ Withdrawn(n)[k] = job[k]
                         \/ Withdrawn(n)[k] = NoJob /\ job[k].state = "delayed"
  BY <1>1, WithdrawnType
<1>3. UNCHANGED money
  BY DEF Upsert, Unschedule
<1>4. CASE job' = job
  BY <1>3, <1>4 DEF JobsKept, Rests
<1>5. CASE job' = Withdrawn(n)
  BY <1>2, <1>3, <1>5 DEF JobsKept, Rests, Replaced
<1>6. ASSUME NEW j \in Jobs, Withdrawn(n)[j] = NoJob, job' = [Withdrawn(n) EXCEPT ![j] = NewJob(n)]
      PROVE  JobsKept
  <2>1. NewJob(n) \in JobState
    BY <1>1, NewJobs
  <2>2. job' \in [Jobs -> JobState] /\ job'[j] = NewJob(n)
        /\ \A k \in Jobs \ {j} : job'[k] = Withdrawn(n)[k]
    BY <1>2, <1>6, <2>1
  <2>3. job[j].state \in {"none", "delayed"}
    BY <1>2, <1>6, Records
  <2>4. QED
    BY <1>1, <1>2, <1>3, <2>2, <2>3 DEF JobsKept, Rests, Replaced
<1>7. CASE Unschedule(r)
  BY <1>5, <1>7 DEF Unschedule, RemoveJobScheduler, n
<1>8. CASE Upsert(r)
  BY <1>4, <1>6, <1>8 DEF Upsert, UpsertJobScheduler, queue, n
<1>9. QED
  BY <1>7, <1>8

LEMMA WorkStep ==
    ASSUME IInv, NEW j \in Jobs, Work(j)
    PROVE  JobsKept
<1> TypeOK /\ JobsSound
  BY DEF IInv
<1> USE DEF TypeOK, money
<1> DEFINE b == job[j]
<1>1. b \in JobState /\ b.attempts \in Nat
  BY DEF JobState
<1>2. CASE TakeJob(j)
  <2>1. /\ job' \in [Jobs -> JobState] /\ job'[j] = [job[j] EXCEPT !.state = "running"]
        /\ \A k \in Jobs \ {j} : job'[k] = job[k] \/ (job[k] = NoJob /\ job'[k] = NewJob(job[j].of))
    BY <1>2, TakeStep
  <2> DEFINE c == [b EXCEPT !.state = "running"]
  <2>1a. c.of = b.of
    BY <1>1, JobUpdates DEF Taken
  <2>2. job'[j].of = job[j].of
    <3> HIDE DEF c
    <3>1. job'[j] = c
      BY <2>1 DEF c
    <3>2. QED
      BY <2>1a, <3>1
  <2>3. job[j].state = "delayed" /\ job[j].of \in Replenishments
    BY <1>2, OwnedJob DEF TakeJob
  <2>4. UNCHANGED money
    BY <1>2 DEF TakeJob
  <2>5. Worked(j)
    BY <1>2, <2>2, <2>3, <2>4 DEF Worked, Work
  <2>6. ASSUME NEW k \in Jobs \ {j} PROVE Rests(k) \/ Replaced(k)
    <3>1. CASE job'[k] = job[k]
      BY <2>4, <3>1 DEF Rests
    <3>2. CASE job[k] = NoJob /\ job'[k] = NewJob(job[j].of)
      BY <2>3, <2>4, <3>2, Records DEF Replaced
    <3>3. QED
      BY <2>1, <3>1, <3>2
  <2>7. charges' \in [Jobs -> Nat] /\ ordered' \in [Jobs -> BOOLEAN]
    BY <2>4
  <2>8. QED
    BY <2>1, <2>5, <2>6, <2>7 DEF JobsKept
<1>3. ASSUME NEW c \in JobState, job' = [job EXCEPT ![j] = c], c.of = b.of,
             b.state \in {"running", "charged", "backoff"},
             charges' \in [Jobs -> Nat], \A k \in Jobs \ {j} : charges'[k] = charges[k],
             ordered' = ordered, \A k \in Jobs \ {j} : event'[k] = event[k]
      PROVE  JobsKept
  BY <1>3 DEF JobsKept, Rests, Worked
<1>4. CASE RetryJob(j) \/ Charge(j) \/ Complete(j)
  <2>1. PICK state \in {"running", "charged", "completed"} : job' = [job EXCEPT ![j].state = state]
    BY <1>4 DEF RetryJob, Charge, Complete
  <2> DEFINE c == [b EXCEPT !.state = state]
  <2>2. c \in JobState /\ c.of = b.of
    BY <1>1, JobUpdates DEF Taken
  <2>3. job' = [job EXCEPT ![j] = c]
    BY <2>1
  <2> HIDE DEF c
  <2>4. b.state \in {"running", "charged", "backoff"} /\ ordered' = ordered
    BY <1>4 DEF RetryJob, Charge, Complete
  <2>5. charges' = charges \/ charges' = [charges EXCEPT ![j] = @ + 1]
    BY <1>4 DEF RetryJob, Charge, Complete
  <2>6. charges' \in [Jobs -> Nat] /\ \A k \in Jobs \ {j} : charges'[k] = charges[k]
    BY <2>5
  <2>7. \A k \in Jobs \ {j} : event'[k] = event[k]
    BY <1>4 DEF RetryJob, Charge, Complete
  <2>8. QED
    BY <1>3, <2>2, <2>3, <2>4, <2>6, <2>7
<1>7. CASE FailAttempt(j)
  <2> DEFINE attempts == b.attempts + 1
             state == IF attempts < Attempts THEN "backoff" ELSE "failed"
             c == [b EXCEPT !.attempts = attempts, !.state = state]
  <2>1. b.state \in {"running", "charged"} /\ b.attempts < Attempts
    BY <1>7 DEF FailAttempt, JobsSound, JobSound
  <2>2. attempts \in 0..Attempts /\ state \in Taken
    BY <1>1, <2>1, AttemptsAssumption DEF Taken
  <2>3. job' = [job EXCEPT ![j] = c]
    BY <1>7 DEF FailAttempt
  <2> HIDE DEF attempts, state, b
  <2>4. c \in JobState /\ c.of = b.of
    BY <1>1, <2>2 DEF JobState, Taken
  <2> HIDE DEF c
  <2>5. UNCHANGED <<charges, ordered>> /\ \A k \in Jobs \ {j} : event'[k] = event[k]
    BY <1>7 DEF FailAttempt
  <2>6. QED
    BY <1>3, <2>1, <2>3, <2>4, <2>5
<1>8. CASE StallJob(j)
  <2> DEFINE stalls == b.stalls + 1
             state == IF stalls = 1 THEN "running" ELSE "failed"
             c == [b EXCEPT !.stalls = stalls, !.state = state]
  <2>1. b.state \in {"running", "charged"} /\ b.stalls \in 0..1
    BY <1>1, <1>8 DEF StallJob, JobsSound, JobSound, JobState
  <2>2. stalls \in 0..2 /\ state \in Taken
    BY <2>1 DEF Taken
  <2>3. job' = [job EXCEPT ![j] = c]
    BY <1>8 DEF StallJob
  <2> HIDE DEF stalls, state, b
  <2>4. c \in JobState /\ c.of = b.of
    BY <1>1, <2>2 DEF JobState, Taken
  <2> HIDE DEF c
  <2>5. UNCHANGED <<charges, ordered>> /\ \A k \in Jobs \ {j} : event'[k] = event[k]
    BY <1>8 DEF StallJob
  <2>6. QED
    BY <1>3, <2>1, <2>3, <2>4, <2>5
<1>9. QED
  BY <1>2, <1>4, <1>7, <1>8 DEF Work

LEMMA JobStep == IInv /\ [Next]_vars => JobsKept
<1> SUFFICES ASSUME IInv, [Next]_vars PROVE JobsKept
  OBVIOUS
<1> TypeOK
  BY DEF IInv
<1>1. CASE UNCHANGED <<job, money>>
  BY <1>1 DEF JobsKept, Rests, money, TypeOK
<1>2. ASSUME NEW r \in Requests, Arrive(r) \/ Continue(r) \/ Abort(r) PROVE JobsKept
  <2>1. CASE Upsert(r) \/ Unschedule(r)
    BY <2>1, WithdrawStep
  <2>2. CASE Arrive(r)
    BY <1>1, <2>2
    DEF Arrive, CreateReplenishment, UpdateReplenishment, CancelReplenishment, ResumeReplenishment,
        RemoveReplenishment, ReadReplenishment, queue
  <2>3. CASE Count(r) \/ Load(r) \/ Del(r) \/ Store(r) \/ SaveReplenishment(r) \/ Destroy(r) \/ Abort(r)
    BY <1>1, <2>3 DEF Count, Load, Del, Store, SaveReplenishment, Destroy, Abort, queue
  <2>4. QED
    BY <1>2, <2>1, <2>2, <2>3 DEF Continue
<1>3. ASSUME NEW j \in Jobs, Listen(j) \/ AbortListener(j) PROVE JobsKept
  <2>1. /\ job' = job /\ charges' = charges
        /\ ordered' = ordered \/ ordered' = [ordered EXCEPT ![j] = TRUE]
        /\ \E e : event' = [event EXCEPT ![j] = e]
    BY <1>3
    DEF Listen, AbortListener, CompletedRead, CompletedDel, CompletedNext, CompletedStore,
        CompletedSave, FailedRead, FailedDel, FailedSave, Heard, queue
  <2>2. \A k \in Jobs \ {j} : Rests(k)
    BY <2>1 DEF Rests, TypeOK
  <2>3. QED
    BY <1>3, <2>1, <2>2 DEF JobsKept, Listened, TypeOK
<1>4. QED
  BY <1>1, <1>2, <1>3, WorkStep DEF Next, vars, queue, StartDatePasses

(* What a listener remembers when it goes on.                              *)
Failing == {"failed.read", "failed.del", "failed.save"}

Heeds(j, e) ==
    /\ e \in Event
    /\ event' = [event EXCEPT ![j] = e]
    /\ e.step \notin {"read", "failed.read"}
    /\ e.step \in Completing => /\ event[j].step \in Completing
                                /\ e.new.paid /\ e.new.executions <= payments[job[j].of] + 1
    /\ e.step \in Failing => /\ event[j].step \in Failing
                             /\ e.new.executions <= payments[job[j].of]

LEMMA ExecutedType ==
    ASSUME NEW old \in Row, NEW expired \in BOOLEAN
    PROVE  LET new == Executed(old, expired) IN
           new \in Row /\ new.executions = old.executions + 1 /\ new.paid
<1> DEFINE executions == old.executions + 1
           over == Over(old, expired)
           status == IF over THEN "finished"
                     ELSE IF old.status \in {"scheduled", "failed"} THEN "active" ELSE old.status
           next == IF over THEN {} ELSE old.next
           new == [old EXCEPT !.status = status, !.executions = executions, !.next = next, !.paid = TRUE]
<1>1. Executed(old, expired) = new
  BY DEF Executed
<1>2. executions \in Nat
  BY Records
<1>3. status \in Statuses \cup {"none", "removed"} /\ next \in SUBSET Jobs
  BY DEF Row, Statuses
<1> HIDE DEF executions, status, next
<1>4. new \in Row /\ new.executions = executions /\ new.paid
  BY <1>2, <1>3 DEF Row
<1>5. QED
  BY <1>1, <1>4 DEF executions

LEMMA ListenStep ==
    ASSUME IInv, NEW j \in Jobs, Listen(j) \/ AbortListener(j)
    PROVE  \E e : Heeds(j, e)
<1> TypeOK /\ JobsSound /\ ListenersRemember /\ PaymentsCovered
  BY DEF IInv
<1> DEFINE n == job[j].of
<1>1. event[j] \in Event /\ event[j].old \in Row /\ event[j].new \in Row
  BY Records DEF TypeOK
<1>2. ASSUME event[j].step # "none" PROVE n \in Replenishments /\ payments[n] \in Nat
                                          /\ row[n] \in Row /\ row[n].executions <= payments[n]
  BY <1>2, OwnedJob DEF TypeOK, JobsSound, JobSound, PaymentsCovered, Taken
<1>3. /\ event[j].step \in Completing \ {"read"} =>
            event[j].new.paid /\ event[j].new.executions <= payments[n] + 1
      /\ event[j].step \in {"failed.del", "failed.save"} => event[j].new.executions <= payments[n]
  BY DEF ListenersRemember
<1>4. NoEvent \in Event /\ NoEvent.step \notin Completing \cup Failing \cup {"read", "failed.read"}
  BY Records DEF Completing, Failing
<1>5. ASSUME event' = [event EXCEPT ![j] = NoEvent] PROVE \E e : Heeds(j, e)
  BY <1>4, <1>5 DEF Heeds
<1>6. ASSUME NEW at \in Completing \ {"read"}, NEW s \in Completing \ {"read"},
             Heard(j, at, [event[j] EXCEPT !.step = s])
      PROVE  \E e : Heeds(j, e)
  <2> DEFINE e == [event[j] EXCEPT !.step = s]
  <2>0. s \in Listening
    BY <1>6 DEF Completing, Listening
  <2>1. e \in Event /\ e.step = s /\ e.new = event[j].new
    BY <1>1, <2>0 DEF Event
  <2>2. event[j].step = at /\ event' = [event EXCEPT ![j] = e]
    BY <1>6 DEF Heard
  <2> HIDE DEF e
  <2>3. Heeds(j, e)
    BY <1>3, <2>1, <2>2 DEF Heeds, Completing, Failing
  <2>4. QED
    BY <2>3
<1>7. CASE CompletedRead(j)
  <2>1. event[j].step = "read" /\ row[n] \in Row /\ row[n].executions \in Nat
    BY <1>2, <1>7, Records DEF CompletedRead
  <2>2. CASE Heard(j, "read", NoEvent)
    BY <1>5, <2>2 DEF Heard
  <2>3. ASSUME NEW expired \in Expiries, NEW s \in {"finish", "save", "del"},
               Heard(j, "read", [step |-> s, old |-> row[n], new |-> Executed(row[n], expired)])
        PROVE  \E e : Heeds(j, e)
    <3> DEFINE new == Executed(row[n], expired)
               e == [step |-> s, old |-> row[n], new |-> new]
    <3>1. new \in Row /\ new.executions = row[n].executions + 1 /\ new.paid
      BY <2>1, ExecutedType, StartsAssumption
    <3>2. event' = [event EXCEPT ![j] = e]
      BY <2>3 DEF Heard
    <3> HIDE DEF new
    <3>3. e \in Event /\ e.step = s /\ e.new = new
      BY <2>1, <3>1 DEF Event, Listening
    <3> HIDE DEF e
    <3>4. new.executions <= payments[n] + 1
      BY <1>2, <2>1, <3>1
    <3>5. Heeds(j, e)
      BY <2>1, <3>1, <3>2, <3>3, <3>4 DEF Heeds, Completing, Failing
    <3>6. QED
      BY <3>5
  <2>4. \/ Heard(j, "read", NoEvent)
        \/ \E expired \in Expiries, s \in {"finish", "save", "del"} :
              Heard(j, "read", [step |-> s, old |-> row[n], new |-> Executed(row[n], expired)])
    BY <1>7 DEF CompletedRead
  <2>5. QED
    BY <2>2, <2>3, <2>4
<1>8. CASE CompletedDel(j)
  BY <1>6, <1>8 DEF CompletedDel, Completing
<1>9. CASE CompletedNext(j)
  <2>1. ASSUME NEW found \in SUBSET Jobs,
               Heard(j, "next", [step |-> "store", old |-> event[j].old,
                                 new |-> [event[j].new EXCEPT !.next = found]])
        PROVE  \E e : Heeds(j, e)
    <3> DEFINE w == event[j].new
               new == [w EXCEPT !.next = found]
               e == [step |-> "store", old |-> event[j].old, new |-> new]
    <3>1. event' = [event EXCEPT ![j] = e] /\ event[j].step = "next"
      BY <2>1 DEF Heard
    <3>2. w.paid /\ w.executions <= payments[n] + 1 /\ w \in Row
      BY <1>1, <1>3, <3>1 DEF Completing
    <3> HIDE DEF w
    <3>3. new \in Row /\ new.executions = w.executions /\ new.paid = w.paid
      BY <3>2 DEF Row
    <3> HIDE DEF new
    <3>4. e \in Event /\ e.step = "store" /\ e.new = new
      BY <1>1, <3>3 DEF Event, Listening
    <3> HIDE DEF e
    <3>5. Heeds(j, e)
      BY <3>1, <3>2, <3>3, <3>4 DEF Heeds, Completing, Failing
    <3>6. QED
      BY <3>5
  <2>2. \/ Heard(j, "next", [event[j] EXCEPT !.step = "save"])
        \/ \E found \in SUBSET Jobs :
              Heard(j, "next", [step |-> "store", old |-> event[j].old,
                                new |-> [event[j].new EXCEPT !.next = found]])
    BY <1>9 DEF CompletedNext
  <2>3. QED
    BY <1>6, <2>1, <2>2 DEF Completing
<1>10. CASE CompletedStore(j)
  BY <1>6, <1>10 DEF CompletedStore, Completing
<1>11. CASE CompletedSave(j) \/ FailedSave(j) \/ AbortListener(j)
  BY <1>5, <1>11 DEF CompletedSave, FailedSave, AbortListener, Heard
<1>12. CASE FailedRead(j)
  <2> DEFINE w == row[n]
             new == [w EXCEPT !.status = "failed", !.next = {}]
             e == [step |-> "failed.del", old |-> w, new |-> new]
  <2>1. event[j].step = "failed.read" /\ w \in Row /\ w.executions <= payments[n]
    BY <1>2, <1>12 DEF FailedRead
  <2>2. event' = [event EXCEPT ![j] = NoEvent] \/ event' = [event EXCEPT ![j] = e]
    BY <1>12 DEF FailedRead, Heard
  <2> HIDE DEF w
  <2>3. new \in Row /\ new.executions = w.executions
    BY <2>1 DEF Row, Statuses
  <2> HIDE DEF new
  <2>4. e \in Event /\ e.step = "failed.del" /\ e.new = new
    BY <2>1, <2>3 DEF Event, Listening
  <2> HIDE DEF e
  <2>5. event' = [event EXCEPT ![j] = e] => Heeds(j, e)
    BY <2>1, <2>3, <2>4 DEF Heeds, Completing, Failing
  <2>6. QED
    BY <1>5, <2>2, <2>5
<1>13. CASE FailedDel(j)
  <2> DEFINE e == [event[j] EXCEPT !.step = "failed.save"]
  <2>1. e \in Event /\ e.step = "failed.save" /\ e.new = event[j].new
    BY <1>1, EventUpdates DEF Listening
  <2>2. event[j].step = "failed.del" /\ event' = [event EXCEPT ![j] = e]
    BY <1>13 DEF FailedDel, Heard
  <2> HIDE DEF e
  <2>3. Heeds(j, e)
    BY <1>3, <2>1, <2>2 DEF Heeds, Completing, Failing
  <2>4. QED
    BY <2>3
<1>14. QED
  BY <1>7, <1>8, <1>9, <1>10, <1>11, <1>12, <1>13 DEF Listen

LEMMA SoundStep == IInv /\ [Next]_vars => JobsSound'
<1> SUFFICES ASSUME IInv, [Next]_vars, NEW k \in Jobs PROVE JobSound(k)'
  BY DEF JobsSound
<1> TypeOK /\ JobSound(k)
  BY DEF IInv, JobsSound
<1> USE DEF TypeOK
<1>1. Rests(k) \/ Replaced(k) \/ Worked(k) \/ Listened(k)
  BY JobStep DEF JobsKept
<1>2. /\ job[k] \in JobState /\ job[k].attempts \in Nat /\ job[k].stalls \in Nat
      /\ job[k].state \in {"none", "delayed"} \cup Taken
      /\ charges[k] \in Nat /\ Attempts \in Nat \ {0}
  BY Records, AttemptsAssumption
<1>3. CASE Rests(k)
  BY <1>3 DEF JobSound, Rests
<1>4. CASE Replaced(k)
  <2>1. job'[k].state \in {"none", "delayed"} /\ job'[k].attempts = 0 /\ job'[k].stalls = 0
        /\ (job'[k].of = None <=> job'[k].state = "none")
    BY <1>4, Records, NewJobs, NoneAssumption DEF Replaced
  <2>2. charges[k] = 0 /\ ~ordered[k] /\ event[k].step = "none"
    BY <1>4 DEF Replaced, JobSound, Taken
  <2>3. UNCHANGED <<charges[k], ordered[k], event[k]>>
    BY <1>4 DEF Replaced
  <2>4. QED
    BY <1>2, <2>1, <2>2, <2>3 DEF JobSound, Taken, Completing
<1>5. CASE Listened(k)
  <2>1. job'[k] = job[k] /\ charges'[k] = charges[k]
    BY <1>5
    DEF Listened, Listen, AbortListener, CompletedRead, CompletedDel, CompletedNext, CompletedStore,
        CompletedSave, FailedRead, FailedDel, FailedSave, Heard, queue
  <2>2. CASE CompletedSave(k)
    BY <1>2, <2>1, <2>2, Records DEF CompletedSave, Heard, JobSound, Completing
  <2>3. CASE ~CompletedSave(k)
    <3>1. ordered'[k] = ordered[k] /\ event[k].step # "none"
      BY <1>5, <2>3
      DEF Listened, Listen, AbortListener, CompletedRead, CompletedDel, CompletedNext, CompletedStore,
          FailedRead, FailedDel, FailedSave, Heard
    <3>2. event'[k].step \in Completing => event[k].step \in Completing
      BY <1>5, ListenStep DEF Heeds, Listened
    <3>3. QED
      BY <2>1, <3>1, <3>2 DEF JobSound, Completing
  <2>4. QED
    BY <2>2, <2>3
<1>6. CASE Worked(k)
  <2>1. ordered'[k] = ordered[k] /\ job'[k].of = job[k].of /\ job[k].state # "completed" /\ ~ordered[k]
    BY <1>6 DEF Worked, JobSound
  <2> DEFINE b == job[k]
  <2>2. ASSUME NEW s \in Taken PROVE [b EXCEPT !.state = s].state = s
                                     /\ [b EXCEPT !.state = s].attempts = b.attempts
                                     /\ [b EXCEPT !.state = s].stalls = b.stalls
    <3>1. b \in JobState
      BY <1>2
    <3> HIDE DEF b
    <3>2. QED
      BY <3>1 DEF JobState
  <2> HIDE DEF b
  <2>3. CASE TakeJob(k)
    <3>1. job'[k] = [b EXCEPT !.state = "running"]
      BY <2>3, TakeStep DEF b, IInv
    <3>2. job'[k].state = "running" /\ job'[k].attempts = job[k].attempts /\ job'[k].stalls = job[k].stalls
      BY <2>2, <3>1 DEF Taken, b
    <3>3. UNCHANGED <<charges, event>> /\ job[k].state = "delayed"
      BY <2>3 DEF TakeJob, money
    <3>4. QED
      BY <1>2, <2>1, <3>2, <3>3 DEF JobSound, Taken, Completing
  <2>4. CASE RetryJob(k)
    <3>1. job'[k] = [b EXCEPT !.state = "running"]
      BY <2>4 DEF RetryJob, b
    <3>2. job'[k].state = "running" /\ job'[k].attempts = job[k].attempts /\ job'[k].stalls = job[k].stalls
      BY <2>2, <3>1 DEF Taken, b
    <3>3. UNCHANGED <<charges, event>> /\ job[k].state = "backoff"
      BY <2>4 DEF RetryJob, money
    <3>4. QED
      BY <1>2, <2>1, <3>2, <3>3 DEF JobSound, Taken, Completing
  <2>5. CASE Charge(k)
    <3>1. job'[k] = [b EXCEPT !.state = "charged"]
      BY <2>5 DEF Charge, b
    <3>2. job'[k].state = "charged" /\ job'[k].attempts = job[k].attempts /\ job'[k].stalls = job[k].stalls
      BY <2>2, <3>1 DEF Taken, b
    <3>3. charges'[k] = charges[k] + 1 /\ event'[k] = event[k] /\ job[k].state = "running"
      BY <2>5 DEF Charge
    <3>4. QED
      BY <1>2, <2>1, <3>2, <3>3 DEF JobSound, Taken, Completing
  <2>6. CASE Complete(k)
    <3>1. job'[k] = [b EXCEPT !.state = "completed"]
      BY <2>6 DEF Complete, b
    <3>2. job'[k].state = "completed" /\ job'[k].attempts = job[k].attempts /\ job'[k].stalls = job[k].stalls
      BY <2>2, <3>1 DEF Taken, b
    <3>3. charges'[k] = charges[k] /\ job[k].state = "charged"
      BY <2>6 DEF Complete
    <3>4. QED
      BY <1>2, <2>1, <3>2, <3>3 DEF JobSound, Taken, Completing
  <2>7. CASE FailAttempt(k)
    <3> DEFINE attempts == b.attempts + 1
               state == IF attempts < Attempts THEN "backoff" ELSE "failed"
    <3>1. job'[k] = [b EXCEPT !.attempts = attempts, !.state = state]
      BY <2>7 DEF FailAttempt, b
    <3>2. b.attempts < Attempts /\ job[k].state \in {"running", "charged"} /\ charges'[k] = charges[k]
      BY <2>7 DEF FailAttempt, b, JobSound
    <3>3. job'[k].state = state /\ job'[k].attempts = attempts /\ job'[k].stalls = b.stalls
      <4> HIDE DEF state, attempts
      <4>1. b \in JobState
        BY <1>2 DEF b
      <4>2. QED
        BY <3>1, <4>1 DEF JobState
    <3>4. event'[k].step \in {"failed.read", event[k].step}
      BY <2>7, Records DEF FailAttempt
    <3>5. event[k].step \notin Completing
      BY <3>2 DEF JobSound
    <3>6. charges[k] <= b.attempts + b.stalls + 1 /\ b.stalls <= 1
      BY <3>2 DEF JobSound, b
    <3>7. QED
      BY <1>2, <2>1, <3>2, <3>3, <3>4, <3>5, <3>6 DEF JobSound, Taken, Completing, b
  <2>8. CASE StallJob(k)
    <3> DEFINE stalls == b.stalls + 1
               state == IF stalls = 1 THEN "running" ELSE "failed"
    <3>1. job'[k] = [b EXCEPT !.stalls = stalls, !.state = state]
      BY <2>8 DEF StallJob, b
    <3>2. b.attempts < Attempts /\ b.stalls <= 1 /\ b.stalls \in Nat
          /\ job[k].state \in {"running", "charged"} /\ charges'[k] = charges[k]
      BY <1>2, <2>8 DEF StallJob, b, JobSound
    <3>3. job'[k].state = state /\ job'[k].attempts = b.attempts /\ job'[k].stalls = stalls
      <4> HIDE DEF state, stalls
      <4>1. b \in JobState
        BY <1>2 DEF b
      <4>2. QED
        BY <3>1, <4>1 DEF JobState
    <3>4. event'[k].step \in {"failed.read", event[k].step}
      BY <2>8, Records DEF StallJob
    <3>5. event[k].step \notin Completing
      BY <3>2 DEF JobSound
    <3>6. charges[k] <= b.attempts + b.stalls + 1
      BY DEF JobSound, b
    <3>7. stalls = 2 => state = "failed"
      BY <3>2
    <3>8. QED
      BY <1>2, <2>1, <3>2, <3>3, <3>4, <3>5, <3>6, <3>7 DEF JobSound, Taken, Completing, b
  <2>9. QED
    BY <1>6, <2>3, <2>4, <2>5, <2>6, <2>7, <2>8 DEF Worked, Work
<1>7. QED
  BY <1>1, <1>3, <1>4, <1>5, <1>6

(* What a step does to what the worker's listener does.                    *)
Told(j) ==
    \E e \in Event :
        /\ event' = [event EXCEPT ![j] = e]
        /\ e.step \in {"read", "failed.read"} \/ (e.step = event[j].step /\ e.new = event[j].new)

LEMMA EventStep ==
    IInv /\ [Next]_vars => \/ UNCHANGED event
                           \/ \E j \in Jobs : Told(j) \/ \E e : Heeds(j, e)
<1> SUFFICES ASSUME IInv, [Next]_vars
             PROVE  \/ UNCHANGED event
                    \/ \E j \in Jobs : Told(j) \/ \E e : Heeds(j, e)
  OBVIOUS
<1> TypeOK
  BY DEF IInv
<1>1. ASSUME NEW j \in Jobs, Complete(j) PROVE Told(j)
  <2> DEFINE e == [event[j] EXCEPT !.step = "read"]
  <2>0. event[j] \in Event /\ "read" \in Listening
    BY DEF TypeOK, Listening
  <2>1. e \in Event /\ e.step = "read"
    BY <2>0 DEF Event
  <2>2. event' = [event EXCEPT ![j] = e]
    BY <1>1 DEF Complete
  <2> HIDE DEF e
  <2>3. QED
    BY <2>1, <2>2 DEF Told
<1>2. ASSUME NEW j \in Jobs, FailAttempt(j) PROVE Told(j)
  <2> DEFINE first == job[j].attempts + 1 = 1
             step == IF first THEN "failed.read" ELSE event[j].step
             e == [event[j] EXCEPT !.step = step]
  <2>1. event' = [event EXCEPT ![j] = e]
    BY <1>2 DEF FailAttempt
  <2>2. event[j] \in Event /\ event[j].step \in Listening
    BY Records DEF TypeOK
  <2>3. step \in Listening /\ step \in {"failed.read", event[j].step}
    BY <2>2 DEF Listening
  <2> HIDE DEF step
  <2>4. e \in Event /\ e.step = step /\ e.new = event[j].new
    BY <2>2, <2>3, EventUpdates
  <2> HIDE DEF e
  <2>5. QED
    BY <2>1, <2>3, <2>4 DEF Told
<1>2a. ASSUME NEW j \in Jobs, StallJob(j) PROVE Told(j)
  <2> DEFINE last == job[j].stalls + 1 > 1 /\ job[j].attempts = 1
             step == IF last THEN "failed.read" ELSE event[j].step
             e == [event[j] EXCEPT !.step = step]
  <2>1. event' = [event EXCEPT ![j] = e]
    BY <1>2a DEF StallJob
  <2>2. event[j] \in Event /\ event[j].step \in Listening
    BY Records DEF TypeOK
  <2>3. step \in Listening /\ step \in {"failed.read", event[j].step}
    BY <2>2 DEF Listening
  <2> HIDE DEF step
  <2>4. e \in Event /\ e.step = step /\ e.new = event[j].new
    BY <2>2, <2>3, EventUpdates
  <2> HIDE DEF e
  <2>5. QED
    BY <2>1, <2>3, <2>4 DEF Told
<1>3. ASSUME NEW r \in Requests, Arrive(r) \/ Continue(r) \/ Abort(r) PROVE UNCHANGED event
  BY <1>3
  DEF Arrive, CreateReplenishment, UpdateReplenishment, CancelReplenishment, ResumeReplenishment,
      RemoveReplenishment, ReadReplenishment, Continue, Count, Load, Upsert, Unschedule, Del, Store,
      SaveReplenishment, Destroy, Abort, money
<1>4. ASSUME NEW j \in Jobs, Work(j) PROVE UNCHANGED event \/ Told(j)
  BY <1>1, <1>2, <1>2a, <1>4 DEF Work, TakeJob, RetryJob, Charge, money
<1>5. QED
  BY <1>3, <1>4, ListenStep DEF Next, vars, money, StartDatePasses

LEMMA ListenersStep == IInv /\ [Next]_vars => event' \in [Jobs -> Event] /\ ListenersRemember'
<1> SUFFICES ASSUME IInv, [Next]_vars PROVE event' \in [Jobs -> Event] /\ ListenersRemember'
  OBVIOUS
<1> TypeOK /\ JobsSound /\ ListenersRemember
  BY DEF IInv
<1> DEFINE Known(k, e, n, p) ==
              /\ e.step \in Completing \ {"read"} => e.new.paid /\ e.new.executions <= p[n] + 1
              /\ e.step \in {"failed.del", "failed.save"} => e.new.executions <= p[n]
<1>1. event' \in [Jobs -> Event]
  BY EventStep DEF Told, Heeds, TypeOK
<1>2. ASSUME NEW k \in Jobs PROVE Known(k, event'[k], job[k].of, payments)
  <2>1. Known(k, event[k], job[k].of, payments)
    BY DEF ListenersRemember
  <2>2. CASE event'[k] = event[k]
    BY <2>1, <2>2
  <2>3. CASE Told(k)
    <3>1. PICK e \in Event :
             /\ event' = [event EXCEPT ![k] = e]
             /\ e.step \in {"read", "failed.read"} \/ (e.step = event[k].step /\ e.new = event[k].new)
      BY <2>3 DEF Told
    <3>2. event'[k] = e
      BY <3>1 DEF TypeOK
    <3>3. QED
      BY <2>1, <3>1, <3>2 DEF Completing
  <2>4. ASSUME NEW e, Heeds(k, e) PROVE Known(k, event'[k], job[k].of, payments)
    <3>1. event'[k] = e
      BY <2>4 DEF Heeds, TypeOK
    <3>2. QED
      BY <2>4, <3>1 DEF Heeds, Completing, Failing
  <2>5. event'[k] = event[k] \/ Told(k) \/ \E e : Heeds(k, e)
    BY EventStep DEF Told, Heeds, TypeOK
  <2>6. QED
    BY <2>2, <2>3, <2>4, <2>5
<1>3. ASSUME NEW k \in Jobs, event'[k].step # "none"
      PROVE  job[k].of \in Replenishments /\ job'[k].of = job[k].of
  <2>1. CASE Rests(k) \/ Replaced(k)
    <3>1. event[k].step # "none"
      BY <1>3, <2>1 DEF Rests, Replaced
    <3>2. job[k].state \in Taken
      BY <3>1 DEF JobsSound, JobSound
    <3>3. job[k].state \notin {"none", "delayed"}
      BY <3>2 DEF Taken
    <3>4. job'[k] = job[k]
      BY <2>1, <3>3 DEF Rests, Replaced
    <3>5. QED
      BY <3>3, <3>4, OwnedJob
  <2>2. CASE Worked(k)
    BY <2>2, OwnedJob DEF Worked
  <2>3. CASE Listened(k)
    <3>1. job' = job /\ event[k].step # "none"
      BY <2>3
      DEF Listened, Listen, AbortListener, CompletedRead, CompletedDel, CompletedNext, CompletedStore,
          CompletedSave, FailedRead, FailedDel, FailedSave, Heard, queue
    <3>2. QED
      BY <3>1, OwnedJob DEF JobsSound, JobSound, Taken
  <2>4. QED
    BY <2>1, <2>2, <2>3, JobStep DEF JobsKept
<1>4. ASSUME NEW k \in Jobs PROVE Known(k, event'[k], job'[k].of, payments')
  <2>1. CASE event'[k].step = "none"
    BY <2>1 DEF Completing
  <2>2. CASE event'[k].step # "none"
    <3> DEFINE n == job[k].of
    <3>1. n \in Replenishments /\ job'[k].of = n
      BY <1>3, <2>2
    <3>2. payments'[n] >= payments[n] /\ payments[n] \in Nat /\ payments'[n] \in Nat
      BY <3>1, RowsStep DEF RowsKept, TypeOK
    <3>3. event'[k].new.executions \in Nat
      BY <1>1, Records
    <3> HIDE DEF n
    <3>4. Known(k, event'[k], n, payments)
      BY <1>2 DEF n
    <3>5. QED
      BY <3>1, <3>2, <3>3, <3>4
  <2>3. QED
    BY <2>1, <2>2
<1>5. QED
  BY <1>1, <1>4 DEF ListenersRemember

-----------------------------------------------------------------------------
(* What a customer's handler remembers when it goes on.                    *)
Goes(r) ==
    \E a \in Arg, step \in Steps :
        /\ pc' = [pc EXCEPT ![r] = step]
        /\ arg' = [arg EXCEPT ![r] = a]
        /\ step # "idle" => a.of \in Replenishments /\ a.new.executions <= payments[a.of]

LEMMA BeginsGoing ==
    ASSUME TypeOK, NEW r \in Requests, NEW a \in Arg, NEW step,
           Begin(r, a, step), step = "insert" \/ (step = "read" /\ a.kind \notin {"create", "none"}),
           a.of \in Replenishments, a.new.executions <= payments[a.of]
    PROVE  Goes(r)
<1>1. After(a.kind, step) \in Steps
  BY AfterType DEF Arg
<1>2. pc' = [pc EXCEPT ![r] = After(a.kind, step)] /\ arg' = [arg EXCEPT ![r] = a]
  BY DEF Begin
<1>3. QED
  BY <1>1, <1>2 DEF Goes

LEMMA ProceedsGoing ==
    ASSUME IInv, NEW r \in Requests, NEW a \in Arg,
           NEW step \in {"count", "load", "upsert", "unschedule", "del", "store"},
           Proceed(r, step), arg' = [arg EXCEPT ![r] = a],
           a.of = arg[r].of, a.new.executions <= payments[a.of]
    PROVE  Goes(r)
<1>1. After(arg[r].kind, step) \in Steps
  BY AfterType
<1>2. pc' = [pc EXCEPT ![r] = After(arg[r].kind, step)] /\ pc[r] # "idle"
  BY DEF Proceed
<1>3. a.of \in Replenishments
  BY <1>2 DEF IInv, HandlersRemember
<1>4. QED
  BY <1>1, <1>2, <1>3 DEF Goes

LEMMA FinishesGoing ==
    ASSUME NEW r \in Requests, Finish(r)
    PROVE  Goes(r)
<1>1. "idle" \in Steps
  BY DEF Steps
<1>2. QED
  BY <1>1, Records DEF Finish, Goes

LEMMA ArriveStep == ASSUME IInv, NEW r \in Requests, Arrive(r) PROVE Goes(r)
<1> TypeOK /\ PaymentsCovered
  BY DEF IInv
<1>1. ASSUME NEW n \in Replenishments, NEW times \in Times, NEW starting \in Starts,
             CreateReplenishment(r, n, times, starting)
      PROVE  Goes(r)
  <2> DEFINE created == [NoRow EXCEPT !.status = IF starting THEN "scheduled" ELSE "active",
                                      !.times = times]
             a == [kind |-> "create", of |-> n, old |-> created, new |-> created,
                   limit |-> Limit(times)]
  <2>1. Begin(r, a, "insert")
    BY <1>1 DEF CreateReplenishment
  <2>2. created \in Row /\ created.executions = 0
    BY TimesAssumption DEF Row, NoRow, Statuses
  <2>3. Limit(times) \in Int
    BY TimesAssumption, JobsAssumption, FS_CardinalityType DEF Limit, Forever
  <2> HIDE DEF created
  <2>4. a \in Arg /\ a.of = n /\ a.new = created
    BY <2>2, <2>3 DEF Arg
  <2>5. payments[n] \in Nat
    BY DEF TypeOK
  <2> HIDE DEF a
  <2>6. a.new.executions <= payments[a.of]
    BY <2>2, <2>4, <2>5
  <2>7. QED
    BY <2>1, <2>4, <2>6, BeginsGoing
<1>2. ASSUME NEW n \in Replenishments, NEW kind \in {"update", "cancel", "resume", "remove"},
             NEW statuses, NEW new \in Row, NEW given \in Int,
             new.executions = row[n].executions,
             ReadReplenishment(r, n, kind, statuses, new, given)
      PROVE  Goes(r)
  <2> DEFINE a == [kind |-> kind, of |-> n, old |-> row[n], new |-> new, limit |-> given]
  <2>1. Begin(r, a, "read")
    BY <1>2 DEF ReadReplenishment
  <2>2. a \in Arg /\ a.of = n /\ a.new = new /\ a.kind = kind
    BY DEF Arg, TypeOK
  <2> HIDE DEF a
  <2>3. a.new.executions <= payments[a.of]
    BY <1>2, <2>2 DEF PaymentsCovered
  <2>4. QED
    BY <2>1, <2>2, <2>3, BeginsGoing
<1>3. ASSUME NEW n \in Replenishments, NEW times \in Times \cup {0}, UpdateReplenishment(r, n, times)
      PROVE  Goes(r)
  <2> DEFINE w == row[n]
             t == IF times = 0 THEN w.times ELSE times
             new == [w EXCEPT !.times = t]
  <2>1. w \in Row /\ t \in Nat
    BY TimesAssumption, Records DEF TypeOK
  <2>2. ReadReplenishment(r, n, "update", {"scheduled", "active"}, new, times)
    BY <1>3 DEF UpdateReplenishment
  <2> HIDE DEF w, t
  <2>3. new \in Row /\ new.executions = w.executions
    BY <2>1 DEF Row
  <2> HIDE DEF new
  <2>4. times \in Int
    BY TimesAssumption
  <2>5. QED
    BY <1>2, <2>2, <2>3, <2>4 DEF w
<1>4. ASSUME NEW n \in Replenishments, CancelReplenishment(r, n) PROVE Goes(r)
  <2> DEFINE w == row[n]
             new == [w EXCEPT !.status = "canceled"]
  <2>1. w \in Row
    BY DEF TypeOK
  <2>2. ReadReplenishment(r, n, "cancel", {"scheduled", "active"}, new, 0)
    BY <1>4 DEF CancelReplenishment
  <2> HIDE DEF w
  <2>3. new \in Row /\ new.executions = w.executions
    BY <2>1, RowUpdates DEF Statuses
  <2> HIDE DEF new
  <2>4. QED
    BY <1>2, <2>2, <2>3 DEF w
<1>5. ASSUME NEW n \in Replenishments, ResumeReplenishment(r, n) \/ RemoveReplenishment(r, n)
      PROVE  Goes(r)
  <2>1. row[n] \in Row
    BY DEF TypeOK
  <2>2. \/ ReadReplenishment(r, n, "resume", {"canceled"}, row[n], 0)
        \/ ReadReplenishment(r, n, "remove", Statuses, row[n], 0)
    BY <1>5 DEF ResumeReplenishment, RemoveReplenishment
  <2>3. QED
    BY <1>2, <2>1, <2>2
<1>6. QED
  BY <1>1, <1>3, <1>4, <1>5 DEF Arrive

LEMMA ContinueStep == ASSUME IInv, NEW r \in Requests, Continue(r) PROVE Goes(r)
<1> TypeOK /\ HandlersRemember
  BY DEF IInv
<1> DEFINE a == arg[r]
           w == a.new
           count == payments[a.of]
<1>1. /\ a \in Arg /\ w \in Row /\ a.old \in Row
      /\ a.limit \in Int /\ a.old.times \in Nat /\ w.executions \in Nat
  BY Records DEF TypeOK
<1>2. ASSUME pc[r] # "idle" PROVE a.of \in Replenishments /\ w.executions <= count /\ count \in Nat
  BY <1>2 DEF HandlersRemember, TypeOK
<1>3. CASE Count(r)
  <2> DEFINE limit == IF a.limit # 0 THEN IF a.limit > count THEN a.limit - count ELSE a.limit
                      ELSE IF a.old.times # 0 THEN a.old.times - count ELSE Forever
             executions == IF a.limit = 0 THEN w.executions ELSE IF a.limit <= count THEN 0 ELSE count
             v == [w EXCEPT !.executions = executions]
             b == [a EXCEPT !.limit = limit, !.new = v]
  <2>1. Proceed(r, "count") /\ arg' = [arg EXCEPT ![r] = b]
    BY <1>3 DEF Count
  <2>2. count \in Nat /\ w.executions <= count
    BY <1>2, <2>1 DEF Proceed
  <2>3. Forever \in Int
    BY JobsAssumption, FS_CardinalityType DEF Forever
  <2> HIDE DEF count, w, a
  <2>4. limit \in Int /\ executions \in Nat /\ executions <= count
    BY <1>1, <2>2, <2>3
  <2> HIDE DEF limit, executions
  <2>5. v \in Row /\ v.executions = executions
    BY <1>1, <2>4 DEF Row
  <2> HIDE DEF v
  <2>6. b \in Arg /\ b.of = a.of /\ b.new = v
    BY <1>1, <2>4, <2>5 DEF Arg
  <2> HIDE DEF b
  <2>7. b.new.executions <= payments[b.of]
    BY <2>4, <2>5, <2>6 DEF count
  <2>8. QED
    BY <2>1, <2>6, <2>7, ProceedsGoing DEF a
<1>4. CASE Load(r)
  <2>1. CASE Finish(r)
    BY <2>1, FinishesGoing
  <2>2. ASSUME Proceed(r, "load"),
               arg' = [arg EXCEPT ![r].limit = Limit(a.old.times),
                                  ![r].new.status = IF begun[a.of] THEN "active" ELSE "scheduled"]
        PROVE  Goes(r)
    <3> DEFINE limit == Limit(a.old.times)
               status == IF begun[a.of] THEN "active" ELSE "scheduled"
               v == [w EXCEPT !.status = status]
               b == [a EXCEPT !.limit = limit, !.new = v]
    <3>1. Proceed(r, "load") /\ arg' = [arg EXCEPT ![r] = b]
      BY <2>2
    <3>2. w.executions <= count
      BY <1>2, <3>1 DEF Proceed
    <3>3. limit \in Int
      BY <1>1, JobsAssumption, FS_CardinalityType DEF Limit, Forever
    <3>4. status \in Statuses
      BY DEF Statuses
    <3> HIDE DEF limit, status, w, a
    <3>5. v \in Row /\ v.executions = w.executions
      BY <1>1, <3>4 DEF Row
    <3> HIDE DEF v
    <3>6. b \in Arg /\ b.of = a.of /\ b.new = v
      BY <1>1, <3>3, <3>5 DEF Arg
    <3> HIDE DEF b
    <3>7. b.new.executions <= payments[b.of]
      BY <3>2, <3>5, <3>6
    <3>8. QED
      BY <3>1, <3>6, <3>7, ProceedsGoing DEF a
  <2>3. QED
    BY <1>4, <2>1, <2>2 DEF Load
<1>5. CASE Upsert(r)
  <2>1. CASE Finish(r)
    BY <2>1, FinishesGoing
  <2>2. ASSUME NEW j \in Jobs, Proceed(r, "upsert"), arg' = [arg EXCEPT ![r].new.next = {j}]
        PROVE  Goes(r)
    <3> DEFINE v == [w EXCEPT !.next = {j}]
               b == [a EXCEPT !.new = v]
    <3>1. arg' = [arg EXCEPT ![r] = b]
      BY <2>2
    <3>2. w.executions <= count
      BY <1>2, <2>2 DEF Proceed
    <3>3. {j} \in SUBSET Jobs
      OBVIOUS
    <3> HIDE DEF w, a
    <3>4. v \in Row /\ v.executions = w.executions
      BY <1>1, <3>3 DEF Row
    <3> HIDE DEF v
    <3>5. b \in Arg /\ b.of = a.of /\ b.new = v
      BY <1>1, <3>4 DEF Arg
    <3> HIDE DEF b
    <3>6. b.new.executions <= payments[b.of]
      BY <3>2, <3>4, <3>5
    <3>7. QED
      BY <2>2, <3>1, <3>5, <3>6, ProceedsGoing DEF a
  <2>3. QED
    BY <1>5, <2>1, <2>2 DEF Upsert
<1>6. CASE Unschedule(r) \/ Del(r) \/ Store(r)
  <2>1. PICK step \in {"unschedule", "del", "store"} : Proceed(r, step)
    BY <1>6 DEF Unschedule, Del, Store
  <2>2. arg' = [arg EXCEPT ![r] = a]
    BY <1>6 DEF Unschedule, Del, Store, TypeOK
  <2>3. w.executions <= count
    BY <1>2, <2>1 DEF Proceed
  <2>4. QED
    BY <1>1, <2>1, <2>2, <2>3, ProceedsGoing
<1>7. CASE SaveReplenishment(r) \/ Destroy(r)
  BY <1>7, FinishesGoing DEF SaveReplenishment, Destroy
<1>8. QED
  BY <1>3, <1>4, <1>5, <1>6, <1>7 DEF Continue

LEMMA HandlersStep ==
    IInv /\ [Next]_vars => /\ pc' \in [Requests -> Steps] /\ arg' \in [Requests -> Arg]
                           /\ HandlersRemember'
<1> SUFFICES ASSUME IInv, [Next]_vars
             PROVE  /\ pc' \in [Requests -> Steps] /\ arg' \in [Requests -> Arg]
                    /\ HandlersRemember'
  OBVIOUS
<1> TypeOK /\ HandlersRemember
  BY DEF IInv
<1>1. UNCHANGED <<pc, arg>> \/ \E r \in Requests : Goes(r)
  <2>1. ASSUME NEW r \in Requests, Arrive(r) \/ Continue(r) \/ Abort(r) PROVE Goes(r)
    BY <2>1, ArriveStep, ContinueStep, FinishesGoing DEF Abort
  <2>2. ASSUME NEW j \in Jobs, Work(j) PROVE UNCHANGED <<pc, arg>>
    BY <2>2 DEF Work, TakeJob, RetryJob, Charge, Complete, FailAttempt, StallJob
  <2>3. ASSUME NEW j \in Jobs, Listen(j) \/ AbortListener(j) PROVE UNCHANGED <<pc, arg>>
    BY <2>3
    DEF Listen, AbortListener, CompletedRead, CompletedDel, CompletedNext, CompletedStore,
        CompletedSave, FailedRead, FailedDel, FailedSave, Heard
  <2>4. QED
    BY <2>1, <2>2, <2>3 DEF Next, vars, StartDatePasses
<1>2. ASSUME NEW s \in Requests, pc'[s] # "idle"
      PROVE  /\ arg'[s].of \in Replenishments
             /\ arg'[s].new.executions <= payments[arg'[s].of]
  BY <1>1, <1>2 DEF Goes, HandlersRemember, TypeOK
<1>3. pc' \in [Requests -> Steps] /\ arg' \in [Requests -> Arg]
  BY <1>1 DEF Goes, TypeOK
<1>4. ASSUME NEW s \in Requests, pc'[s] # "idle"
      PROVE  arg'[s].new.executions <= payments'[arg'[s].of]
  <2> DEFINE n == arg'[s].of
  <2>1. n \in Replenishments /\ arg'[s].new.executions <= payments[n]
    BY <1>2, <1>4
  <2>2. payments'[n] >= payments[n] /\ payments[n] \in Nat /\ payments'[n] \in Nat
    BY <2>1, RowsStep DEF RowsKept, TypeOK
  <2>3. arg'[s].new.executions \in Nat
    BY <1>3, Records
  <2>4. QED
    BY <2>1, <2>2, <2>3
<1>5. QED
  BY <1>2, <1>3, <1>4 DEF HandlersRemember

-----------------------------------------------------------------------------
(* The orders that are committed, one at a time.                           *)
LEMMA OrdersStep ==
    IInv /\ [Next]_vars => \A n \in Replenishments : Cardinality(OrdersOf(n)') <= payments'[n]
<1> SUFFICES ASSUME IInv, [Next]_vars, NEW n \in Replenishments
             PROVE  Cardinality(OrdersOf(n)') <= payments'[n]
  OBVIOUS
<1> TypeOK /\ JobsSound /\ PaymentsCovered /\ ListenersRemember
  BY DEF IInv
<1>1. /\ IsFiniteSet(OrdersOf(n)) /\ Cardinality(OrdersOf(n)) \in Nat
      /\ Cardinality(OrdersOf(n)) <= payments[n]
  BY JobsAssumption, FS_Subset, FS_CardinalityType DEF OrdersOf, JobsOf, PaymentsCovered
<1>2. payments'[n] >= payments[n] /\ payments[n] \in Nat /\ payments'[n] \in Nat
  BY RowsStep DEF RowsKept, TypeOK
<1>3. ASSUME NEW k \in Jobs, ordered'[k] = ordered[k]
      PROVE  k \in OrdersOf(n)' <=> k \in OrdersOf(n)
  <2>1. ordered[k] => job[k].state = "completed"
    BY DEF JobsSound, JobSound
  <2>2. ordered[k] => job'[k].of = job[k].of
    BY <2>1, JobStep
    DEF JobsKept, Rests, Replaced, Worked, Listened, Listen, AbortListener, CompletedRead, CompletedDel,
        CompletedNext, CompletedStore, CompletedSave, FailedRead, FailedDel, FailedSave, Heard, queue
  <2>3. QED
    BY <1>3, <2>2 DEF OrdersOf, JobsOf
<1>4. CASE ordered' = ordered
  <2>1. OrdersOf(n)' = OrdersOf(n)
    BY <1>3, <1>4 DEF OrdersOf, JobsOf
  <2>2. QED
    BY <1>1, <1>2, <2>1
<1>5. ASSUME NEW j \in Jobs, CompletedSave(j) PROVE Cardinality(OrdersOf(n)') <= payments'[n]
  <2>1. /\ job' = job /\ ordered' = [ordered EXCEPT ![j] = TRUE]
        /\ event[j].step = "save" /\ event[j].new.paid
    BY <1>5 DEF CompletedSave, Heard, queue, ListenersRemember, Completing
  <2>2. CASE job[j].of # n
    <3>1. OrdersOf(n)' = OrdersOf(n)
      BY <2>1, <2>2 DEF OrdersOf, JobsOf, TypeOK
    <3>2. QED
      BY <1>1, <1>2, <3>1
  <2>3. CASE job[j].of = n
    <3>1. OrdersOf(n)' = OrdersOf(n) \cup {j}
      BY <2>1, <2>3 DEF OrdersOf, JobsOf, TypeOK
    <3>2. j \notin OrdersOf(n)
      BY <2>1 DEF OrdersOf, JobsSound, JobSound, Completing
    <3>3. Cardinality(OrdersOf(n)') = Cardinality(OrdersOf(n)) + 1
      BY <1>1, <3>1, <3>2, FS_AddElement
    <3>4. payments'[n] = payments[n] + 1
      BY <1>5, <2>1, <2>3 DEF CompletedSave, Save, TypeOK
    <3>5. QED
      BY <1>1, <1>2, <3>3, <3>4
  <2>4. QED
    BY <2>2, <2>3
<1>6. ordered' = ordered \/ \E j \in Jobs : CompletedSave(j)
  <2>1. ASSUME NEW r \in Requests, Arrive(r) \/ Continue(r) \/ Abort(r) PROVE ordered' = ordered
    BY <2>1
    DEF Arrive, CreateReplenishment, UpdateReplenishment, CancelReplenishment, ResumeReplenishment,
        RemoveReplenishment, ReadReplenishment, Continue, Count, Load, Upsert, Unschedule, Del, Store,
        SaveReplenishment, Destroy, Abort, money
  <2>2. ASSUME NEW j \in Jobs, Work(j) PROVE ordered' = ordered
    BY <2>2 DEF Work, TakeJob, RetryJob, Charge, Complete, FailAttempt, StallJob, money
  <2>3. ASSUME NEW j \in Jobs, Listen(j) \/ AbortListener(j) PROVE ordered' = ordered \/ CompletedSave(j)
    BY <2>3
    DEF Listen, AbortListener, CompletedRead, CompletedDel, CompletedNext, CompletedStore,
        FailedRead, FailedDel, FailedSave
  <2>4. QED
    BY <2>1, <2>2, <2>3 DEF Next, vars, money, StartDatePasses
<1>7. QED
  BY <1>4, <1>5, <1>6

LEMMA TypeStep == IInv /\ [Next]_vars => TypeOK'
<1> SUFFICES ASSUME IInv, [Next]_vars PROVE TypeOK'
  OBVIOUS
<1> TypeOK /\ HandlersRemember
  BY DEF IInv
<1>1. orderData' \subseteq SUBSET Jobs
  <2>1. ASSUME NEW r \in Requests, Continue(r) PROVE orderData' \subseteq SUBSET Jobs
    <3>1. arg[r].new.next \in SUBSET Jobs
      BY Records DEF TypeOK
    <3>2. QED
      BY <2>1, <3>1
      DEF Continue, Count, Load, Upsert, Unschedule, Del, Store, SaveReplenishment, Destroy, TypeOK
  <2>2. ASSUME NEW j \in Jobs, Listen(j) \/ AbortListener(j) PROVE orderData' \subseteq SUBSET Jobs
    <3>1. event[j].new.next \in SUBSET Jobs
      BY Records DEF TypeOK
    <3>2. QED
      BY <2>2, <3>1
      DEF Listen, AbortListener, CompletedRead, CompletedDel, CompletedNext, CompletedStore,
          CompletedSave, FailedRead, FailedDel, FailedSave, TypeOK
  <2>3. ASSUME NEW r \in Requests, Arrive(r) \/ Abort(r) PROVE orderData' = orderData
    BY <2>3
    DEF Arrive, CreateReplenishment, UpdateReplenishment, CancelReplenishment, ResumeReplenishment,
        RemoveReplenishment, ReadReplenishment, Abort
  <2>4. ASSUME NEW j \in Jobs, Work(j) PROVE orderData' = orderData
    BY <2>4 DEF Work, TakeJob, RetryJob, Charge, Complete, FailAttempt, StallJob
  <2>5. QED
    BY <2>1, <2>2, <2>3, <2>4 DEF Next, vars, StartDatePasses, TypeOK
<1>2. begun' \in [Replenishments -> BOOLEAN] /\ scheduler' \in [Replenishments -> SchedulerState]
  <2> DEFINE Goal == begun' \in [Replenishments -> BOOLEAN]
                     /\ scheduler' \in [Replenishments -> SchedulerState]
  <2>1. CASE UNCHANGED <<begun, scheduler>>
    BY <2>1 DEF TypeOK
  <2>2. ASSUME NEW r \in Requests, Upsert(r) PROVE Goal
    <3> DEFINE n == arg[r].of
               limit == arg[r].limit
               s == [on |-> TRUE, left |-> limit - 1]
    <3>1. n \in Replenishments
      BY <2>2 DEF Upsert, HandlersRemember
    <3>2. limit \in Int
      BY Records DEF TypeOK
    <3>3. CASE UNCHANGED queue
      BY <2>1, <3>3 DEF queue
    <3>4. ASSUME limit > 0, scheduler' = [scheduler EXCEPT ![n] = s],
                 NEW passed \in BOOLEAN, begun' = [begun EXCEPT ![n] = passed]
          PROVE  Goal
      <4>1. s \in SchedulerState
        BY <3>2, <3>4 DEF SchedulerState
      <4> HIDE DEF s, n
      <4>2. QED
        BY <3>4, <4>1 DEF TypeOK
    <3>5. UNCHANGED queue \/ (limit > 0 /\ scheduler' = [scheduler EXCEPT ![n] = s]
                              /\ \E passed \in BOOLEAN : begun' = [begun EXCEPT ![n] = passed])
      <4>1. begun[n] \in BOOLEAN
        BY <3>1 DEF TypeOK
      <4>2. QED
        BY <2>2, <4>1 DEF Upsert, UpsertJobScheduler
    <3>6. QED
      BY <3>3, <3>4, <3>5
  <2>3. ASSUME NEW r \in Requests, Unschedule(r) PROVE Goal
    BY <2>3, Records DEF Unschedule, RemoveJobScheduler, TypeOK
  <2>4. ASSUME NEW j \in Jobs, TakeJob(j) PROVE Goal
    <3> DEFINE n == job[j].of
               s == [scheduler[n] EXCEPT !.left = scheduler[n].left - 1]
    <3>1. CASE UNCHANGED scheduler
      BY <2>4, <3>1 DEF TakeJob, TypeOK
    <3>2. CASE scheduler[n].left > 0 /\ scheduler' = [scheduler EXCEPT ![n] = s]
      <4>1. n \in Replenishments
        BY <2>4, OwnedJob DEF TakeJob, IInv
      <4>2. scheduler[n] \in SchedulerState
        BY <4>1 DEF TypeOK
      <4>3. s \in SchedulerState
        BY <3>2, <4>2 DEF SchedulerState
      <4> HIDE DEF s, n
      <4>4. scheduler' \in [Replenishments -> SchedulerState]
        BY <3>2, <4>3 DEF TypeOK
      <4>5. QED
        BY <2>4, <4>4 DEF TakeJob, TypeOK
    <3>3. QED
      BY <2>4, <3>1, <3>2 DEF TakeJob
  <2>5. ASSUME NEW n \in Replenishments, StartDatePasses(n) PROVE Goal
    BY <2>5 DEF StartDatePasses, TypeOK
  <2>6. ASSUME NEW r \in Requests, Arrive(r) PROVE Goal
    BY <2>6, StartsAssumption
    DEF Arrive, CreateReplenishment, UpdateReplenishment, CancelReplenishment, ResumeReplenishment,
        RemoveReplenishment, ReadReplenishment, queue, TypeOK
  <2>7. ASSUME NEW r \in Requests, Continue(r) \/ Abort(r) PROVE Goal
    BY <2>1, <2>2, <2>3, <2>7
    DEF Continue, Count, Load, Del, Store, SaveReplenishment, Destroy, Abort, queue
  <2>8. ASSUME NEW j \in Jobs, Work(j) PROVE Goal
    BY <2>1, <2>4, <2>8 DEF Work, RetryJob, Charge, Complete, FailAttempt, StallJob
  <2>9. ASSUME NEW j \in Jobs, Listen(j) \/ AbortListener(j) PROVE Goal
    BY <2>1, <2>9
    DEF Listen, AbortListener, CompletedRead, CompletedDel, CompletedNext, CompletedStore,
        CompletedSave, FailedRead, FailedDel, FailedSave, Heard, queue
  <2>10. QED
    BY <2>1, <2>5, <2>6, <2>7, <2>8, <2>9 DEF Next, vars, queue
<1>3. QED
  BY <1>1, <1>2, RowsStep, JobStep, ListenersStep, HandlersStep DEF JobsKept, TypeOK

-----------------------------------------------------------------------------
(* No new job comes where there is neither a scheduler nor a delayed job.  *)
LEMMA CalmKept ==
    ASSUME IInv, [Next]_vars, NEW n \in Replenishments, Calm(n),
           \A r \in Requests : ~(Upsert(r) /\ arg[r].of = n)
    PROVE  Calm(n)'
<1> TypeOK /\ JobsSound /\ HandlersRemember
  BY DEF IInv
<1> USE DEF TypeOK
<1>1. ASSUME UNCHANGED <<scheduler, job>> PROVE Calm(n)'
  BY <1>1 DEF Calm, IsDelayed
<1>2. ASSUME NEW j \in Jobs, TakeJob(j) PROVE Calm(n)'
  <2> DEFINE m == job[j].of
  <2>1. m # n /\ m \in Replenishments
    BY <1>2, OwnedJob DEF TakeJob, Calm, IsDelayed
  <2>2. scheduler'[n] = scheduler[n]
    BY <1>2, <2>1 DEF TakeJob
  <2>3. job'[j].of = m
    <3> DEFINE b == job[j]
               c == [b EXCEPT !.state = "running"]
    <3>1. b \in JobState
      OBVIOUS
    <3>2. c.of = b.of
      BY <3>1, JobUpdates DEF Taken
    <3>3. job'[j] = c
      BY <1>2, TakeStep
    <3> HIDE DEF c
    <3>4. QED
      BY <3>2, <3>3
  <2>4. \A k \in Jobs \ {j} : job'[k] = job[k] \/ job'[k].of = m
    BY <1>2, <2>1, TakeStep, NewJobs, ZenonT(60)
  <2>5. QED
    BY <2>1, <2>2, <2>3, <2>4 DEF Calm, IsDelayed
<1>3. ASSUME NEW j \in Jobs, RetryJob(j) \/ Charge(j) \/ Complete(j) \/ FailAttempt(j) \/ StallJob(j)
      PROVE  Calm(n)'
  <2>1. job[j] \in JobState /\ UNCHANGED scheduler
    BY <1>3 DEF RetryJob, Charge, Complete, FailAttempt, StallJob
  <2> DEFINE b == job[j]
  <2>2. PICK c : job' = [job EXCEPT ![j] = c] /\ c.state # "delayed"
    <3>1. CASE FailAttempt(j)
      <4> DEFINE attempts == b.attempts + 1
                 state == IF attempts < Attempts THEN "backoff" ELSE "failed"
                 c == [b EXCEPT !.attempts = attempts, !.state = state]
      <4>1. job' = [job EXCEPT ![j] = c] /\ state # "delayed"
        BY <3>1 DEF FailAttempt
      <4> HIDE DEF attempts, state, b
      <4>2. c.state = state
        BY <2>1 DEF JobState, b
      <4>3. QED
        BY <4>1, <4>2
    <3>2. CASE RetryJob(j) \/ Charge(j) \/ Complete(j)
      <4>1. PICK state \in {"running", "charged", "completed"} : job' = [job EXCEPT ![j].state = state]
        BY <3>2 DEF RetryJob, Charge, Complete
      <4> DEFINE c == [b EXCEPT !.state = state]
      <4>2. job' = [job EXCEPT ![j] = c]
        BY <4>1
      <4> HIDE DEF b
      <4>3. c.state = state
        BY <2>1 DEF JobState, b
      <4>4. QED
        BY <4>2, <4>3
    <3>3. CASE StallJob(j)
      <4> DEFINE stalls == b.stalls + 1
                 state == IF stalls = 1 THEN "running" ELSE "failed"
                 c == [b EXCEPT !.stalls = stalls, !.state = state]
      <4>1. job' = [job EXCEPT ![j] = c] /\ state # "delayed"
        BY <3>3 DEF StallJob
      <4> HIDE DEF stalls, state, b
      <4>2. c.state = state
        BY <2>1 DEF JobState, b
      <4>3. QED
        BY <4>1, <4>2
    <3>4. QED
      BY <1>3, <3>1, <3>2, <3>3
  <2>3. QED
    BY <2>1, <2>2 DEF Calm, IsDelayed
<1>4. ASSUME NEW m \in Replenishments PROVE \A k \in Jobs : Withdrawn(m)[k] = job[k]
                                                            \/ Withdrawn(m)[k] = NoJob
  BY WithdrawnType
<1>5. ASSUME NEW r \in Requests, Upsert(r) PROVE Calm(n)'
  <2> DEFINE m == arg[r].of
  <2>1. m \in Replenishments /\ m # n
    BY <1>5 DEF Upsert, HandlersRemember
  <2>2. CASE UNCHANGED queue
    BY <1>1, <2>2 DEF queue
  <2>3. ASSUME NEW j \in Jobs, UpsertJobScheduler(m, arg[r].limit, j) PROVE Calm(n)'
    <3>1. scheduler'[n] = scheduler[n]
      BY <2>1, <2>3 DEF UpsertJobScheduler
    <3>2. \A k \in Jobs : job'[k] = job[k] \/ job'[k] = NoJob \/ job'[k] = NewJob(m)
      BY <1>4, <2>1, <2>3, WithdrawnType DEF UpsertJobScheduler
    <3>3. QED
      BY <2>1, <3>1, <3>2, Records, NewJobs, SMTT(60) DEF Calm, IsDelayed
  <2>4. QED
    BY <1>5, <2>2, <2>3 DEF Upsert
<1>6. ASSUME NEW r \in Requests, Unschedule(r) PROVE Calm(n)'
  <2> DEFINE m == arg[r].of
  <2>1. m \in Replenishments
    BY <1>6 DEF Unschedule, Proceed, HandlersRemember
  <2>2. scheduler'[n] = scheduler[n] \/ scheduler'[n] = Off
    BY <1>6 DEF Unschedule, RemoveJobScheduler
  <2>3. \A k \in Jobs : job'[k] = job[k] \/ job'[k] = NoJob
    BY <1>4, <1>6, <2>1 DEF Unschedule, RemoveJobScheduler
  <2>4. QED
    BY <2>2, <2>3, Records DEF Calm, IsDelayed, Off
<1>7. ASSUME NEW r \in Requests, Arrive(r) \/ Continue(r) \/ Abort(r) PROVE Calm(n)'
  <2>1. CASE Arrive(r)
    BY <1>1, <2>1
    DEF Arrive, CreateReplenishment, UpdateReplenishment, CancelReplenishment, ResumeReplenishment,
        RemoveReplenishment, ReadReplenishment, queue
  <2>2. CASE Count(r) \/ Load(r) \/ Del(r) \/ Store(r) \/ SaveReplenishment(r) \/ Destroy(r) \/ Abort(r)
    BY <1>1, <2>2 DEF Count, Load, Del, Store, SaveReplenishment, Destroy, Abort, queue
  <2>3. QED
    BY <1>5, <1>6, <1>7, <2>1, <2>2 DEF Continue
<1>8. ASSUME NEW j \in Jobs, Listen(j) \/ AbortListener(j) PROVE Calm(n)'
  BY <1>1, <1>8
  DEF Listen, AbortListener, CompletedRead, CompletedDel, CompletedNext, CompletedStore,
      CompletedSave, FailedRead, FailedDel, FailedSave, Heard, queue
<1>9. CASE UNCHANGED vars \/ \E m \in Replenishments : StartDatePasses(m)
  BY <1>1, <1>9 DEF vars, queue, StartDatePasses
<1>10. QED
  BY <1>2, <1>3, <1>7, <1>8, <1>9 DEF Next, Work

LEMMA UnscheduleCalms ==
    ASSUME IInv, NEW r \in Requests, Unschedule(r), NEW n, n = arg[r].of
    PROVE  Calm(n)'
<1>1. TypeOK /\ n \in Replenishments
  BY DEF IInv, Unschedule, Proceed, HandlersRemember
<1>2. scheduler'[n] = Off /\ job' = Withdrawn(n)
  BY <1>1 DEF Unschedule, RemoveJobScheduler, TypeOK
<1>3. \A k \in Jobs : ~(Withdrawn(n)[k].of = n /\ Withdrawn(n)[k].state = "delayed")
  BY Records DEF Withdrawn, IsDelayed
<1>4. QED
  BY <1>2, <1>3 DEF Calm, IsDelayed, Off

(* A listener stops no replenishment: not by what it knows ...             *)
StopsNothing(e) ==
    e.step \notin {"none", "read", "failed.read"} /\ e.new.status \in Stopped =>
        e.old.status = e.new.status

LEMMA TellsNothing ==
    ASSUME IInv, ListenersStopNothing, NEW j \in Jobs,
           Listen(j) \/ Complete(j) \/ FailAttempt(j) \/ StallJob(j)
    PROVE  \E e : event' = [event EXCEPT ![j] = e] /\ StopsNothing(e)
<1> DEFINE d == event[j]
           w == row[job[j].of]
           Goal == \E e : event' = [event EXCEPT ![j] = e] /\ StopsNothing(e)
<1>1. d \in Event /\ StopsNothing(d)
  BY DEF IInv, TypeOK, ListenersStopNothing, StopsNothing
<1>2. ASSUME d.step # "none" PROVE w \in Row
  BY <1>2, OwnedJob DEF IInv, TypeOK, JobsSound, JobSound, Taken
<1>3. ASSUME event' = [event EXCEPT ![j] = NoEvent] PROVE Goal
  BY <1>3, Records DEF StopsNothing
<1>4. ASSUME NEW s \in Listening, event' = [event EXCEPT ![j] = [d EXCEPT !.step = s]],
             s \in {"read", "failed.read"} \/ d.step \notin {"read", "failed.read", "none"} \/ s = d.step
      PROVE  Goal
  <2> DEFINE e == [d EXCEPT !.step = s]
  <2> HIDE DEF d
  <2>1. e.step = s /\ e.old = d.old /\ e.new = d.new
    BY <1>1 DEF Event
  <2>2. event' = [event EXCEPT ![j] = e]
    BY <1>4
  <2> HIDE DEF e
  <2>3. StopsNothing(e)
    BY <1>1, <1>4, <2>1 DEF StopsNothing
  <2>4. QED
    BY <2>2, <2>3
<1>5. CASE Complete(j)
  BY <1>4, <1>5 DEF Complete, Listening
<1>6. CASE FailAttempt(j)
  <2> DEFINE s == IF job[j].attempts + 1 = 1 THEN "failed.read" ELSE d.step
  <2>1. s \in Listening /\ s \in {"failed.read", d.step}
    BY <1>1, Records DEF Listening
  <2>2. event' = [event EXCEPT ![j] = [d EXCEPT !.step = s]]
    BY <1>6 DEF FailAttempt
  <2> HIDE DEF s
  <2>3. QED
    BY <1>4, <2>1, <2>2
<1>6a. CASE StallJob(j)
  <2> DEFINE s == IF job[j].stalls + 1 > 1 /\ job[j].attempts = 1 THEN "failed.read" ELSE d.step
  <2>1. s \in Listening /\ s \in {"failed.read", d.step}
    BY <1>1, Records DEF Listening
  <2>2. event' = [event EXCEPT ![j] = [d EXCEPT !.step = s]]
    BY <1>6a DEF StallJob
  <2> HIDE DEF s
  <2>3. QED
    BY <1>4, <2>1, <2>2
<1>7. CASE CompletedRead(j)
  <2>1. d.step = "read"
    BY <1>7 DEF CompletedRead
  <2>2. ASSUME NEW expired \in Expiries, NEW s \in {"finish", "save", "del"},
               event' = [event EXCEPT ![j] = [step |-> s, old |-> w, new |-> Executed(w, expired)]]
        PROVE  Goal
    <3> DEFINE e == [step |-> s, old |-> w, new |-> Executed(w, expired)]
    <3>1. Executed(w, expired).status \in {"finished", "active", w.status}
      <4> HIDE DEF w
      <4>1. w \in Row
        BY <1>2, <2>1 DEF w
      <4>2. QED
        BY <4>1 DEF Executed, Row
    <3>2. StopsNothing(e)
      BY <3>1 DEF StopsNothing, Stopped
    <3>3. QED
      BY <2>2, <3>2
  <2>3. \/ event' = [event EXCEPT ![j] = NoEvent]
        \/ \E expired \in Expiries, s \in {"finish", "save", "del"} :
              event' = [event EXCEPT ![j] = [step |-> s, old |-> w, new |-> Executed(w, expired)]]
    BY <1>7 DEF CompletedRead, Heard
  <2>4. QED
    BY <1>3, <2>2, <2>3
<1>8. CASE CompletedNext(j)
  <2>1. ASSUME NEW found,
               event' = [event EXCEPT ![j] = [step |-> "store", old |-> d.old,
                                              new |-> [d.new EXCEPT !.next = found]]]
        PROVE  Goal
    <3> DEFINE v == d.new
               u == [v EXCEPT !.next = found]
               e == [step |-> "store", old |-> d.old, new |-> u]
    <3>1. v \in Row /\ d.step = "next"
      BY <1>1, <1>8, Records DEF CompletedNext, Heard
    <3> HIDE DEF v
    <3>2. u.status = v.status
      BY <3>1 DEF Row
    <3> HIDE DEF u
    <3>3. StopsNothing(e)
      BY <1>1, <3>1, <3>2 DEF StopsNothing, v
    <3>4. event' = [event EXCEPT ![j] = e]
      BY <2>1 DEF u, v
    <3>5. QED
      BY <3>3, <3>4
  <2>2. \/ event' = [event EXCEPT ![j] = [d EXCEPT !.step = "save"]]
        \/ \E found : event' = [event EXCEPT ![j] = [step |-> "store", old |-> d.old,
                                                     new |-> [d.new EXCEPT !.next = found]]]
    BY <1>8 DEF CompletedNext, Heard
  <2>3. d.step = "next"
    BY <1>8 DEF CompletedNext, Heard
  <2>4. QED
    BY <1>4, <2>1, <2>2, <2>3 DEF Listening
<1>9. CASE FailedRead(j)
  <2> DEFINE v == [w EXCEPT !.status = "failed", !.next = {}]
             e == [step |-> "failed.del", old |-> w, new |-> v]
  <2>1. w \in Row
    BY <1>2, <1>9 DEF FailedRead
  <2>2. event' = [event EXCEPT ![j] = NoEvent] \/ event' = [event EXCEPT ![j] = e]
    BY <1>9 DEF FailedRead, Heard
  <2> HIDE DEF w
  <2>3. v.status = "failed"
    BY <2>1 DEF Row
  <2> HIDE DEF v
  <2>4. StopsNothing(e)
    BY <2>3 DEF StopsNothing, Stopped
  <2>5. QED
    BY <1>3, <2>2, <2>4
<1>10. CASE CompletedDel(j) \/ CompletedStore(j) \/ FailedDel(j)
  <2>1. /\ d.step \in {"finish", "del", "store", "failed.del"}
        /\ \E s \in {"save", "next", "failed.save"} : event' = [event EXCEPT ![j] = [d EXCEPT !.step = s]]
    BY <1>10 DEF CompletedDel, CompletedStore, FailedDel, Heard
  <2>2. QED
    BY <1>4, <2>1 DEF Listening
<1>11. CASE CompletedSave(j) \/ FailedSave(j)
  BY <1>3, <1>11 DEF CompletedSave, FailedSave, Heard
<1>12. QED
  BY <1>5, <1>6, <1>6a, <1>7, <1>8, <1>9, <1>10, <1>11 DEF Listen

(* ... and not by what it saves.                                           *)
LEMMA SavesNothing ==
    ASSUME IInv, ListenersStopNothing, NEW j \in Jobs, Listen(j),
           NEW n \in Replenishments, row'[n].status \in Stopped
    PROVE  row[n].status = row'[n].status
<1> DEFINE e == event[j]
           m == job[j].of
<1>1. CASE row' = row
  BY <1>1
<1>2. CASE CompletedSave(j) \/ FailedSave(j)
  <2>1. e.new.status \in Stopped => e.old.status = e.new.status
    BY <1>2 DEF ListenersStopNothing, CompletedSave, FailedSave, Heard
  <2>2. row' = [row EXCEPT ![m] = Saved(row[m], e.old, e.new)]
    BY <1>2 DEF CompletedSave, FailedSave, Save
  <2> HIDE DEF e, m
  <2>3. Saved(row[m], e.old, e.new).status \in Stopped => Saved(row[m], e.old, e.new).status = row[m].status
    BY <2>1 DEF Saved
  <2>4. QED
    BY <2>2, <2>3 DEF IInv, TypeOK
<1>3. QED
  BY <1>1, <1>2
  DEF Listen, CompletedRead, CompletedDel, CompletedNext, CompletedStore, FailedRead, FailedDel

(* A handler goes on with what it knows of the replenishment.              *)
Keeps(r) ==
    /\ arg'[r].kind = arg[r].kind /\ arg'[r].of = arg[r].of
    /\ arg'[r].old = arg[r].old /\ arg'[r].new.status = arg[r].new.status

LEMMA ArgKeeps ==
    ASSUME NEW a \in Arg, NEW next
    PROVE  LET b == [a EXCEPT !.new = [a.new EXCEPT !.next = next]] IN
           b.kind = a.kind /\ b.of = a.of /\ b.old = a.old /\ b.new.status = a.new.status
<1> DEFINE w == a.new
           v == [w EXCEPT !.next = next]
<1>1. w \in Row
  BY DEF Arg
<1> HIDE DEF w
<1>2. v.status = w.status
  BY <1>1 DEF Row
<1> HIDE DEF v
<1>3. LET b == [a EXCEPT !.new = v] IN
      b.kind = a.kind /\ b.of = a.of /\ b.old = a.old /\ b.new = v
  BY DEF Arg
<1>4. QED
  BY <1>2, <1>3 DEF v, w

LEMMA GoesOnKeeping ==
    ASSUME IInv, NEW r \in Requests, ~(pc'[r] = "idle"),
           Count(r) \/ Upsert(r) \/ Unschedule(r) \/ Del(r) \/ Store(r)
    PROVE  Keeps(r)
<1> DEFINE a == arg[r]
<1>1. a \in Arg /\ arg \in [Requests -> Arg] /\ pc \in [Requests -> Steps]
  BY DEF IInv, TypeOK
<1>2. CASE UNCHANGED arg
  BY <1>2 DEF Keeps
<1>3. ASSUME NEW x, NEW y,
             arg' = [arg EXCEPT ![r] = [a EXCEPT !.limit = x, !.new = [a.new EXCEPT !.executions = y]]]
      PROVE  Keeps(r)
  <2> DEFINE w == a.new
             e == [w EXCEPT !.executions = y]
             b == [a EXCEPT !.limit = x, !.new = e]
  <2>1. b.kind = a.kind /\ b.of = a.of /\ b.old = a.old /\ b.new.status = a.new.status
    <3> HIDE DEF a
    <3>1. w \in Row
      BY <1>1 DEF Arg
    <3> HIDE DEF w
    <3>2. e.status = w.status
      BY <3>1 DEF Row
    <3> HIDE DEF e
    <3>3. b.kind = a.kind /\ b.of = a.of /\ b.old = a.old /\ b.new = e
      BY <1>1 DEF Arg
    <3>4. QED
      BY <3>2, <3>3 DEF w
  <2>2. arg'[r] = b
    <3> HIDE DEF b
    <3>1. arg' = [arg EXCEPT ![r] = b]
      BY <1>3 DEF b
    <3>2. QED
      BY <1>1, <3>1
  <2> HIDE DEF b
  <2>3. QED
    BY <2>1, <2>2 DEF Keeps
<1>4. ASSUME NEW y, arg' = [arg EXCEPT ![r] = [a EXCEPT !.new = [a.new EXCEPT !.next = y]]]
      PROVE  Keeps(r)
  <2> DEFINE b == [a EXCEPT !.new = [a.new EXCEPT !.next = y]]
  <2>1. b.kind = a.kind /\ b.of = a.of /\ b.old = a.old /\ b.new.status = a.new.status
    BY <1>1, ArgKeeps
  <2>2. arg'[r] = b
    <3> HIDE DEF b
    <3>1. arg' = [arg EXCEPT ![r] = b]
      BY <1>4 DEF b
    <3>2. QED
      BY <1>1, <3>1
  <2> HIDE DEF b
  <2>3. QED
    BY <2>1, <2>2 DEF Keeps
<1>5. CASE Count(r)
  <2> DEFINE given == a.limit
             times == a.old.times
             count == payments[a.of]
             x == IF given # 0 THEN IF given > count THEN given - count ELSE given
                  ELSE IF times # 0 THEN times - count ELSE Forever
             y == IF given = 0 THEN a.new.executions ELSE IF given <= count THEN 0 ELSE count
  <2>1. arg' = [arg EXCEPT ![r] = [a EXCEPT !.limit = x, !.new = [a.new EXCEPT !.executions = y]]]
    BY <1>5 DEF Count
  <2> HIDE DEF x, y
  <2>2. QED
    BY <1>3, <2>1
<1>6. CASE Upsert(r)
  <2>1. ~Finish(r)
    BY <1>1 DEF Finish
  <2>2. QED
    BY <1>4, <1>6, <2>1 DEF Upsert
<1>7. QED
  BY <1>2, <1>5, <1>6 DEF Unschedule, Del, Store

(* Where each step leads to, by what the handler does.                     *)
LEMMA Goings ==
    /\ \A kind : /\ <<kind, "count">> \in Going => kind = "update"
                 /\ <<kind, "load">> \in Going => kind = "resume"
                 /\ <<kind, "destroy">> \in Going => kind = "remove"
                 /\ <<kind, "unschedule">> \in Going => kind \in {"cancel", "remove"}
                 /\ <<kind, "upsert">> \in Going => kind \in {"create", "update", "resume"}
                 /\ <<kind, "store">> \in Going => kind \in {"create", "update", "resume"}
                 /\ <<kind, "del">> \in Going => kind \in {"update", "resume", "remove"}
                 /\ <<kind, "save">> \in Going => kind \in {"create", "update", "cancel", "resume"}
    /\ \A kind, step : <<kind, step>> \in Going /\ step \notin {"save", "destroy"} =>
          <<kind, After(kind, step)>> \in Going
    /\ After("create", "insert") = "upsert" /\ After("update", "read") = "count"
    /\ After("resume", "read") = "load" /\ After("resume", "load") = "upsert"
    /\ \A kind \in {"cancel", "remove"} : After(kind, "read") = "unschedule"
    /\ \A kind \in {"create", "update", "resume"} : After(kind, "upsert") \in {"store", "del"}
    /\ After("resume", "upsert") = "del" /\ After("resume", "del") = "store"
    /\ After("resume", "store") = "save" /\ After("update", "count") = "upsert"
    /\ After("remove", "del") = "destroy"
  BY DEF Going, After

(* While the customer's handler waits, its care is not in vain.            *)
LEMMA WaitingMinds ==
    ASSUME IInv, StopInv, [Next]_vars, UNCHANGED <<pc, arg>>,
           \A n \in Replenishments : row'[n].status \in Stopped => row[n].status = row'[n].status
    PROVE  HandlersMind' /\ StoppedAreCalm'
<1>1. ASSUME NEW r \in Requests PROVE ~Upsert(r)
  BY DEF Upsert, Proceed, Finish, After, IInv, TypeOK
<1>2. ASSUME NEW n \in Replenishments, Calm(n) PROVE Calm(n)'
  BY <1>1, <1>2, CalmKept
<1>3. ASSUME NEW r \in Requests PROVE HandlerMinds(r)'
  <2>1. CASE pc[r] = "idle"
    BY <2>1 DEF HandlerMinds
  <2>2. CASE pc[r] # "idle"
    <3>1. arg[r].of \in Replenishments /\ HandlerMinds(r)
      BY <2>2 DEF IInv, HandlersRemember, StopInv, HandlersMind
    <3>2. arg'[r] = arg[r] /\ pc'[r] = pc[r]
      OBVIOUS
    <3>3. Calm(arg[r].of) => Calm(arg[r].of)'
      BY <1>2, <3>1
    <3>4. QED
      BY <2>2, <3>1, <3>2, <3>3 DEF HandlerMinds, Stopped
  <2>3. QED
    BY <2>1, <2>2
<1>4. ASSUME NEW n \in Replenishments, row'[n].status \in Stopped PROVE Calm(n)' \/ Resuming(n)'
  <2>1. Calm(n) \/ Resuming(n)
    BY <1>4 DEF StopInv, StoppedAreCalm
  <2>2. Resuming(n) => Resuming(n)'
    BY DEF Resuming
  <2>3. QED
    BY <1>2, <2>1, <2>2
<1>5. QED
  BY <1>3, <1>4 DEF HandlersMind, StoppedAreCalm

LEMMA ArrivingMinds ==
    ASSUME IInv, StopInv, NEW r \in Requests, Arrive(r), \A s \in Requests : s = r
    PROVE  HandlersMind' /\ StoppedAreCalm'
<1> TypeOK
  BY DEF IInv
<1>1. PICK n \in Replenishments :
         \/ \E times \in Times, starting \in Starts : CreateReplenishment(r, n, times, starting)
         \/ \E times \in Times \cup {0} : UpdateReplenishment(r, n, times)
         \/ CancelReplenishment(r, n) \/ ResumeReplenishment(r, n) \/ RemoveReplenishment(r, n)
  BY DEF Arrive
<1>2. /\ pc[r] = "idle" /\ UNCHANGED <<scheduler, job>>
      /\ row' = row \/ (row'[n].status \notin Stopped /\ \A m \in Replenishments \ {n} : row'[m] = row[m])
  <2>1. CASE row' = row /\ pc[r] = "idle" /\ UNCHANGED <<scheduler, job>>
    BY <2>1
  <2>2. ASSUME NEW times \in Times, NEW starting \in Starts, CreateReplenishment(r, n, times, starting)
        PROVE  /\ pc[r] = "idle" /\ UNCHANGED <<scheduler, job>>
               /\ row'[n].status \notin Stopped /\ \A m \in Replenishments \ {n} : row'[m] = row[m]
    <3> DEFINE status == IF starting THEN "scheduled" ELSE "active"
               created == [NoRow EXCEPT !.status = status, !.times = times]
    <3>1. row' = [row EXCEPT ![n] = created] /\ pc[r] = "idle" /\ UNCHANGED <<scheduler, job>>
      BY <2>2 DEF CreateReplenishment, Begin
    <3>2. created.status = status
      BY DEF NoRow
    <3>3. status \notin Stopped
      BY DEF Stopped
    <3> HIDE DEF created
    <3>4. QED
      BY <3>1, <3>2, <3>3 DEF TypeOK
  <2>3. QED
    BY <1>1, <2>1, <2>2
    DEF UpdateReplenishment, CancelReplenishment, ResumeReplenishment, RemoveReplenishment,
        ReadReplenishment, Begin, queue
<1>3. ASSUME NEW m \in Replenishments, row'[m].status \in Stopped PROVE Calm(m)'
  <2>1. row[m].status \in Stopped /\ ~Resuming(m)
    BY <1>2, <1>3 DEF Resuming
  <2>2. QED
    BY <1>2, <2>1 DEF StopInv, StoppedAreCalm, Calm, IsDelayed
<1>4. HandlerMinds(r)'
  <2> DEFINE w == row[n]
  <2>0. w \in Row
    BY DEF TypeOK
  <2>1. ASSUME NEW times \in Times, NEW starting \in Starts, CreateReplenishment(r, n, times, starting)
        PROVE  HandlerMinds(r)'
    <3> DEFINE created == [NoRow EXCEPT !.status = IF starting THEN "scheduled" ELSE "active",
                                        !.times = times]
    <3>1. /\ arg'[r].kind = "create" /\ arg'[r].of = n
          /\ arg'[r].old = created /\ arg'[r].new = created /\ pc'[r] = "upsert"
      <4> HIDE DEF created
      <4>1. Begin(r, [kind |-> "create", of |-> n, old |-> created, new |-> created,
                      limit |-> Limit(times)], "insert")
        BY <2>1 DEF CreateReplenishment, created
      <4>2. QED
        BY <4>1, Goings DEF Begin, TypeOK
    <3>2. row'[n] = created /\ row'[n].status \notin Stopped
      <4>1. row' = [row EXCEPT ![n] = created]
        BY <2>1 DEF CreateReplenishment
      <4>2. created.status \in {"scheduled", "active"}
        BY DEF NoRow
      <4> HIDE DEF created
      <4>3. QED
        BY <4>1, <4>2 DEF Stopped, TypeOK
    <3> HIDE DEF created
    <3>3. QED
      BY <3>1, <3>2 DEF HandlerMinds, Going
  <2>2. ASSUME NEW kind \in {"update", "cancel", "resume", "remove"}, NEW statuses, NEW new, NEW given,
               ReadReplenishment(r, n, kind, statuses, new, given)
        PROVE  /\ w.status \in statuses /\ row' = row
               /\ arg'[r].kind = kind /\ arg'[r].of = n /\ arg'[r].old = w /\ arg'[r].new = new
               /\ pc'[r] = After(kind, "read")
    BY <2>2 DEF ReadReplenishment, Begin, TypeOK
  <2>3. ASSUME NEW times \in Times \cup {0}, UpdateReplenishment(r, n, times) PROVE HandlerMinds(r)'
    <3> DEFINE given == IF times = 0 THEN w.times ELSE times
               new == [w EXCEPT !.times = given]
    <3>1. ReadReplenishment(r, n, "update", {"scheduled", "active"}, new, times)
      BY <2>3 DEF UpdateReplenishment
    <3> HIDE DEF w, given
    <3>2. new.status = w.status
      BY <2>0 DEF Row
    <3> HIDE DEF new
    <3>3. /\ w.status \in {"scheduled", "active"} /\ row' = row
          /\ arg'[r].kind = "update" /\ arg'[r].of = n /\ arg'[r].old = w /\ arg'[r].new = new
          /\ pc'[r] = "count"
      BY <2>2, <3>1, Goings
    <3>4. QED
      BY <3>2, <3>3 DEF HandlerMinds, Going, Stopped, w
  <2>4. CASE CancelReplenishment(r, n) \/ RemoveReplenishment(r, n)
    <3>1. /\ arg'[r].kind \in {"cancel", "remove"} /\ pc'[r] = "unschedule"
      BY <2>2, <2>4, Goings DEF CancelReplenishment, RemoveReplenishment
    <3>2. QED
      BY <3>1 DEF HandlerMinds, Going
  <2>5. CASE ResumeReplenishment(r, n)
    <3>1. /\ w.status = "canceled" /\ row' = row
          /\ arg'[r].kind = "resume" /\ arg'[r].of = n /\ arg'[r].old = w
          /\ pc'[r] = "load"
      BY <2>2, <2>5, Goings DEF ResumeReplenishment
    <3>2. QED
      BY <3>1 DEF HandlerMinds, Going
  <2>6. QED
    BY <1>1, <2>1, <2>3, <2>4, <2>5
<1>5. QED
  BY <1>3, <1>4 DEF HandlersMind, StoppedAreCalm

LEMMA ContinuingMinds ==
    ASSUME IInv, StopInv, [Next]_vars, NEW r \in Requests, Continue(r), \A s \in Requests : s = r
    PROVE  HandlersMind' /\ StoppedAreCalm'
<1> DEFINE a == arg[r]
           n == a.of
<1> TypeOK
  BY DEF IInv
<1>1. pc[r] # "idle"
  BY DEF Continue, Count, Load, Upsert, Unschedule, Del, Store, SaveReplenishment, Destroy, Proceed
<1>2. n \in Replenishments /\ HandlerMinds(r) /\ a \in Arg
  BY <1>1 DEF IInv, HandlersRemember, StopInv, HandlersMind, TypeOK
<1>3. <<a.kind, pc[r]>> \in Going
  BY <1>1, <1>2 DEF HandlerMinds
<1>4. ASSUME NEW m \in Replenishments, Calm(m), m # n \/ ~Upsert(r) PROVE Calm(m)'
  BY <1>4, CalmKept
<1>5. ASSUME NEW m \in Replenishments, row[m].status \in Stopped,
             m # n \/ pc[r] \notin {"del", "store", "save"} \/ a.kind # "resume"
      PROVE  Calm(m)
  BY <1>5 DEF StopInv, StoppedAreCalm, Resuming
<1>6. ASSUME Finish(r) PROVE HandlersMind'
  BY <1>6 DEF Finish, HandlersMind, HandlerMinds, TypeOK
<1>7. ASSUME NEW step, Proceed(r, step)
      PROVE  pc[r] = step /\ pc'[r] = After(a.kind, step)
  BY <1>7 DEF Proceed, TypeOK
<1>8. ASSUME NEW step \in {"count", "upsert", "unschedule", "del", "store"},
             Proceed(r, step), Count(r) \/ Upsert(r) \/ Unschedule(r) \/ Del(r) \/ Store(r)
      PROVE  /\ Keeps(r) /\ <<a.kind, step>> \in Going /\ <<a.kind, pc'[r]>> \in Going
             /\ row' = row /\ pc[r] = step /\ pc'[r] = After(a.kind, step)
  <2>1. pc[r] = step /\ pc'[r] = After(a.kind, step) /\ <<a.kind, step>> \in Going
    BY <1>3, <1>7, <1>8
  <2>2. pc'[r] # "idle"
    BY <2>1 DEF After
  <2>3. <<a.kind, pc'[r]>> \in Going
    BY <2>1, Goings
  <2>4. row' = row
    BY <1>8 DEF Count, Upsert, Unschedule, Del, Store
  <2>5. Keeps(r)
    BY <1>8, <2>2, GoesOnKeeping
  <2>6. QED
    BY <2>1, <2>3, <2>4, <2>5
<1>9. CASE Count(r)
  <2>1. Proceed(r, "count") /\ UNCHANGED <<scheduler, job>>
    BY <1>9 DEF Count, queue
  <2>2. /\ Keeps(r) /\ a.kind = "update" /\ pc[r] = "count" /\ pc'[r] = "upsert" /\ row' = row
    BY <1>8, <1>9, <2>1, Goings
  <2>3. HandlerMinds(r)'
    BY <1>2, <2>2 DEF HandlerMinds, Keeps, Going
  <2>4. ~Upsert(r)
    BY <2>2 DEF Upsert
  <2>5. QED
    BY <1>4, <1>5, <2>2, <2>3, <2>4 DEF HandlersMind, StoppedAreCalm
<1>10. CASE Load(r)
  <2>1. pc[r] = "load" /\ a.kind = "resume" /\ row' = row /\ ~Upsert(r)
    BY <1>3, <1>10, Goings DEF Load, Upsert
  <2>2. StoppedAreCalm'
    BY <1>4, <1>5, <2>1 DEF StoppedAreCalm
  <2>3. CASE Finish(r)
    BY <1>6, <2>2, <2>3
  <2>4. ASSUME Proceed(r, "load"),
               arg' = [arg EXCEPT ![r].limit = Limit(a.old.times),
                                  ![r].new.status = IF begun[a.of] THEN "active" ELSE "scheduled"]
        PROVE  HandlerMinds(r)'
    <3> DEFINE limit == Limit(a.old.times)
               status == IF begun[a.of] THEN "active" ELSE "scheduled"
               w == a.new
               v == [w EXCEPT !.status = status]
               b == [a EXCEPT !.limit = limit, !.new = v]
    <3>1. arg' = [arg EXCEPT ![r] = b]
      BY <2>4
    <3>2. status \in {"active", "scheduled"}
      OBVIOUS
    <3> HIDE DEF limit, status
    <3>3. b.kind = a.kind /\ b.of = n /\ b.old = a.old /\ b.new.status = status
      <4> HIDE DEF a
      <4>1. w \in Row
        BY <1>2 DEF Arg
      <4> HIDE DEF w
      <4>2. v.status = status
        BY <4>1 DEF Row
      <4> HIDE DEF v
      <4>3. QED
        BY <1>2, <4>2 DEF Arg
    <3> HIDE DEF b
    <3>4. /\ arg'[r].kind = a.kind /\ arg'[r].of = n /\ arg'[r].old = a.old
          /\ arg'[r].new.status \in {"active", "scheduled"}
      BY <3>1, <3>2, <3>3 DEF TypeOK
    <3>5. pc'[r] = "upsert"
      BY <1>7, <2>1, <2>4, Goings
    <3>6. QED
      BY <1>2, <2>1, <3>4, <3>5 DEF HandlerMinds, Going
  <2>5. QED
    BY <1>10, <2>2, <2>3, <2>4 DEF Load, HandlersMind
<1>11. CASE Upsert(r)
  <2>1. pc[r] = "upsert"
    BY <1>11 DEF Upsert
  <2>2. CASE Finish(r) /\ UNCHANGED queue
    <3>1. row' = row
      BY <1>11 DEF Upsert
    <3>2. StoppedAreCalm'
      BY <1>5, <2>1, <2>2, <3>1 DEF StoppedAreCalm, Calm, IsDelayed, queue
    <3>3. QED
      BY <1>6, <2>2, <3>2
  <2>3. CASE Proceed(r, "upsert")
    <3>1. /\ Keeps(r) /\ a.kind \in {"create", "update", "resume"} /\ <<a.kind, pc'[r]>> \in Going
          /\ pc'[r] \in {"store", "del"} /\ row' = row
      BY <1>8, <1>11, <2>3, Goings
    <3>2. HandlerMinds(r)'
      BY <1>2, <2>1, <3>1 DEF HandlerMinds, Keeps
    <3>3. ASSUME NEW m \in Replenishments, row'[m].status \in Stopped PROVE Calm(m)' \/ Resuming(m)'
      <4>1. CASE m # n
        BY <1>4, <1>5, <3>1, <3>3, <4>1
      <4>2. CASE m = n
        <5>1. a.kind = "resume"
          BY <1>2, <2>1, <3>1, <3>3, <4>2 DEF HandlerMinds
        <5>2. QED
          BY <3>1, <4>2, <5>1 DEF Resuming, Keeps
      <4>3. QED
        BY <4>1, <4>2
    <3>4. QED
      BY <3>2, <3>3 DEF HandlersMind, StoppedAreCalm
  <2>4. QED
    BY <1>11, <2>2, <2>3 DEF Upsert
<1>12. CASE Unschedule(r)
  <2>1. Proceed(r, "unschedule")
    BY <1>12 DEF Unschedule
  <2>2. /\ Keeps(r) /\ a.kind \in {"cancel", "remove"} /\ <<a.kind, pc'[r]>> \in Going
        /\ pc[r] = "unschedule" /\ row' = row
    BY <1>8, <1>12, <2>1, Goings
  <2>3. PICK m \in Replenishments : m = n
    BY <1>2
  <2>4. Calm(m)'
    BY <1>12, <2>3, UnscheduleCalms
  <2>5. arg'[r].of = m /\ ~Upsert(r)
    BY <2>2, <2>3 DEF Keeps, Upsert
  <2>6. HandlerMinds(r)'
    BY <2>2, <2>4, <2>5 DEF HandlerMinds, Keeps, Calm, IsDelayed
  <2>7. QED
    BY <1>4, <1>5, <2>2, <2>5, <2>6 DEF HandlersMind, StoppedAreCalm
<1>13. CASE Del(r) \/ Store(r)
  <2>1. PICK step \in {"del", "store"} : Proceed(r, step)
    BY <1>13 DEF Del, Store
  <2>2. /\ Keeps(r) /\ <<a.kind, step>> \in Going /\ <<a.kind, pc'[r]>> \in Going
        /\ pc[r] = step /\ pc'[r] = After(a.kind, step) /\ row' = row
    BY <1>8, <1>13, <2>1
  <2>3. UNCHANGED <<scheduler, job>>
    BY <1>13 DEF Del, Store, queue
  <2>4. \A m \in Replenishments : Calm(m)' <=> Calm(m)
    BY <2>3 DEF Calm, IsDelayed
  <2>5. arg' = arg
    BY <1>13 DEF Del, Store
  <2>6. a.kind = "remove" => step = "del"
    BY <2>2, Goings
  <2>7. a.kind \in {"create", "update", "resume", "remove"}
    BY <2>2, Goings
  <2>8. HandlerMinds(r)'
    BY <1>2, <2>2, <2>4, <2>5, <2>6, <2>7 DEF HandlerMinds
  <2>9. ASSUME NEW m \in Replenishments, row'[m].status \in Stopped PROVE Calm(m)' \/ Resuming(m)'
    <3>1. CASE m # n \/ a.kind # "resume"
      BY <1>5, <2>2, <2>4, <2>9, <3>1
    <3>2. CASE m = n /\ a.kind = "resume"
      <4>1. pc'[r] \in {"store", "save"}
        BY <2>2, <3>2, Goings
      <4>2. QED
        BY <2>5, <3>2, <4>1 DEF Resuming
    <3>3. QED
      BY <3>1, <3>2
  <2>10. QED
    BY <2>8, <2>9 DEF HandlersMind, StoppedAreCalm
<1>14. CASE SaveReplenishment(r)
  <2> DEFINE w == Saved(row[n], a.old, a.new)
  <2>1. /\ pc[r] = "save" /\ Finish(r) /\ UNCHANGED <<scheduler, job>>
        /\ row' = [row EXCEPT ![n] = w]
    BY <1>14 DEF SaveReplenishment, Save, queue
  <2>2. w.status = IF row[n].status = "removed" \/ a.new.status = a.old.status THEN row[n].status
                                                                              ELSE a.new.status
    BY DEF Saved
  <2> HIDE DEF w
  <2>3. row'[n].status = w.status /\ \A m \in Replenishments \ {n} : row'[m] = row[m]
    BY <1>2, <2>1 DEF TypeOK
  <2>4. ASSUME w.status \in Stopped PROVE Calm(n)
    <3>1. a.kind \in {"create", "update", "cancel", "resume"}
      BY <1>3, <2>1, Goings
    <3>2. CASE a.kind \in {"create", "update"}
      BY <1>1, <1>2, <2>2, <2>4, <3>2 DEF HandlerMinds
    <3>3. CASE a.kind = "cancel"
      BY <1>1, <1>2, <2>1, <3>3 DEF HandlerMinds
    <3>4. CASE a.kind = "resume"
      BY <1>1, <1>2, <2>1, <2>2, <2>4, <3>4 DEF HandlerMinds, Stopped
    <3>5. QED
      BY <3>1, <3>2, <3>3, <3>4
  <2>5. ASSUME NEW m \in Replenishments, row'[m].status \in Stopped PROVE Calm(m)'
    <3>1. Calm(m)
      BY <1>5, <2>3, <2>4, <2>5
    <3>2. QED
      BY <2>1, <3>1 DEF Calm, IsDelayed
  <2>6. QED
    BY <1>6, <2>1, <2>5 DEF StoppedAreCalm
<1>15. CASE Destroy(r)
  <2>1. /\ pc[r] = "destroy" /\ Finish(r) /\ UNCHANGED <<scheduler, job>>
        /\ \A m \in Replenishments \ {n} : row'[m] = row[m]
    BY <1>15 DEF Destroy, queue, TypeOK
  <2>2. Calm(n)
    BY <1>1, <1>2, <1>3, <2>1, Goings DEF HandlerMinds
  <2>3. ASSUME NEW m \in Replenishments, row'[m].status \in Stopped PROVE Calm(m)'
    <3>1. Calm(m)
      BY <1>5, <2>1, <2>2, <2>3
    <3>2. QED
      BY <2>1, <3>1 DEF Calm, IsDelayed
  <2>4. QED
    BY <1>6, <2>1, <2>3 DEF StoppedAreCalm
<1>16. QED
  BY <1>9, <1>10, <1>11, <1>12, <1>13, <1>14, <1>15 DEF Continue

LEMMA StopStep == OneByOne /\ IInv /\ StopInv /\ [Next]_vars => StopInv'
<1> SUFFICES ASSUME OneByOne, IInv, StopInv, [Next]_vars PROVE StopInv'
  OBVIOUS
<1>1. ASSUME NEW r \in Requests, Arrive(r) \/ Continue(r) PROVE StopInv'
  <2>1. HandlersMind' /\ StoppedAreCalm'
    BY <1>1, ArrivingMinds, ContinuingMinds DEF OneByOne
  <2>2. event' = event
    BY <1>1
    DEF Arrive, CreateReplenishment, UpdateReplenishment, CancelReplenishment, ResumeReplenishment,
        RemoveReplenishment, ReadReplenishment, Continue, Count, Load, Upsert, Unschedule, Del,
        Store, SaveReplenishment, Destroy, money
  <2>3. QED
    BY <2>1, <2>2 DEF StopInv, ListenersStopNothing
<1>2. CASE /\ UNCHANGED <<pc, arg>>
           /\ \A n \in Replenishments : row'[n].status \in Stopped => row[n].status = row'[n].status
           /\ UNCHANGED event \/ \E j \in Jobs : \E e : event' = [event EXCEPT ![j] = e] /\ StopsNothing(e)
  <2>1. HandlersMind' /\ StoppedAreCalm'
    BY <1>2, WaitingMinds
  <2>2. ListenersStopNothing'
    <3>1. ASSUME NEW j \in Jobs PROVE StopsNothing(event'[j])
      BY <1>2 DEF StopInv, ListenersStopNothing, StopsNothing, IInv, TypeOK
    <3>2. QED
      BY <3>1 DEF ListenersStopNothing, StopsNothing
  <2>3. QED
    BY <2>1, <2>2 DEF StopInv
<1>3. ASSUME NEW j \in Jobs, Listen(j) PROVE StopInv'
  <2>1. UNCHANGED <<pc, arg>>
    BY <1>3
    DEF Listen, CompletedRead, CompletedDel, CompletedNext, CompletedStore, CompletedSave,
        FailedRead, FailedDel, FailedSave, Heard
  <2>2. \A n \in Replenishments : row'[n].status \in Stopped => row[n].status = row'[n].status
    BY <1>3, SavesNothing DEF StopInv
  <2>3. \E e : event' = [event EXCEPT ![j] = e] /\ StopsNothing(e)
    BY <1>3, TellsNothing DEF StopInv
  <2>4. QED
    BY <1>2, <2>1, <2>2, <2>3
<1>4. ASSUME NEW j \in Jobs, Work(j) PROVE StopInv'
  <2>1. UNCHANGED <<row, pc, arg>>
    BY <1>4 DEF Work, TakeJob, RetryJob, Charge, Complete, FailAttempt, StallJob
  <2>2. UNCHANGED event \/ \E e : event' = [event EXCEPT ![j] = e] /\ StopsNothing(e)
    <3>1. CASE Complete(j) \/ FailAttempt(j) \/ StallJob(j)
      BY <3>1, TellsNothing DEF StopInv
    <3>2. CASE TakeJob(j) \/ RetryJob(j) \/ Charge(j)
      BY <3>2 DEF TakeJob, RetryJob, Charge, money
    <3>3. QED
      BY <1>4, <3>1, <3>2 DEF Work
  <2>3. QED
    BY <1>2, <2>1, <2>2
<1>5. CASE UNCHANGED vars \/ \E n \in Replenishments : StartDatePasses(n)
  BY <1>2, <1>5 DEF vars, money, StartDatePasses
<1>6. QED
  BY <1>1, <1>3, <1>4, <1>5 DEF Next, OneByOne, Abort, AbortListener

-----------------------------------------------------------------------------
(* The inductive invariant holds in every reachable state, for any number  *)
(* of replenishments, jobs and handlers under way, and any crashes.        *)
THEOREM Invariance == Spec => []IInv
<1>1. IInv /\ [Next]_vars => IInv'
  BY TypeStep, SoundStep, RowsStep, OrdersStep, ListenersStep, HandlersStep
  DEF IInv, RowsKept, PaymentsCovered
<1>2. QED
  BY InitInvariant, <1>1, PTL DEF Spec

(* Rows, jobs and what handlers and listeners know keep to their types;    *)
(* above all, no job is tried more often than the queue's options say.     *)
THEOREM TypeCorrect == Spec => []TypeOK
<1>1. IInv => TypeOK
  BY DEF IInv
<1>2. QED
  BY Invariance, <1>1, PTL

(* No order of a replenishment is committed that was not charged for.      *)
THEOREM OrdersPaid == Spec => []OrdersArePaid
<1>1. IInv => OrdersArePaid
  BY DEF IInv, JobsSound, JobSound, OrdersArePaid
<1>2. QED
  BY Invariance, <1>1, PTL

(* replenishment_payments has a row for every order of a replenishment and *)
(* for every execution that its row counts, however stale what was saved.  *)
THEOREM PaymentsCover == Spec => []PaymentsCovered
<1>1. IInv => PaymentsCovered
  BY DEF IInv
<1>2. QED
  BY Invariance, <1>1, PTL

(* However often its attempts fail or stall after the charge, a job makes  *)
(* no more charges than these, and one more than Attempts in its life.     *)
THEOREM ChargesBounded == Spec => []ChargedPerAttempt
<1>1. ASSUME IInv, NEW j \in Jobs
      PROVE  /\ charges[j] <= job[j].attempts + job[j].stalls
                                + IF job[j].state \in {"charged", "completed"} THEN 1 ELSE 0
             /\ charges[j] <= Attempts + 1
  <2>1. /\ JobSound(j) /\ Attempts \in Nat
        /\ charges[j] \in Nat /\ job[j].attempts \in Nat /\ job[j].stalls \in Nat
    BY <1>1, Records, AttemptsAssumption DEF IInv, JobsSound, TypeOK
  <2>2. CASE job[j].state \in {"charged", "completed"}
    BY <2>1, <2>2 DEF JobSound
  <2>3. CASE job[j].state \notin {"charged", "completed"}
    BY <2>1, <2>3 DEF JobSound
  <2>4. QED
    BY <2>2, <2>3
<1>2. IInv => ChargedPerAttempt
  BY <1>1 DEF ChargedPerAttempt
<1>3. QED
  BY Invariance, <1>2, PTL

(* One handler at a time and nothing failing, a replenishment that is      *)
(* canceled or removed has no job to come, whatever listeners save.        *)
THEOREM StopsStay == OneByOne => (Spec => []StoppedStays)
<1>1. StopInv => StoppedStays
  BY DEF StopInv, StoppedAreCalm, StoppedStays, AtRest, Calm, Resuming, Stopped
<1>2. SUFFICES ASSUME OneByOne PROVE Spec => []StoppedStays
  OBVIOUS
<1>3. Init => StopInv
  BY Records
  DEF Init, StopInv, ListenersStopNothing, HandlersMind, HandlerMinds, StoppedAreCalm, Stopped, NoRow
<1>4. IInv /\ StopInv /\ [Next]_vars => StopInv'
  BY <1>2, StopStep
<1>5. QED
  BY <1>1, <1>3, <1>4, Invariance, PTL DEF Spec

=============================================================================
