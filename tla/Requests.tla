------------------------------ MODULE Requests ------------------------------
(***************************************************************************)
(* What the controllers of Express share: a handler runs from one awaited  *)
(* call to the next, answers a status, and, when an administrator called   *)
(* it, logs the operation after it has answered.  If that fails, the catch *)
(* clause answers a second time, which throws, and nobody catches it: the  *)
(* process dies.  MySQL, MongoDB and Redis keep what they have; the other  *)
(* handlers never end.                                                     *)
(*                                                                         *)
(* pc[r] is the call that the handler in slot r makes next.                *)
(***************************************************************************)
EXTENDS Integers, FiniteSets

CONSTANTS
    Requests,  \* slots of handlers under way
    Deaths,    \* bound: how often the process dies
    None       \* no value

ASSUME RequestsAssumption == IsFiniteSet(Requests) /\ Deaths \in Nat

VARIABLES
    pc, arg,
    answer,    \* the status a handler has answered; 0: none yet
    wrote,     \* history: handlers that have changed something
    alone,     \* history: no two handlers have overlapped
    deaths     \* how often the process has died

requestVars == <<pc, arg, answer, wrote, deaths>>

Created == 201
Found == 200
Deleted == 204
BadRequest == 400
NotFound == 404
ServerError == 500

Successes == {Created, Found, Deleted}
Refusals == {BadRequest, NotFound}
Statuses == Successes \cup Refusals \cup {ServerError}

RequestsOK(steps, args) ==
    /\ pc \in [Requests -> steps \cup {"idle", "log", "doomed", "answered"}]
    /\ \A r \in Requests : IF pc[r] = "idle" THEN arg[r] = None ELSE arg[r] \in args
    /\ answer \in [Requests -> Statuses \cup {0}]
    /\ wrote \in SUBSET Requests
    /\ alone \in BOOLEAN
    /\ deaths \in 0..Deaths

RequestsInit ==
    /\ pc = [r \in Requests |-> "idle"]
    /\ arg = [r \in Requests |-> None]
    /\ answer = [r \in Requests |-> 0]
    /\ wrote = {}
    /\ alone = TRUE
    /\ deaths = 0

-----------------------------------------------------------------------------
Begin(r, a, step) ==
    /\ pc[r] = "idle"
    /\ pc' = [pc EXCEPT ![r] = step]
    /\ arg' = [arg EXCEPT ![r] = a]
    /\ UNCHANGED <<answer, wrote, deaths>>

At(r, step) == pc[r] = step

(* On to the next call, with what the handler knows by now.                *)
Learn(r, a, step) ==
    /\ pc' = [pc EXCEPT ![r] = step]
    /\ arg' = [arg EXCEPT ![r] = a]
    /\ UNCHANGED <<answer, wrote, deaths>>

Goto(r, step) == Learn(r, arg[r], step)

(* On to the next call, after one that wrote.                              *)
WriteLearn(r, a, step) ==
    /\ pc' = [pc EXCEPT ![r] = step]
    /\ arg' = [arg EXCEPT ![r] = a]
    /\ wrote' = wrote \cup {r}
    /\ UNCHANGED <<answer, deaths>>

WriteGoto(r, step) == WriteLearn(r, arg[r], step)

(* The handler answers; an administrator's operation is then logged.       *)
Respond(r, status, step) ==
    /\ answer' = [answer EXCEPT ![r] = status]
    /\ pc' = [pc EXCEPT ![r] = step]
    /\ UNCHANGED <<arg, deaths>>

Answer(r, status) == Respond(r, status, "answered") /\ UNCHANGED wrote

(* The answer holds what the handler has read.                             *)
AnswerWith(r, a, status) ==
    /\ pc' = [pc EXCEPT ![r] = "answered"]
    /\ arg' = [arg EXCEPT ![r] = a]
    /\ answer' = [answer EXCEPT ![r] = status]
    /\ UNCHANGED <<wrote, deaths>>

WriteAnswer(r, status) == Respond(r, status, "answered") /\ wrote' = wrote \cup {r}
WriteAnswerLog(r, status) == Respond(r, status, "log") /\ wrote' = wrote \cup {r}
AnswerLog(r, status) == Respond(r, status, "log") /\ UNCHANGED wrote

Finish(r) ==
    /\ pc' = [pc EXCEPT ![r] = "idle"]
    /\ arg' = [arg EXCEPT ![r] = None]
    /\ answer' = [answer EXCEPT ![r] = 0]
    /\ wrote' = wrote \ {r}
    /\ UNCHANGED deaths

Die ==
    /\ deaths' = IF deaths < Deaths THEN deaths + 1 ELSE deaths
    /\ pc' = [r \in Requests |-> "idle"]
    /\ arg' = [r \in Requests |-> None]
    /\ answer' = [r \in Requests |-> 0]
    /\ wrote' = {}

Answered(r) == At(r, "answered") /\ Finish(r)

LogOperation(r) == At(r, "log") /\ Finish(r)

(* logOperation throws when the administrator is gone, when the target is  *)
(* not one of its list, or when the insert fails; and a handler may be     *)
(* doomed to answer twice.                                                 *)
AnswerTwice(r) ==
    /\ \/ At(r, "log") /\ deaths < Deaths
       \/ At(r, "doomed")
    /\ Die

Busy == {r \in Requests : pc[r] # "idle"}

=============================================================================
