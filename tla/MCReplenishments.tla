-------------------------- MODULE MCReplenishments --------------------------
(* Instances of Replenishments for TLC.                                    *)
EXTENDS ReplenishmentProperties, TLC

CONSTANTS n1, r1, r2, j1, j2, j3

OneReplenishment == {n1}
OneHandler == {r1}
TwoHandlers == {r1, r2}
TwoJobs == {j1, j2}
ThreeJobs == {j1, j2, j3}
Two == {2}
Now == {FALSE}
NowOrLater == BOOLEAN
NoExpiry == {FALSE}
NearExpiry == BOOLEAN
AllKinds == {"create", "update", "cancel", "resume", "remove"}
CancelAndResume == {"create", "cancel", "resume"}

(* Bounds: when the process dies amid a job, the job is the only one that  *)
(* has been taken.                                                         *)
NoStalls == \A j \in Jobs : job[j].stalls = 0
OneIsTaken == Cardinality({j \in Jobs : job[j].state \in Taken}) <= 1

NoStallsOrOneTaken == NoStalls \/ OneIsTaken

Symmetry == Permutations(Requests) \cup Permutations(Jobs)

=============================================================================
