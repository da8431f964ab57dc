------------------------------- MODULE MCChat -------------------------------
(* Instances of SupportChat for TLC.  Groups and support sessions share    *)
(* the connections and nothing else: in a behaviour of SceneSpec only one  *)
(* of the two goes on beside them.                                         *)
EXTENDS ChatProperties, TLC

CONSTANTS c1, c2, a1, r1, r2, g1, m1, m2, j1, j2

TwoCustomers == {c1, c2}
OneAgent == {a1}
Everybody == {c1, c2, a1}
TwoHandlers == {r1, r2}
OneGroup == {g1}
TwoRooms == {m1, m2}
TwoJobs == {j1, j2}

VARIABLE scene

SceneInit == Init /\ scene \in {"groups", "support"}

Made(things, made(_)) == Cardinality({x \in things : made(x)})
RoomsMade == Made(Rooms, LAMBDA m : room[m] # NoRoom)
JobsMade == Made(Jobs, LAMBDA j : job[j] # "none")

(* Bounds: c2 comes last to support sessions that need one job and one     *)
(* ticket, where nothing overlaps and nobody leaves or dies, and is heard  *)
(* of nowhere else; one user connects twice, among groups.  Once handlers  *)
(* have overlapped, or the process has died, there are one chatroom and    *)
(* one job, and nobody connects twice before or after; once it has died,   *)
(* handlers come one at a time.                                            *)
C2Bounded ==
    /\ \A g \in Groups : <<c2, g>> \notin memberOf \cup gone
    /\ IF opened[c2] > 0
       THEN /\ scene = "support" /\ alone /\ deaths = 0
            /\ \A u \in Users \ {c2} : Connected(u)
            /\ JobsMade <= 1 /\ Len(tickets) <= 1
       ELSE \A r \in Requests : arg[r].peer # c2

Bounded ==
    /\ C2Bounded
    /\ Cardinality({u \in Users : opened[u] > 1}) <= IF scene = "groups" THEN 1 ELSE 0
    /\ ~alone \/ deaths > 0 =>
        /\ RoomsMade <= 1 /\ JobsMade <= 1
        /\ \A u \in Users : opened[u] <= 1
    /\ deaths > 0 => Cardinality(Busy) <= 1

SceneNext ==
    /\ UNCHANGED scene
    /\ Next /\ Bounded'
    /\ scene = "groups" => UNCHANGED supportVars
    /\ scene = "support" => UNCHANGED <<groups, groupVars>>

SceneSpec == SceneInit /\ [][SceneNext]_<<vars, scene>>

Symmetry == Permutations(Requests) \cup Permutations(Rooms) \cup Permutations(Jobs)

=============================================================================
