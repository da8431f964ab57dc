---------------------------- MODULE OrderPromise ----------------------------
(***************************************************************************)
(* What is promised of an order however the handlers interleave.  The      *)
(* present status may be overwritten by a handler that read an older one,  *)
(* so the promise is about milestones, the set of statuses the order has   *)
(* had: none is reached before those it rests on, and none about money     *)
(* before the money has moved.                                             *)
(***************************************************************************)
EXTENDS Integers

CONSTANTS Orders, Total

VARIABLES milestones, safe, paidBack

vars == <<milestones, safe, paidBack>>

Init ==
    /\ milestones = [o \in Orders |-> {}]
    /\ safe = [o \in Orders |-> FALSE]
    /\ paidBack = [o \in Orders |-> 0]

Place(o) ==
    /\ milestones[o] = {}
    /\ milestones' = [milestones EXCEPT ![o] = {"pending"}]
    /\ \E s \in BOOLEAN : safe' = [safe EXCEPT ![o] = s]
    /\ UNCHANGED paidBack

Earned(o, s) ==
    \/ s = "shipped" /\ "pending" \in milestones[o]
    \/ s = "awaiting-pickup" /\ safe[o] /\ "shipped" \in milestones[o]
    \/ s = "delivered" /\ (IF safe[o] THEN "awaiting-pickup" ELSE "shipped") \in milestones[o]
    \/ s = "uncollected" /\ "awaiting-pickup" \in milestones[o]
    \/ s = "refunded" /\ paidBack[o] = Total
    \/ s = "partially-refunded" /\ paidBack[o] > 0

Reach(o, s) ==
    /\ Earned(o, s)
    /\ milestones' = [milestones EXCEPT ![o] = @ \cup {s}]
    /\ UNCHANGED <<safe, paidBack>>

(* Money only comes back for an order that exists, and never more than was *)
(* paid.                                                                   *)
PayBack(o) ==
    /\ "pending" \in milestones[o]
    /\ \E sum \in (paidBack[o] + 1)..Total : paidBack' = [paidBack EXCEPT ![o] = sum]
    /\ UNCHANGED <<milestones, safe>>

Next == \E o \in Orders :
    \/ Place(o)
    \/ PayBack(o)
    \/ \E s \in {"shipped", "awaiting-pickup", "delivered", "uncollected",
                 "refunded", "partially-refunded"} : Reach(o, s)

Spec == Init /\ [][Next]_vars

=============================================================================
