--------------------------- MODULE OrderLifecycle ---------------------------
(***************************************************************************)
(* The life of one order after another as the guards of the handlers spell *)
(* it out: every change of status starts from the status the guard names.  *)
(* This is what couriers, customers and support agents are told when the   *)
(* handlers run one at a time.                                             *)
(***************************************************************************)
CONSTANT Orders

VARIABLES status, safeShipping

vars == <<status, safeShipping>>

Init ==
    /\ status = [o \in Orders |-> "absent"]
    /\ safeShipping = [o \in Orders |-> FALSE]

Place(o) ==
    /\ status[o] = "absent"
    /\ status' = [status EXCEPT ![o] = "pending"]
    /\ \E safe \in BOOLEAN : safeShipping' = [safeShipping EXCEPT ![o] = safe]

Move(o, from, to) ==
    /\ status[o] = from
    /\ status' = [status EXCEPT ![o] = to]
    /\ UNCHANGED safeShipping

Ship(o)        == Move(o, "pending", "shipped")
AwaitPickup(o) == safeShipping[o] /\ Move(o, "shipped", "awaiting-pickup")
HandOver(o)    == ~safeShipping[o] /\ Move(o, "shipped", "delivered")
PickUp(o)      == safeShipping[o] /\ Move(o, "awaiting-pickup", "delivered")
GiveUp(o)      == Move(o, "awaiting-pickup", "uncollected")
Refund(o)      == \E from \in {"pending", "delivered"},
                     to \in {"refunded", "partially-refunded"} : Move(o, from, to)

Next == \E o \in Orders :
    \/ Place(o) \/ Ship(o) \/ AwaitPickup(o) \/ HandOver(o)
    \/ PickUp(o) \/ GiveUp(o) \/ Refund(o)

Spec == Init /\ [][Next]_vars

=============================================================================
