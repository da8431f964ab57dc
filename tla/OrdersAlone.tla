----------------------------- MODULE OrdersAlone ----------------------------
(***************************************************************************)
(* What is claimed of module Orders while its handlers run one at a time   *)
(* and do not fail, which is what the history variable alone says.         *)
(***************************************************************************)
EXTENDS OrdersProperties

ASSUME FiniteAssumption == IsFiniteSet(Requests) /\ IsFiniteSet(Rows)

VARIABLE alone \* history: no two handlers have overlapped, and none has failed

Busy == {r \in Requests : pc[r] # "idle"}

AloneInit == Init /\ alone = TRUE

Step ==
    \/ \E o \in Orders : CreateOrder(o) \/ RecordPurchase(o)
    \/ \E r \in Requests : Arrive(r) \/ Decide(r) \/ Continue(r) \/ DestroyPurchase(r)

AloneNext ==
    \/ Step /\ alone' = (alone /\ Cardinality(Busy') <= 1)
    \/ (\E r \in Requests : Abort(r)) /\ alone' = FALSE

AloneSpec == AloneInit /\ [][AloneNext]_<<vars, alone>>
FairSpec == AloneSpec /\ Fairness

-----------------------------------------------------------------------------
(* A status changes as OrderLifecycle says.                                *)
Lifecycle == INSTANCE OrderLifecycle
FollowsLifecycle == [][alone' => Lifecycle!Next]_(Lifecycle!vars)

(* createRefundRequest: "A refund request already exists for this order."  *)
OneRowPerOrder == alone => \A o \in Orders : Cardinality(RowsOf(o)) <= 1

(* Between two handlers the order tells the truth about the money: it is   *)
(* in a refund status exactly if money went back, a partial refund was     *)
(* paid once, and a denied request was not paid.                           *)
LedgerAgrees == alone /\ Busy = {} => \A o \in Orders :
    /\ refunded[o] > 0 <=> status[o] \in RefundStatuses
    /\ status[o] = "partially-refunded" => refunded[o] \in Amounts
    /\ \A q \in RowsOf(o) : refundRow[q].status = "denied" => refunded[o] = 0

-----------------------------------------------------------------------------
(* What they rest on: an invariant that every step preserves.              *)

Solitude == alone => \A r, q \in Busy : r = q

(* What a handler that is alone has read still holds.                      *)
StatusKnown(r) ==
    /\ pc[r] = "mark.save" => MayMark(arg[r].order, arg[r].to, arg[r].image)
    /\ pc[r] \in {"refund.stripe", "refund.update"} => status[arg[r].order] = "pending"
    /\ \/ pc[r] \in {"refund.find", "refund.insert", "handle.stripe", "handle.update"}
       \/ pc[r] = "handle.write" /\ arg[r].to = "denied"
       => status[arg[r].order] = "delivered"
    /\ \/ pc[r] \in {"handle.purchases", "handle.destroy"}
       \/ pc[r] = "handle.write" /\ arg[r].to = "approved"
       => status[arg[r].order] \in RefundStatuses
    /\ pc[r] \in {"handle.stripe", "handle.update", "handle.purchases", "handle.destroy"} =>
          arg[r].to = "approved"

RowKnown(r) ==
    /\ pc[r] = "refund.insert" => RowsOf(arg[r].order) = {}
    /\ pc[r] \in {"handle.stripe", "handle.update", "handle.purchases", "handle.destroy",
                  "handle.write"} => refundRow[arg[r].row].status = "pending"

ReadingsHold == alone => \A r \in Requests : StatusKnown(r) /\ RowKnown(r)

(* Money that has moved and a status that says so are one call apart.      *)
Moving(o) == \E r \in Requests : pc[r] \in {"refund.update", "handle.update"} /\ arg[r].order = o

MoneyAgrees == alone =>
    /\ \A r \in Requests : pc[r] \in {"refund.update", "handle.update"} =>
          refunded[arg[r].order] = IF arg[r].amount = 0 THEN Total ELSE arg[r].amount
    /\ \A o \in Orders :
          /\ ~Moving(o) => (refunded[o] > 0 <=> status[o] \in RefundStatuses)
          /\ status[o] = "partially-refunded" => refunded[o] \in Amounts

(* An order has one row, which is open until its money is on its way.      *)
Closing(q) == \E r \in Requests :
    pc[r] \in {"handle.purchases", "handle.destroy", "handle.write"} /\ arg[r].row = q

RowsAgree == alone =>
    /\ \A p, q \in Rows :
          refundRow[p].order # None /\ refundRow[p].order = refundRow[q].order => p = q
    /\ \A q \in Rows :
          /\ refundRow[q].status = "denied" => status[refundRow[q].order] = "delivered"
          /\ refundRow[q].status = "pending" =>
                status[refundRow[q].order] = "delivered" \/ Closing(q)

AloneInv ==
    IInv /\ alone \in BOOLEAN /\ Solitude /\ ReadingsHold /\ MoneyAgrees /\ RowsAgree

=============================================================================
