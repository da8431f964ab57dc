-------------------------- MODULE OrdersProperties --------------------------
(***************************************************************************)
(* What is claimed of module Orders.                                       *)
(***************************************************************************)
EXTENDS Orders

RefundStatuses == {"refunded", "partially-refunded"}

-----------------------------------------------------------------------------
(* However handlers interleave and wherever they die.                      *)

(* An order is called refunded only when Stripe has returned the whole     *)
(* charge, and partially refunded only when it has returned some of it:    *)
(* createRefundRequest and handleRefundRequest call refundPayment first    *)
(* and let its error pass.                                                 *)
RefundStatusBacked == \A o \in Orders :
    /\ status[o] = "refunded" => refunded[o] = Total
    /\ status[o] = "partially-refunded" => refunded[o] > 0

(* An approved refund request has been paid, in full or its amount, even   *)
(* when two agents handle the same request.                                *)
ApprovedRowsBacked == \A q \in Rows :
    refundRow[q].status = "approved" =>
        refunded[refundRow[q].order] >=
            IF refundRow[q].amount = 0 THEN Total ELSE refundRow[q].amount

(* Ratings and refund requests exist only for orders that were delivered   *)
(* with a picture, by a courier who had shipped them, though the order's   *)
(* status may have changed since.                                          *)
ClaimsFollowDelivery == \A o \in Orders :
    rated[o] \/ RowsOf(o) # {} =>
        "delivered" \in reached[o] /\ proof[o] /\ courierId[o] # None

(* Purchase rows, which the sales figures are computed from, disappear     *)
(* only for an order that was set to a refund status on a refund request.  *)
PurchasesLostToRefunds == \A o \in Orders :
    purchases[o] # 1..recorded[o] =>
        reached[o] \cap RefundStatuses # {} /\ RowsOf(o) # {}

(* The concurrent handlers keep the promise of OrderPromise.               *)
Promise == INSTANCE OrderPromise WITH
    milestones <- reached, safe <- safeShipping, paidBack <- refunded
KeepsPromise == Promise!Spec

-----------------------------------------------------------------------------
(* Why they hold: the inductive invariant.                                 *)

Paid(o, amount) == refunded[o] >= IF amount = 0 THEN Total ELSE amount

(* The statuses of an order follow from one another and from its columns.  *)
MilestonesOf(o) ==
    /\ reached[o] = {} <=> status[o] = "absent"
    /\ status[o] # "absent" => status[o] \in reached[o] /\ "pending" \in reached[o]
    /\ "shipped" \in reached[o] => courierId[o] \in Couriers
    /\ reached[o] \cap {"awaiting-pickup", "delivered"} # {} => "shipped" \in reached[o]
    /\ "uncollected" \in reached[o] => "awaiting-pickup" \in reached[o]
    /\ "delivered" \in reached[o] => proof[o]
    /\ "refunded" \in reached[o] => refunded[o] = Total
    /\ "partially-refunded" \in reached[o] => refunded[o] > 0
    /\ rated[o] => "delivered" \in reached[o]

MilestonesInOrder == \A o \in Orders : MilestonesOf(o)

(* A handler that has read its order knows an order that exists, and what  *)
(* it read was true at some time, if it is not now.                        *)
HandlersRemember == \A r \in Requests :
    /\ pc[r] # "idle" => arg[r].order \in Orders /\ reached[arg[r].order] # {}
    /\ pc[r] = "mark.save" =>
          /\ arg[r].to \in Targets
          /\ arg[r].courier \in Couriers
          /\ arg[r].to = "delivered" => arg[r].image
          /\ Promise!Earned(arg[r].order, arg[r].to)
    /\ pc[r] \in {"rate.write", "refund.find", "refund.insert"} =>
          "delivered" \in reached[arg[r].order]

(* A handler past its call of Stripe has paid.                             *)
HandlersHavePaid == \A r \in Requests :
    \/ pc[r] \in {"refund.update", "handle.update", "handle.purchases", "handle.destroy"}
    \/ pc[r] = "handle.write" /\ arg[r].to = "approved"
    => Paid(arg[r].order, arg[r].amount)

(* A handler of a refund request has what the row says.                    *)
HandlersKnowTheirRow == \A r \in Requests :
    pc[r] \in {"handle.stripe", "handle.update", "handle.purchases",
               "handle.destroy", "handle.write", "handle.email"} =>
        /\ arg[r].row \in Rows
        /\ refundRow[arg[r].row].status # "none"
        /\ refundRow[arg[r].row].order = arg[r].order
        /\ refundRow[arg[r].row].amount = arg[r].amount
        /\ arg[r].to \in Verdicts

RowsAreSound == \A q \in Rows :
    /\ refundRow[q].status = "none" <=> refundRow[q].order = None
    /\ refundRow[q].status # "none" => "delivered" \in reached[refundRow[q].order]
    /\ refundRow[q].status = "approved" => Paid(refundRow[q].order, refundRow[q].amount)

(* Only a handler past its update of the order has purchase rows to        *)
(* destroy, and only such a handler has destroyed any.                     *)
SalesAreSound ==
    /\ \A r \in Requests :
          /\ pc[r] \in {"handle.purchases", "handle.destroy"} \/ victims[r] # {} =>
                reached[arg[r].order] \cap RefundStatuses # {}
          /\ victims[r] # {} => pc[r] \in {"handle.destroy", "handle.write", "handle.email"}
    /\ \A o \in Orders :
          /\ status[o] = "absent" => recorded[o] = 0
          /\ purchases[o] \subseteq 1..recorded[o]
    /\ PurchasesLostToRefunds

IInv ==
    /\ TypeOK
    /\ MilestonesInOrder
    /\ HandlersRemember
    /\ HandlersHavePaid
    /\ HandlersKnowTheirRow
    /\ RowsAreSound
    /\ SalesAreSound

-----------------------------------------------------------------------------
(* When nothing fails.                                                     *)

(* Money that Stripe has returned is eventually written to the order, also *)
(* when a courier changes the order's status meanwhile.                    *)
RefundsAreRecorded == \A o \in Orders :
    refunded[o] > 0 ~> reached[o] \cap RefundStatuses # {}

(* An approval that has paid ends: its request is closed and the purchase  *)
(* rows it set out to destroy are gone.                                    *)
ApprovalsSettle == \A r \in Requests, q \in Rows :
    pc[r] = "handle.update" /\ arg[r].row = q ~>
        refundRow[q].status # "pending" /\ victims[r] = {}

-----------------------------------------------------------------------------
(* What the code says of itself and does not keep.                         *)

(* "Marks order as shipped, awaiting pickup, or delivered": an order on    *)
(* its last leg can be marked delivered by some call.                      *)
CanBeDelivered == \A o \in Orders :
    status[o] = (IF safeShipping[o] THEN "awaiting-pickup" ELSE "shipped") =>
        \E image \in ProofImages : MayMark(o, "delivered", image)

=============================================================================
