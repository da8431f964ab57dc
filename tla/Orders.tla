------------------------------- MODULE Orders -------------------------------
(***************************************************************************)
(* Fulfilment and refunds of orders: OrderService.markOrder and            *)
(* rateDeliveredOrder, PaymentService.createRefundRequest and              *)
(* handleRefundRequest, and the rows of MySQL and Stripe they share.       *)
(*                                                                         *)
(* Handlers run on Node's event loop: between two awaited calls nothing    *)
(* can interrupt one, at an await any other may run.  As many of them may  *)
(* be under way at once as there are slots r \in Requests; pc[r] names the *)
(* awaited call that the handler in slot r makes next, and an action is    *)
(* the code from one such call to the following one.  None of them takes a *)
(* lock or opens a transaction around its reads and writes.  A call that   *)
(* is refused before its first write changes nothing, and is no step.      *)
(***************************************************************************)
EXTENDS Integers, FiniteSets

CONSTANTS
    Orders,       \* ids of orders
    Requests,     \* slots of handlers under way
    Rows,         \* ids of the table refund_requests
    Couriers,     \* ids of couriers
    None,         \* SQL's NULL
    Total,        \* what the customer was charged for an order
    Amounts,      \* the partial refunds customers ask for
    Items,        \* purchase rows written for an order
    ProofImages,  \* is a deliveryImageUrl passed to markOrder: values in use
    Faults        \* may an awaited call fail, or the process die

ASSUME NoneAssumption == None \notin Orders \cup Rows \cup Couriers
ASSUME TotalAssumption == Total \in Nat \ {0}
ASSUME AmountsAssumption == Amounts \subseteq Nat \ {0}
ASSUME ItemsAssumption == Items \in Nat
ASSUME ProofImagesAssumption == ProofImages \subseteq BOOLEAN
ASSUME FaultsAssumption == Faults \in BOOLEAN

VARIABLES
    status,       \* orders.status, "absent" before the row exists
    safeShipping, \* orders.safeShipping
    courierId,    \* orders.courierId
    proof,        \* orders.proofOfDeliveryImageUrl is set
    rated,        \* orders.rating is set
    recorded,     \* purchase rows inserted so far for the order
    purchases,    \* those of them still in the purchases table
    refunded,     \* sum refunded by Stripe on the order's payment intent
    refundRow,    \* the table refund_requests
    pc,           \* the call a handler makes next
    arg,          \* what a handler knows of its input and of what it read
    victims,      \* purchase rows a handler has yet to destroy
    reached       \* history: every status the order has had

orderRow == <<safeShipping, courierId, proof, rated>>
money    == <<refunded, refundRow>>
sales    == <<recorded, purchases, victims>>
vars     == <<status, orderRow, recorded, purchases, money, pc, arg, victims, reached>>

Statuses == {"pending", "shipped", "awaiting-pickup", "delivered",
             "refunded", "partially-refunded", "uncollected"}
Targets  == {"shipped", "awaiting-pickup", "delivered", "uncollected"}
Verdicts == {"approved", "denied"}

Steps    == {"idle", "mark.save", "rate.write",
             "refund.stripe", "refund.update", "refund.find", "refund.insert",
             "handle.stripe", "handle.update", "handle.purchases",
             "handle.destroy", "handle.write", "handle.email"}

(* amount 0 is the request without an amount: the code tests `amount ?'.   *)
Arg == [order: Orders \cup {None}, to: Targets \cup Verdicts \cup {None},
        courier: Couriers \cup {None}, image: BOOLEAN,
        amount: Amounts \cup {0}, row: Rows \cup {None}]
NoArg == [order |-> None, to |-> None, courier |-> None, image |-> FALSE,
          amount |-> 0, row |-> None]

RefundRow == [order: Orders \cup {None}, amount: Amounts \cup {0},
              status: Verdicts \cup {"none", "pending"}]
NoRow == [order |-> None, amount |-> 0, status |-> "none"]

TypeOK ==
    /\ status \in [Orders -> Statuses \cup {"absent"}]
    /\ safeShipping \in [Orders -> BOOLEAN]
    /\ courierId \in [Orders -> Couriers \cup {None}]
    /\ proof \in [Orders -> BOOLEAN]
    /\ rated \in [Orders -> BOOLEAN]
    /\ recorded \in [Orders -> 0..Items]
    /\ purchases \in [Orders -> SUBSET (1..Items)]
    /\ refunded \in [Orders -> 0..Total]
    /\ refundRow \in [Rows -> RefundRow]
    /\ pc \in [Requests -> Steps]
    /\ arg \in [Requests -> Arg]
    /\ victims \in [Requests -> SUBSET (1..Items)]
    /\ reached \in [Orders -> SUBSET Statuses]

Init ==
    /\ status = [o \in Orders |-> "absent"]
    /\ safeShipping = [o \in Orders |-> FALSE]
    /\ courierId = [o \in Orders |-> None]
    /\ proof = [o \in Orders |-> FALSE]
    /\ rated = [o \in Orders |-> FALSE]
    /\ recorded = [o \in Orders |-> 0]
    /\ purchases = [o \in Orders |-> {}]
    /\ refunded = [o \in Orders |-> 0]
    /\ refundRow = [q \in Rows |-> NoRow]
    /\ pc = [r \in Requests |-> "idle"]
    /\ arg = [r \in Requests |-> NoArg]
    /\ victims = [r \in Requests |-> {}]
    /\ reached = [o \in Orders |-> {}]

-----------------------------------------------------------------------------
(* The parts handlers are made of.                                         *)

SetStatus(o, s) ==
    /\ status' = [status EXCEPT ![o] = s]
    /\ reached' = [reached EXCEPT ![o] = @ \cup {s}]

(* The first call of a handler, with what it keeps of it.                  *)
Begin(r, a, step) ==
    /\ pc[r] = "idle"
    /\ arg' = [arg EXCEPT ![r] = a]
    /\ pc' = [pc EXCEPT ![r] = step]

(* A later call, at.                                                       *)
Proceed(r, at, step) ==
    /\ pc[r] = at
    /\ pc' = [pc EXCEPT ![r] = step]
    /\ UNCHANGED arg

(* The last one, or one that throws: the slot is free for another handler. *)
Finish(r) ==
    /\ pc' = [pc EXCEPT ![r] = "idle"]
    /\ arg' = [arg EXCEPT ![r] = NoArg]

(* The status an order is paid back to.                                    *)
PaidBackStatus(amount) == IF amount = 0 THEN "refunded" ELSE "partially-refunded"

(* stripe.refunds.create: without an amount Stripe returns what is left of *)
(* the charge, and it never returns more than the charge.                  *)
Refundable(o, amount) ==
    IF amount = 0 THEN refunded[o] < Total ELSE refunded[o] + amount <= Total

Return(o, amount) ==
    refunded' = [refunded EXCEPT ![o] = IF amount = 0 THEN Total ELSE @ + amount]

(* A refund whose refusal by Stripe goes unnoticed: faulty.                *)
RefundPaymentUnchecked(r, at, next) ==
    /\ pc[r] = at
    /\ \/ Refundable(arg[r].order, arg[r].amount) /\ Return(arg[r].order, arg[r].amount)
       \/ (Faults \/ ~Refundable(arg[r].order, arg[r].amount)) /\ UNCHANGED refunded
    /\ Proceed(r, at, next)

(* Stripe's refusal is thrown, through refundPayment and the handler.      *)
RefundPayment(r, at, next) ==
    /\ pc[r] = at
    /\ \/ /\ Refundable(arg[r].order, arg[r].amount)
          /\ Return(arg[r].order, arg[r].amount)
          /\ Proceed(r, at, next)
       \/ /\ Faults \/ ~Refundable(arg[r].order, arg[r].amount)
          /\ UNCHANGED refunded
          /\ Finish(r)

-----------------------------------------------------------------------------
(* The checkout's last part: the order's transaction commits, and the      *)
(* purchase rows are inserted by promises nobody awaits.                   *)

CreateOrder(o) ==
    /\ status[o] = "absent"
    /\ SetStatus(o, "pending")
    /\ \E safe \in BOOLEAN : safeShipping' = [safeShipping EXCEPT ![o] = safe]
    /\ UNCHANGED <<courierId, proof, rated, sales, money, pc, arg>>

RecordPurchase(o) ==
    /\ status[o] # "absent"
    /\ recorded[o] < Items
    /\ recorded' = [recorded EXCEPT ![o] = @ + 1]
    /\ purchases' = [purchases EXCEPT ![o] = @ \cup {recorded[o] + 1}]
    /\ UNCHANGED <<status, orderRow, money, pc, arg, victims, reached>>

-----------------------------------------------------------------------------
(* OrderService.markOrder                                                  *)

(* markOrder without its first branch, where a delivery of a safely        *)
(* shipped order has to wait for the pickup: faulty.                       *)
MayMarkIgnoringSafeShipping(o, to, image) ==
    \/ to = "shipped" /\ status[o] = "pending"
    \/ to = "awaiting-pickup" /\ safeShipping[o] /\ status[o] = "shipped"
    \/ to = "delivered" /\ status[o] = "shipped" /\ image
    \/ to = "uncollected" /\ status[o] = "awaiting-pickup"

(* markOrder where a delivered order may be marked uncollected: faulty.    *)
MayMarkDeliveredUncollected(o, to, image) ==
    \/ to = "shipped" /\ status[o] = "pending"
    \/ to = "awaiting-pickup" /\ safeShipping[o] /\ status[o] = "shipped"
    \/ /\ to = "delivered"
       /\ status[o] = IF safeShipping[o] THEN "awaiting-pickup" ELSE "shipped"
       /\ image
    \/ to = "uncollected" /\ status[o] \in {"awaiting-pickup", "delivered"}

(* markOrder that takes a delivery without its picture: faulty.            *)
MayMarkWithoutProof(o, to, image) ==
    \/ to = "shipped" /\ status[o] = "pending"
    \/ to = "awaiting-pickup" /\ safeShipping[o] /\ status[o] = "shipped"
    \/ /\ to = "delivered"
       /\ status[o] = IF safeShipping[o] THEN "awaiting-pickup" ELSE "shipped"
    \/ to = "uncollected" /\ status[o] = "awaiting-pickup"

MayMark(o, to, image) ==
    \/ to = "shipped" /\ status[o] = "pending"
    \/ to = "awaiting-pickup" /\ safeShipping[o] /\ status[o] = "shipped"
    \/ /\ to = "delivered"
       /\ status[o] = IF safeShipping[o] THEN "awaiting-pickup" ELSE "shipped"
       /\ image
    \/ to = "uncollected" /\ status[o] = "awaiting-pickup"

MarkRead(r, o, to, c, image) ==
    /\ MayMark(o, to, image)
    /\ Begin(r, [NoArg EXCEPT !.order = o, !.to = to, !.courier = c, !.image = image],
             "mark.save")
    /\ UNCHANGED <<status, orderRow, sales, money, reached>>

(* order.save() writes the columns that were assigned, whatever the row    *)
(* holds by then.                                                          *)
MarkSave(r) ==
    LET o == arg[r].order  to == arg[r].to IN
    /\ pc[r] = "mark.save"
    /\ SetStatus(o, to)
    /\ courierId' = IF to = "shipped" THEN [courierId EXCEPT ![o] = arg[r].courier]
                                      ELSE courierId
    /\ proof' = IF to = "delivered" THEN [proof EXCEPT ![o] = arg[r].image] ELSE proof
    /\ Finish(r)
    /\ UNCHANGED <<safeShipping, rated, sales, money>>

-----------------------------------------------------------------------------
(* OrderService.rateDeliveredOrder                                         *)

RateRead(r, o) ==
    /\ status[o] = "delivered"
    /\ Begin(r, [NoArg EXCEPT !.order = o], "rate.write")
    /\ UNCHANGED <<status, orderRow, sales, money, reached>>

RateWrite(r) ==
    /\ pc[r] = "rate.write"
    /\ rated' = [rated EXCEPT ![arg[r].order] = TRUE]
    /\ Finish(r)
    /\ UNCHANGED <<status, safeShipping, courierId, proof, sales, money, reached>>

-----------------------------------------------------------------------------
(* PaymentService.createRefundRequest, called by the customer of the order *)

RefundRead(r, o, amount) ==
    /\ status[o] \in {"pending", "delivered"}
    /\ Begin(r, [NoArg EXCEPT !.order = o, !.amount = amount],
             IF status[o] = "pending" THEN "refund.stripe" ELSE "refund.find")
    /\ UNCHANGED <<status, orderRow, sales, money, reached>>

RefundStripe(r) ==
    /\ RefundPayment(r, "refund.stripe", "refund.update")
    /\ UNCHANGED <<status, orderRow, sales, refundRow, reached>>

(* A refund that is not written once the order has moved on: faulty.       *)
RefundUpdatePendingOnly(r) ==
    /\ pc[r] = "refund.update"
    /\ status[arg[r].order] = "pending"
    /\ SetStatus(arg[r].order, PaidBackStatus(arg[r].amount))
    /\ Finish(r)
    /\ UNCHANGED <<orderRow, sales, money>>

RefundUpdate(r) ==
    /\ pc[r] = "refund.update"
    /\ SetStatus(arg[r].order, PaidBackStatus(arg[r].amount))
    /\ Finish(r)
    /\ UNCHANGED <<orderRow, sales, money>>

RowsOf(o) == {q \in Rows : refundRow[q].order = o}

(* A look-up that finds nothing even when the row is there: faulty.        *)
RefundFindNothing(r) ==
    /\ Proceed(r, "refund.find", "refund.insert")
    /\ UNCHANGED <<status, orderRow, sales, money, reached>>

(* findOrCreate selects, then inserts: the column orderId has no unique    *)
(* index, so the insert does not look again.                               *)
RefundFind(r) ==
    /\ pc[r] = "refund.find"
    /\ IF RowsOf(arg[r].order) = {}
          THEN Proceed(r, "refund.find", "refund.insert")
          ELSE Finish(r)
    /\ UNCHANGED <<status, orderRow, sales, money, reached>>

RefundInsert(r) ==
    /\ pc[r] = "refund.insert"
    /\ \E q \in Rows :
          /\ refundRow[q].status = "none"
          /\ refundRow' = [refundRow EXCEPT ![q] =
                 [order |-> arg[r].order, amount |-> arg[r].amount, status |-> "pending"]]
    /\ Finish(r)
    /\ UNCHANGED <<status, orderRow, sales, refunded, reached>>

-----------------------------------------------------------------------------
(* PaymentService.handleRefundRequest, called by support agents and admins *)

HandleBegin(r, q, verdict) ==
    /\ Begin(r, [NoArg EXCEPT !.order = refundRow[q].order, !.to = verdict,
                              !.amount = refundRow[q].amount, !.row = q],
             IF verdict = "approved" THEN "handle.stripe" ELSE "handle.write")
    /\ UNCHANGED <<status, orderRow, sales, money, reached>>

(* A handler that does not look at the request's status: faulty.           *)
HandleReadAnyStatus(r, q, verdict) ==
    /\ refundRow[q].status # "none"
    /\ HandleBegin(r, q, verdict)

(* Row q and the order it is about are read by one query.  A verdict with  *)
(* a rejectionReason it must not have, or without one it needs, is refused.*)
HandleRead(r, q, verdict) ==
    /\ refundRow[q].status = "pending"
    /\ HandleBegin(r, q, verdict)

(* The purchase rows looked up before the order is updated: faulty.        *)
HandleStripePurchasesFirst(r) ==
    /\ RefundPayment(r, "handle.stripe", "handle.purchases")
    /\ UNCHANGED <<status, orderRow, sales, refundRow, reached>>

HandleStripe(r) ==
    /\ RefundPayment(r, "handle.stripe", "handle.update")
    /\ UNCHANGED <<status, orderRow, sales, refundRow, reached>>

(* The agent's verdict written as the order's status: faulty.              *)
HandleUpdateVerdict(r) ==
    /\ Proceed(r, "handle.update", "handle.purchases")
    /\ SetStatus(arg[r].order, arg[r].to)
    /\ UNCHANGED <<orderRow, sales, money>>

(* The order is looked up and updated.  Between the two a handler may      *)
(* change it; it is then as if it had been changed before, or, when the    *)
(* look-up finds the status that is to be set and nothing is written, as   *)
(* if it had been changed after.                                           *)
HandleUpdate(r) ==
    /\ Proceed(r, "handle.update", "handle.purchases")
    /\ SetStatus(arg[r].order, PaidBackStatus(arg[r].amount))
    /\ UNCHANGED <<orderRow, sales, money>>

(* i < removalCount, removalCount a fraction: as many rows as its ceiling. *)
RemovalCount(amount, count) == ((Total - amount) * count + Total - 1) \div Total

(* Fully refunded: every row is destroyed by promises that nobody awaits.  *)
(* Partially: the loop destroys removalCount of them, one after the other. *)
HandlePurchases(r) ==
    LET o == arg[r].order  amount == arg[r].amount IN
    /\ pc[r] = "handle.purchases"
    /\ \/ /\ amount = 0
          /\ victims' = [victims EXCEPT ![r] = purchases[o]]
          /\ Proceed(r, "handle.purchases", "handle.write")
       \/ /\ amount # 0
          /\ \E rows \in SUBSET purchases[o] :
                /\ Cardinality(rows) = RemovalCount(amount, Cardinality(purchases[o]))
                /\ victims' = [victims EXCEPT ![r] = rows]
          /\ Proceed(r, "handle.purchases", "handle.destroy")
    /\ UNCHANGED <<status, orderRow, recorded, purchases, money, reached>>

DestroyPurchase(r) ==
    /\ \E row \in victims[r] :
          /\ purchases' = [purchases EXCEPT ![arg[r].order] = @ \ {row}]
          /\ victims' = [victims EXCEPT ![r] = @ \ {row}]
    /\ UNCHANGED <<status, orderRow, recorded, money, pc, arg, reached>>

(* A loop that goes on until no purchase row is left: faulty.              *)
HandleDestroyedAll(r) ==
    /\ pc[r] = "handle.destroy"
    /\ purchases[arg[r].order] = {}
    /\ Proceed(r, "handle.destroy", "handle.write")
    /\ UNCHANGED <<status, orderRow, sales, money, reached>>

HandleDestroyed(r) ==
    /\ victims[r] = {}
    /\ Proceed(r, "handle.destroy", "handle.write")
    /\ UNCHANGED <<status, orderRow, sales, money, reached>>

(* RefundRequest.update by id: the row's status is not looked at again.    *)
HandleWrite(r) ==
    /\ Proceed(r, "handle.write", "handle.email")
    /\ refundRow' = [refundRow EXCEPT ![arg[r].row].status = arg[r].to]
    /\ UNCHANGED <<status, orderRow, sales, refunded, reached>>

(* The email is sent.  The slot stays taken while destroy promises run.    *)
HandleEmail(r) ==
    /\ pc[r] = "handle.email"
    /\ victims[r] = {}
    /\ Finish(r)
    /\ UNCHANGED <<status, orderRow, sales, money, reached>>

-----------------------------------------------------------------------------
(* An awaited call throws, or the process dies with what it was doing: the *)
(* calls that r has made stay made, the others are never made.             *)
Abort(r) ==
    /\ Faults
    /\ pc[r] # "idle"
    /\ victims' = [victims EXCEPT ![r] = {}]
    /\ Finish(r)
    /\ UNCHANGED <<status, orderRow, recorded, purchases, money, reached>>

Arrive(r) ==
    \E o \in Orders :
        \/ \E to \in Targets, c \in Couriers, image \in ProofImages : MarkRead(r, o, to, c, image)
        \/ RateRead(r, o)
        \/ \E amount \in Amounts \cup {0} : RefundRead(r, o, amount)

Decide(r) == \E q \in Rows, verdict \in Verdicts : HandleRead(r, q, verdict)

Continue(r) ==
    \/ MarkSave(r)
    \/ RateWrite(r)
    \/ RefundStripe(r) \/ RefundUpdate(r) \/ RefundFind(r) \/ RefundInsert(r)
    \/ HandleStripe(r) \/ HandleUpdate(r) \/ HandlePurchases(r)
    \/ HandleDestroyed(r) \/ HandleWrite(r) \/ HandleEmail(r)

Next ==
    \/ \E o \in Orders : CreateOrder(o) \/ RecordPurchase(o)
    \/ \E r \in Requests :
          Arrive(r) \/ Decide(r) \/ Continue(r) \/ DestroyPurchase(r) \/ Abort(r)

Spec == Init /\ [][Next]_vars

(* Node resumes a handler whose awaited call has answered, and the calls   *)
(* are queries and HTTP requests that answer or time out.                  *)
Fairness == \A r \in Requests : WF_vars(Continue(r)) /\ WF_vars(DestroyPurchase(r))

=============================================================================
