------------------------------ MODULE Checkout ------------------------------
(***************************************************************************)
(* From the cart to the order: CartService, PaymentService.processPayment  *)
(* and processPaymentAndCreateOrder, OrderService.createOrder, and what    *)
(* they share: the customers' loyalty points, their carts, and Stripe.     *)
(*                                                                         *)
(* As in Orders, pc[r] is the awaited call that the handler in slot r      *)
(* makes next.  What a handler has read is kept in arg[r]; when it writes, *)
(* the row may long be another.                                            *)
(***************************************************************************)
EXTENDS Integers, Sequences, FiniteSets

CONSTANTS
    Customers,    \* customers
    Requests,     \* slots of handlers under way
    Intents,      \* ids of payment intents, one for each charge
    Products,     \* products that are put into carts
    None,         \* no value
    LineCount,    \* number of items of a checkout, each with a price of its own
    Copies,       \* quantity of each of them
    Welcome,      \* REGISTRATION_LOYALTY_POINTS
    ProductTotal, \* what the items of a checkout cost, in points earned
    Spends,       \* loyalty points that a checkout may pass, 0 for none
    Quantities,   \* quantities that are put into a cart
    Reward,       \* points of a holiday promotion
    Tiers,        \* memberships that customers change to
    Promotions,   \* bound: holiday promotions that take place
    CartItemLimit,\* CART_ITEM_LIMIT
    Additions,    \* bound: how much of a product is put into a cart
    Faults        \* may an awaited call fail, or the process die

Memberships == {"free", "plus", "premium"}

ASSUME NoneAssumption == None \notin Customers \cup Products \cup Intents
ASSUME PointsAssumption ==
    Welcome \in Nat /\ ProductTotal \in Nat \ {0} /\ Reward \in Nat /\ Spends \subseteq Nat
ASSUME QuantityAssumption ==
    /\ Quantities \subseteq Nat \ {0}
    /\ LineCount \in Nat \ {0} /\ Copies \in Nat /\ CartItemLimit \in Nat
ASSUME TiersAssumption == Tiers \subseteq Memberships
ASSUME BoundAssumption == Promotions \in Nat /\ Additions \in Nat
ASSUME FaultsAssumption == Faults \in BOOLEAN
ASSUME FiniteAssumption ==
    IsFiniteSet(Requests) /\ Requests # {} /\ IsFiniteSet(Products)

VARIABLES
    points,     \* customers.loyaltyPoints
    membership, \* customers.membership
    promotions, \* holiday promotions so far
    granted,    \* history: all points the customer was ever given
    spent,      \* history: all points that were taken off the customer's charges
    cart,       \* cart_items.quantity, 0 where there is no row
    added,      \* history: how much of the product was put into the cart
    addToCartRate, \* products.addToCartRate
    created,    \* history: how many rows of the product carts ever had
    bill,       \* Stripe's payment intents
    order,      \* the order of a payment intent: inserted, committed
    sold,       \* rows in purchases of each line of the order
    pc,         \* the call a handler makes next
    arg         \* what a handler knows

wallet == <<points, membership, promotions, granted, spent>>
basket == <<cart, added, addToCartRate, created>>
sales  == <<bill, order, sold>>
vars   == <<wallet, basket, sales, pc, arg>>

Lines == 1..LineCount
Steps == {"idle", "pay.price", "pay.charge", "pay.save", "order.create", "order.clear", "order.commit",
          "add.count", "add.find", "add.save", "add.rate", "remove.save", "remove.destroy"}

Arg == [customer: Customers \cup {None}, product: Products \cup {None},
        seen: Nat, amount: Nat, member: Memberships,
        prices: Seq(Lines), intent: Intents \cup {None}]
NoArg == [customer |-> None, product |-> None, seen |-> 0, amount |-> 0, member |-> "free",
          prices |-> <<>>, intent |-> None]

Bill == [customer: Customers \cup {None}, prices: Seq(Lines)]
NoBill == [customer |-> None, prices |-> <<>>]

TypeOK ==
    /\ points \in [Customers -> Int]
    /\ membership \in [Customers -> Memberships]
    /\ promotions \in 0..Promotions
    /\ granted \in [Customers -> Nat]
    /\ spent \in [Customers -> Nat]
    /\ cart \in [Customers -> [Products -> Nat]]
    /\ added \in [Customers -> [Products -> Nat]]
    /\ addToCartRate \in [Products -> Nat]
    /\ created \in [Products -> Nat]
    /\ bill \in [Intents -> Bill]
    /\ order \in [Intents -> {"none", "inserted", "committed"}]
    /\ sold \in [Intents -> [Lines -> 0..Copies]]
    /\ pc \in [Requests -> Steps]
    /\ arg \in [Requests -> Arg]

Init ==
    /\ points = [c \in Customers |-> Welcome]
    /\ membership = [c \in Customers |-> "free"]
    /\ promotions = 0
    /\ granted = [c \in Customers |-> Welcome]
    /\ spent = [c \in Customers |-> 0]
    /\ cart = [c \in Customers |-> [p \in Products |-> 0]]
    /\ added = [c \in Customers |-> [p \in Products |-> 0]]
    /\ addToCartRate = [p \in Products |-> 0]
    /\ created = [p \in Products |-> 0]
    /\ bill = [i \in Intents |-> NoBill]
    /\ order = [i \in Intents |-> "none"]
    /\ sold = [i \in Intents |-> [l \in Lines |-> 0]]
    /\ pc = [r \in Requests |-> "idle"]
    /\ arg = [r \in Requests |-> NoArg]

-----------------------------------------------------------------------------
(* The parts handlers are made of.                                         *)

Begin(r, a, step) ==
    /\ pc[r] = "idle"
    /\ arg' = [arg EXCEPT ![r] = a]
    /\ pc' = [pc EXCEPT ![r] = step]

Proceed(r, at, step) ==
    /\ pc[r] = at
    /\ pc' = [pc EXCEPT ![r] = step]

Finish(r) ==
    /\ pc' = [pc EXCEPT ![r] = "idle"]
    /\ arg' = [arg EXCEPT ![r] = NoArg]

Read(r, value) == arg' = [arg EXCEPT ![r].seen = value]

-----------------------------------------------------------------------------
(* PaymentService.processPayment                                           *)

(* Loyalty points taken off before the charge is made: faulty.             *)
PayReadAndDeduct(r, c, spend) ==
    /\ spend <= points[c]
    /\ points' = [points EXCEPT ![c] = @ - spend]
    /\ Begin(r, [NoArg EXCEPT !.customer = c, !.seen = points[c], !.amount = spend,
                              !.member = membership[c]], "pay.price")
    /\ UNCHANGED <<membership, promotions, granted, spent, basket, sales>>

PayRead(r, c, spend) ==
    /\ spend <= points[c]
    /\ Begin(r, [NoArg EXCEPT !.customer = c, !.seen = points[c], !.amount = spend,
                              !.member = membership[c]], "pay.price")
    /\ UNCHANGED <<wallet, basket, sales>>

(* The items' prices are read by one promise each.  The k-th to answer has *)
(* its price written to item k, itemIndex being shared by the promises.    *)
PriceLine(r, line) ==
    LET prices == Append(arg[r].prices, line) IN
    /\ \A k \in DOMAIN arg[r].prices : arg[r].prices[k] # line
    /\ Proceed(r, "pay.price",
               IF Len(prices) = LineCount THEN "pay.charge" ELSE "pay.price")
    /\ arg' = [arg EXCEPT ![r].prices = prices]
    /\ UNCHANGED <<wallet, basket, sales>>

(* A product or shipping option may be missing, or Stripe decline the card.*)
PayCharge(r) ==
    /\ pc[r] = "pay.charge"
    /\ \/ \E i \in Intents :
             /\ bill[i] = NoBill
             /\ bill' = [bill EXCEPT ![i] = [customer |-> arg[r].customer, prices |-> arg[r].prices]]
             /\ spent' = [spent EXCEPT ![arg[r].customer] = @ + arg[r].amount]
             /\ Proceed(r, "pay.charge", "pay.save")
             /\ arg' = [arg EXCEPT ![r].intent = i, ![r].prices = <<>>]
       \/ Finish(r) /\ UNCHANGED <<bill, spent>>
    /\ UNCHANGED <<points, membership, promotions, granted, basket, order, sold>>

Earned(member) == ProductTotal * (CASE member = "free"    -> 1
                                    [] member = "plus"    -> 2
                                    [] member = "premium" -> 3)

(* Points counted from what the row holds now: faulty.                     *)
PaySaveFromRow(r) ==
    LET c == arg[r].customer IN
    /\ Proceed(r, "pay.save", "order.create")
    /\ points' = [points EXCEPT ![c] = @ - arg[r].amount + Earned(arg[r].member)]
    /\ granted' = [granted EXCEPT ![c] = @ + Earned(arg[r].member)]
    /\ arg' = [arg EXCEPT ![r] = [NoArg EXCEPT !.customer = c, !.intent = arg[r].intent]]
    /\ UNCHANGED <<membership, promotions, spent, basket, sales>>

(* The number saved is counted from the points that were read.             *)
PaySave(r) ==
    LET c == arg[r].customer IN
    /\ Proceed(r, "pay.save", "order.create")
    /\ points' = [points EXCEPT ![c] = arg[r].seen - arg[r].amount + Earned(arg[r].member)]
    /\ granted' = [granted EXCEPT ![c] = @ + Earned(arg[r].member)]
    /\ arg' = [arg EXCEPT ![r] = [NoArg EXCEPT !.customer = c, !.intent = arg[r].intent]]
    /\ UNCHANGED <<membership, promotions, spent, basket, sales>>

-----------------------------------------------------------------------------
(* OrderService.createOrder, called by processPaymentAndCreateOrder        *)

(* The order and its items are inserted in a transaction.                  *)
OrderCreate(r) ==
    /\ Proceed(r, "order.create", "order.clear")
    /\ order' = [order EXCEPT ![arg[r].intent] = "inserted"]
    /\ UNCHANGED <<wallet, basket, bill, sold, arg>>

(* cart.removeProducts(), called without the products it is to remove, by  *)
(* callers who mean all of them.  Sequelize 6 makes of the missing         *)
(* argument a condition that no row meets; both outcomes are allowed here. *)
RemoveProducts(c) ==
    \/ cart' = [cart EXCEPT ![c] = [p \in Products |-> 0]]
    \/ UNCHANGED cart

(* A cart that is empty by now makes the checkout fail: faulty.            *)
OrderClearFilled(r) ==
    LET c == arg[r].customer IN
    /\ pc[r] = "order.clear"
    /\ IF \E p \in Products : cart[c][p] # 0
          THEN /\ RemoveProducts(c)
               /\ Proceed(r, "order.clear", "order.commit")
               /\ UNCHANGED <<order, arg>>
          ELSE /\ order' = [order EXCEPT ![arg[r].intent] = "none"]
               /\ Finish(r)
               /\ UNCHANGED cart
    /\ UNCHANGED <<wallet, added, addToCartRate, created, bill, sold>>

(* The cart is cleared outside the transaction, whatever it holds.         *)
OrderClear(r) ==
    /\ Proceed(r, "order.clear", "order.commit")
    /\ RemoveProducts(arg[r].customer)
    /\ UNCHANGED <<wallet, added, addToCartRate, created, sales, arg>>

OrderCommit(r) ==
    /\ pc[r] = "order.commit"
    /\ order' = [order EXCEPT ![arg[r].intent] = "committed"]
    /\ Finish(r)
    /\ UNCHANGED <<wallet, basket, bill, sold>>

(* Purchase rows that do not wait for the order's transaction: faulty.     *)
RecordPurchaseEarly(i, line) ==
    /\ order[i] # "none"
    /\ sold[i][line] < Copies
    /\ sold' = [sold EXCEPT ![i][line] = @ + 1]
    /\ UNCHANGED <<wallet, basket, bill, order, pc, arg>>

(* By promises that nobody awaits, one row after another for each item.    *)
RecordPurchase(i, line) ==
    /\ order[i] = "committed"
    /\ sold[i][line] < Copies
    /\ sold' = [sold EXCEPT ![i][line] = @ + 1]
    /\ UNCHANGED <<wallet, basket, bill, order, pc, arg>>

(* The price that the purchase rows of an item carry.                      *)
PurchasePrice(i, line) == bill[i].prices[line]

-----------------------------------------------------------------------------
(* CartService                                                             *)

AddRead(r, c, p, quantity) ==
    /\ added[c][p] + quantity <= Additions
    /\ Begin(r, [NoArg EXCEPT !.customer = c, !.product = p, !.seen = addToCartRate[p],
                              !.amount = quantity], "add.count")
    /\ UNCHANGED <<wallet, basket, sales>>

RowsIn(c) == {p \in Products : cart[c][p] # 0}

(* No limit on the rows of a cart: faulty.                                 *)
AddCountUnlimited(r) ==
    /\ Proceed(r, "add.count", "add.find")
    /\ UNCHANGED <<wallet, basket, sales, arg>>

(* A cart at its limit takes no more, not even of a product it holds.      *)
AddCount(r) ==
    /\ pc[r] = "add.count"
    /\ IF Cardinality(RowsIn(arg[r].customer)) < CartItemLimit
          THEN Proceed(r, "add.count", "add.find") /\ UNCHANGED arg
          ELSE Finish(r)
    /\ UNCHANGED <<wallet, basket, sales>>

(* findOrCreate: the row's key is unique, so one of two inserts finds it.  *)
AddFind(r) ==
    LET c == arg[r].customer  p == arg[r].product IN
    /\ pc[r] = "add.find"
    /\ IF cart[c][p] = 0
          THEN /\ Proceed(r, "add.find", "add.rate")
               /\ cart' = [cart EXCEPT ![c][p] = arg[r].amount]
               /\ added' = [added EXCEPT ![c][p] = @ + arg[r].amount]
               /\ created' = [created EXCEPT ![p] = @ + 1]
               /\ UNCHANGED arg
          ELSE /\ Proceed(r, "add.find", "add.save")
               /\ Read(r, cart[c][p])
               /\ UNCHANGED <<cart, added, created>>
    /\ UNCHANGED <<wallet, sales, addToCartRate>>

(* The quantity added to what the row holds and to what was read: faulty.  *)
AddSaveTwice(r) ==
    LET c == arg[r].customer  p == arg[r].product IN
    /\ pc[r] = "add.save"
    /\ cart' = [cart EXCEPT ![c][p] = IF @ = 0 THEN 0 ELSE @ + arg[r].seen + arg[r].amount]
    /\ added' = [added EXCEPT ![c][p] = @ + arg[r].amount]
    /\ Finish(r)
    /\ UNCHANGED <<wallet, sales, addToCartRate, created>>

(* An update of a row that is gone changes nothing.                        *)
AddSave(r) ==
    LET c == arg[r].customer  p == arg[r].product IN
    /\ pc[r] = "add.save"
    /\ cart' = [cart EXCEPT ![c][p] = IF @ = 0 THEN 0 ELSE arg[r].seen + arg[r].amount]
    /\ added' = [added EXCEPT ![c][p] = @ + arg[r].amount]
    /\ Finish(r)
    /\ UNCHANGED <<wallet, sales, addToCartRate, created>>

AddRate(r) ==
    /\ pc[r] = "add.rate"
    /\ addToCartRate' = [addToCartRate EXCEPT ![arg[r].product] = arg[r].seen + 1]
    /\ Finish(r)
    /\ UNCHANGED <<wallet, cart, added, created, sales>>

RemoveRead(r, c, p) ==
    /\ cart[c][p] # 0
    /\ Begin(r, [NoArg EXCEPT !.customer = c, !.product = p, !.seen = cart[c][p]],
             IF cart[c][p] > 1 THEN "remove.save" ELSE "remove.destroy")
    /\ UNCHANGED <<wallet, basket, sales>>

RemoveSave(r) ==
    LET c == arg[r].customer  p == arg[r].product IN
    /\ pc[r] = "remove.save"
    /\ cart' = [cart EXCEPT ![c][p] = IF @ = 0 THEN 0 ELSE arg[r].seen - 1]
    /\ Finish(r)
    /\ UNCHANGED <<wallet, added, addToCartRate, created, sales>>

RemoveDestroy(r) ==
    /\ pc[r] = "remove.destroy"
    /\ cart' = [cart EXCEPT ![arg[r].customer][arg[r].product] = 0]
    /\ Finish(r)
    /\ UNCHANGED <<wallet, added, addToCartRate, created, sales>>

ClearCart(c) ==
    /\ RemoveProducts(c)
    /\ UNCHANGED <<wallet, added, addToCartRate, created, sales, pc, arg>>

-----------------------------------------------------------------------------
(* Others write the customer's row too.                                    *)

(* HolidayPromoWorker adds to the points of every customer, in SQL.        *)
HolidayPromotion ==
    /\ promotions < Promotions
    /\ promotions' = promotions + 1
    /\ points' = [c \in Customers |-> points[c] + Reward]
    /\ granted' = [c \in Customers |-> granted[c] + Reward]
    /\ UNCHANGED <<membership, spent, basket, sales, pc, arg>>

(* SubscriptionService saves a new membership, and no other column.        *)
ChangeMembership(c) ==
    /\ \E m \in Tiers \ {membership[c]} : membership' = [membership EXCEPT ![c] = m]
    /\ UNCHANGED <<points, promotions, granted, spent, basket, sales, pc, arg>>

-----------------------------------------------------------------------------
(* An awaited call throws, or the process dies.  The transaction of an     *)
(* order that is not committed is rolled back; nothing else is.            *)
Abort(r) ==
    /\ Faults
    /\ pc[r] # "idle"
    /\ order' = [i \in Intents |-> IF i = arg[r].intent THEN "none" ELSE order[i]]
    /\ Finish(r)
    /\ UNCHANGED <<wallet, basket, bill, sold>>

Arrive(r) ==
    \E c \in Customers :
        \/ \E spend \in Spends \cup {0} : PayRead(r, c, spend)
        \/ \E p \in Products :
              RemoveRead(r, c, p) \/ \E quantity \in Quantities : AddRead(r, c, p, quantity)

Continue(r) ==
    \/ \E line \in Lines : PriceLine(r, line)
    \/ PayCharge(r) \/ PaySave(r)
    \/ OrderCreate(r) \/ OrderClear(r) \/ OrderCommit(r)
    \/ AddCount(r) \/ AddFind(r) \/ AddSave(r) \/ AddRate(r)
    \/ RemoveSave(r) \/ RemoveDestroy(r)

Next ==
    \/ \E r \in Requests : Arrive(r) \/ Continue(r) \/ Abort(r)
    \/ \E i \in Intents, line \in Lines : RecordPurchase(i, line)
    \/ \E c \in Customers : ClearCart(c) \/ ChangeMembership(c)
    \/ HolidayPromotion

Spec == Init /\ [][Next]_vars

FairSpec ==
    /\ Spec
    /\ \A r \in Requests : WF_vars(Continue(r))
    /\ \A i \in Intents, line \in Lines : WF_vars(RecordPurchase(i, line))

=============================================================================
