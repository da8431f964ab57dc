------------------------- MODULE CheckoutProperties -------------------------
(***************************************************************************)
(* What is claimed of module Checkout.                                     *)
(***************************************************************************)
EXTENDS Checkout

-----------------------------------------------------------------------------
(* However handlers interleave and wherever they die.                      *)

(* A balance written from points read long ago may forget what others have *)
(* written meanwhile, points gained as well as points spent.  Even so no   *)
(* customer gets below what is left of the welcome points, nor above all   *)
(* that was ever granted.                                                  *)
PointsWithinHistory == \A c \in Customers :
    Welcome - spent[c] <= points[c] /\ points[c] <= granted[c]

(* A balance is never negative, though processPayment checks it only when  *)
(* it reads the customer, several awaited calls before it writes.          *)
PointsNeverNegative == \A c \in Customers : points[c] >= 0

(* Purchase rows exist for committed orders only, and committed orders for *)
(* charges only.                                                           *)
SalesAreCharged == \A i \in Intents :
    /\ order[i] # "none" => bill[i] # NoBill
    /\ (\E line \in Lines : sold[i][line] > 0) => order[i] = "committed"

(* Lost updates of addItemToCart and removeItemFromCart never leave more   *)
(* of a product in a cart than was put into it.                            *)
CartNotInflated == \A c \in Customers, p \in Products : cart[c][p] <= added[c][p]

(* addToCartRate never counts more than the rows that were created.        *)
RateNotInflated == \A p \in Products : addToCartRate[p] <= created[p]

(* CART_ITEM_LIMIT is exceeded at most by the handlers that passed the     *)
(* check together.                                                         *)
CartOverflowBounded == \A c \in Customers :
    Cardinality(RowsIn(c)) <= CartItemLimit + Cardinality(Requests) - 1

-----------------------------------------------------------------------------
(* Why they hold: the inductive invariant.                                 *)

Paying   == {"pay.price", "pay.charge", "pay.save", "order.create", "order.clear", "order.commit"}
Charged  == {"pay.save", "order.create", "order.clear", "order.commit"}
Carting  == {"add.count", "add.find", "add.save", "add.rate", "remove.save", "remove.destroy"}

(* A handler that pays has read a balance within the history of its        *)
(* customer, which covers what it takes off.  Once the charge is made,     *)
(* what it takes off is part of the history.                               *)
PayersRemember == \A r \in Requests :
    /\ pc[r] \in Paying => arg[r].customer \in Customers
    /\ pc[r] \in {"pay.price", "pay.charge", "pay.save"} =>
          arg[r].amount <= arg[r].seen /\ arg[r].seen <= granted[arg[r].customer]
    /\ pc[r] \in {"pay.price", "pay.charge"} =>
          Welcome - spent[arg[r].customer] <= arg[r].seen
    /\ pc[r] = "pay.save" =>
          Welcome - spent[arg[r].customer] <= arg[r].seen - arg[r].amount

(* A handler of a cart has read numbers that the history has reached.      *)
CartersRemember == \A r \in Requests : pc[r] \in Carting =>
    /\ arg[r].customer \in Customers
    /\ arg[r].product \in Products
    /\ pc[r] \in {"add.count", "add.find"} => arg[r].seen <= created[arg[r].product]
    /\ pc[r] = "add.rate" => arg[r].seen + 1 <= created[arg[r].product]
    /\ pc[r] \in {"add.save", "remove.save"} => arg[r].seen <= added[arg[r].customer][arg[r].product]
    /\ pc[r] = "remove.save" => arg[r].seen >= 1

(* A charge is in the hands of at most one handler, and its order is not   *)
(* committed before that handler ends.                                     *)
ChargesInHand ==
    /\ \A r \in Requests :
          /\ pc[r] \in Charged <=> arg[r].intent # None
          /\ arg[r].intent # None =>
                bill[arg[r].intent] # NoBill /\ order[arg[r].intent] # "committed"
    /\ \A r, s \in Requests : arg[r].intent = arg[s].intent /\ arg[r].intent # None => r = s

(* A handler that passed the check of the limit has its row ahead of it,   *)
(* and only the last of them to be checked can have found the cart full    *)
(* but for one.                                                            *)
Passed(c) == {r \in Requests : pc[r] = "add.find" /\ arg[r].customer = c}

RowsAreCounted == \A c \in Customers :
    Cardinality(RowsIn(c)) + Cardinality(Passed(c)) <= CartItemLimit + Cardinality(Requests) - 1

IInv ==
    /\ TypeOK
    /\ PointsWithinHistory
    /\ PointsNeverNegative
    /\ PayersRemember
    /\ CartNotInflated
    /\ RateNotInflated
    /\ CartersRemember
    /\ SalesAreCharged
    /\ ChargesInHand

-----------------------------------------------------------------------------
(* When nothing fails.                                                     *)

(* A charge becomes an order with all its purchase rows.                   *)
ChargesSettle == \A i \in Intents :
    bill[i] # NoBill ~> order[i] = "committed" /\ \A line \in Lines : sold[i][line] = Copies

-----------------------------------------------------------------------------
(* When handlers run one at a time, and nobody else grants points.         *)

(* Between two handlers the balance is what was granted less what was      *)
(* spent.                                                                  *)
LedgerExact == (\A r \in Requests : pc[r] = "idle") =>
    \A c \in Customers : points[c] = granted[c] - spent[c]

(* What is owed to the balance while the handler that charged has yet to   *)
(* save it, and what it read still holds.                                  *)
OneByOne == Promotions = 0 /\ ~Faults /\ \A r, s \in Requests : r = s

BooksBalance ==
    /\ \A r \in Requests :
          /\ pc[r] \in {"pay.price", "pay.charge", "pay.save"} => arg[r].seen = points[arg[r].customer]
          /\ pc[r] = "pay.save" =>
                LET c == arg[r].customer IN points[c] = granted[c] - spent[c] + arg[r].amount
    /\ \A c \in Customers :
          (\A r \in Requests : pc[r] = "pay.save" => arg[r].customer # c) =>
              points[c] = granted[c] - spent[c]

-----------------------------------------------------------------------------
(* What the code says of itself and does not keep.                         *)

(* "Cannot pass more loyalty points than you have available".              *)
PointsSpentOnce == \A c \in Customers : spent[c] <= granted[c]

(* The purchase rows of an item carry the price of that item.              *)
PricesMatch == \A i \in Intents : bill[i] # NoBill =>
    \A line \in Lines : PurchasePrice(i, line) = line

=============================================================================
