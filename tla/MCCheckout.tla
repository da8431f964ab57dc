----------------------------- MODULE MCCheckout -----------------------------
(* Instances of Checkout for TLC.                                          *)
EXTENDS CheckoutProperties, TLC

CONSTANTS a, r1, r2, i1, i2, p1, p2, p3

OneCustomer == {a}
OneHandler == {r1}
TwoHandlers == {r1, r2}
OneIntent == {i1}
TwoIntents == {i1, i2}
OneProduct == {p1}
ThreeProducts == {p1, p2, p3}
Nothing == {}
One == {1}
All == {100}
FreeAndPremium == {"free", "premium"}

(* Bounds: checkouts while no cart is in use, or carts of customers who    *)
(* have one membership and one checkout without points.                    *)
NoCarts ==
    /\ \A r \in Requests : arg[r].product = None
    /\ \A p \in Products : addToCartRate[p] = 0 /\ created[p] = 0

CartsMostly ==
    /\ promotions = 0 /\ \A c \in Customers : membership[c] = "free" /\ spent[c] = 0
    /\ Cardinality({i \in Intents : bill[i] # NoBill}) <= 1
    /\ \A i \in Intents, line \in Lines : sold[i][line] = 0
    /\ \A r \in Requests : arg[r].product = None => arg[r].amount = 0 /\ arg[r].member = "free"

PointsOrCarts == NoCarts \/ CartsMostly

Symmetry == Permutations(Requests) \cup Permutations(Intents) \cup Permutations(Products)

=============================================================================
