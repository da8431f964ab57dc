------------------------------ MODULE MCOrders ------------------------------
(* Instances of Orders for TLC.                                            *)
EXTENDS OrdersProperties, TLC

CONSTANTS o1, q1, q2, r1, r2, c1

OneOrder == {o1}
OneHandler == {r1}
OneRow == {q1}
TwoRows == {q1, q2}
TwoHandlers == {r1, r2}
OneCourier == {c1}

SomeAmounts == {2, 3}
OneAmount == {2}
WithOrWithoutImage == BOOLEAN
WithImage == {TRUE}
WithoutImage == {FALSE}

Symmetry == Permutations(Rows) \cup Permutations(Requests)

=============================================================================
