----------------------------- MODULE MCAccounts -----------------------------
(* Instances of Accounts for TLC.                                          *)
EXTENDS AccountProperties, TLC

CONSTANTS u1, r1, r2, s1, s2

OneUser == {u1}
TwoHandlers == {r1, r2}
TwoCustomers == {s1, s2}

(* Bounds: handlers overlap, or fail, while only one token has been mailed; *)
(* and none has been by the time that Stripe has a second customer.         *)
Mailed == {t \in Tokens : mailed[t] > 0}

Bounded ==
    /\ ~alone => Cardinality(Mailed) <= 1
    /\ Cardinality({s \in Customers : stripe[s] # "none"}) > 1 => Mailed = {}

BoundedSpec == Init /\ [][Next /\ Bounded']_vars

Symmetry == Permutations(Requests) \cup Permutations(Customers)

=============================================================================
