--------------------------- MODULE MCMemberships ---------------------------
(* Instances of Memberships for TLC.                                       *)
EXTENDS MembershipProperties, TLC

CONSTANTS c1, c2, r1, r2, j1, j2

OneCustomer == {c1}
TwoCustomers == {c1, c2}
OneType == {"plus"}
TwoTypes == {"plus", "premium"}
OneHandler == {r1}
TwoHandlers == {r1, r2}
OneJob == {j1}
TwoJobs == {j1, j2}
LowerOrHigher == BOOLEAN
Higher == {FALSE}
NoneOrPartOrAll == {0, 1, 2}
Part == {1}

(* Bounds: once handlers have overlapped or failed there are one customer, *)
(* two subscriptions, one change of price and one job.                     *)
HaveCustomers == {arg[r].customer : r \in Requests} \cup {sub[s].customer : s \in Ids}
OneOfEach ==
    /\ Cardinality(HaveCustomers \ {None}) <= 1
    /\ Cardinality({s \in Ids : sub[s] # NoSub}) <= 2
    /\ \A t \in Types : priced[t] <= 1
    /\ Cardinality({j \in Jobs : job[j] # NoJob}) <= 1

AloneOrOneOfEach == alone \/ OneOfEach

Symmetry == Permutations(Customers) \cup Permutations(Requests) \cup Permutations(Jobs)

=============================================================================
