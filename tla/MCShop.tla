------------------------------- MODULE MCShop -------------------------------
(* Instances of Shop for TLC.  Its components share the process and little *)
(* else: in a behaviour of SceneSpec the handlers of one component run.    *)
EXTENDS ShopProperties, TLC

CONSTANTS r1, r2, k1, p1, p2, j1, n1, n2, u1, x1, t1, q1, w1, w2, l1, b1, o1, i1, i2, f1

TwoHandlers == {r1, r2}
OneCategory == {k1}
TwoProducts == {p1, p2}
OneJob == {j1}
TwoNames == {n1, n2}
OneAuthor == {u1}
OneRating == {x1}
OneThing == {t1}
OneNotice == {q1}
TwoCountries == {w1, w2}
OneCity == {l1}
OneBuyer == {b1}
OneOrder == {o1}
TwoItems == {i1, i2}
OneFile == {f1}
OneOfEach == [i \in TwoItems |-> k1]
SomeLoads == {10, 25, 26, 51, 101}

VARIABLE scene

SceneInit == Init /\ scene \in {"catalog", "ratings", "shipping", "analytics"}

(* Bounds.  A product is viewed once by handlers that come one at a time,  *)
(* and so is one product promoted for its discount; the other one is not   *)
(* to be removed, and no time passes before there is a job.  The rates of  *)
(* one country and of two weights change.                                  *)
(* Once handlers have overlapped there is one product, one name, one       *)
(* country, and one rate that changes; once the process has died, only the *)
(* worker goes on.  Handlers that only read the tables of orders go beside *)
(* other events, not beside one another; and the stock and the reports     *)
(* change while there is no order.  Once an order has been overwritten,    *)
(* no customer or product goes, and what is read is a sales report.        *)
Disturbed == ~alone \/ deaths > 0

Stories ==
    (IF viewings[p1] > 0 THEN {"views"} ELSE {}) \cup (IF renamed THEN {"names"} ELSE {})
    \cup (IF job[j1] # NoJob \/ UNION {promo[k] : k \in Kinds} # {} THEN {"removal"} ELSE {})

CatalogBounded ==
    /\ promo["discount"] \subseteq {p1} /\ product[p2].views = 0 /\ product[p2].due = NoMoment
    /\ product[p2] # NoProduct => viewings[p1] = 0 /\ job[j1] = NoJob
    /\ viewings[p1] > 1 => Disturbed
    /\ now > 0 => job[j1] # NoJob
    /\ Cardinality(Stories) <= 1 /\ category[k1].name # n2
    /\ deaths > 0 => Stories \subseteq {"removal"}
    /\ Disturbed =>
          /\ product[p2] = NoProduct /\ promo["discount"] = {} /\ now <= 1
          /\ \A r \in Busy : arg[r].name # n2 /\ arg[r].product # p2 /\ arg[r].due <= 1

ShippingBounded ==
    /\ country[w2].rate <= 1 /\ weightRate["standard"] = 1
    /\ country[w1].rate + methodRate + safeRate + weightRate["heavy"] + weightRate["light"] > 5 =>
          \A t \in Cities : city[t] = NoCity
    /\ Disturbed =>
          /\ country[w1].rate <= 1 /\ country[w2] = NoCountry
          /\ methodRate = 1 /\ \A w \in RatedCategories : weightRate[w] = 1
          /\ \A r \in Busy : arg[r].name # n2

AnalyticsBounded ==
    /\ i2 \in items
    /\ Placed # {} => deaths = 0 /\ stocked = items /\ \A f \in Files : file[f].state \in {"none", "opening"}
    /\ Placed # {} /\ (\E f \in Files : file[f] # NoFile) =>
          \A r \in Busy : answer[r] # 0
    /\ customers = Buyers \/ items = Items
    /\ (\E r \in Requests : overwritten[r] # {}) =>
          customers = Buyers /\ items = Items /\ \A r \in Busy : arg[r].type = "sales"
    /\ Cardinality(Busy) > 1 =>
          /\ Placed = {} /\ items = Items
          /\ \A r \in Busy : arg[r].type \in {"stock"} \cup Deletions

Bounded ==
    /\ deaths > 0 => Busy = {}
    /\ scene = "catalog" => CatalogBounded
    /\ scene = "shipping" => ShippingBounded
    /\ scene = "analytics" => AnalyticsBounded

SceneNext ==
    /\ UNCHANGED scene
    /\ \/ scene = "catalog" /\ CatalogNext
       \/ scene = "ratings" /\ RatingsNext
       \/ scene = "shipping" /\ ShippingNext
       \/ scene = "analytics" /\ AnalyticsNext
       \/ HandlersEnd
    /\ Bounded'

SceneSpec == SceneInit /\ [][SceneNext]_<<vars, scene>>

Symmetry == Permutations(Requests)

=============================================================================
