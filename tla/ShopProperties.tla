--------------------------- MODULE ShopProperties ---------------------------
(***************************************************************************)
(* What is claimed of module Shop.                                         *)
(***************************************************************************)
EXTENDS Shop

-----------------------------------------------------------------------------
(* However handlers interleave, and wherever the process dies.             *)

(* What is answered is what has been done: a request that is called bad,   *)
(* or about something that was not found, has changed nothing; and who is  *)
(* told that something was created or deleted had it done, with two        *)
(* exceptions in the code: reports of a type that generateReport does not  *)
(* know, which are "generated", and requests to delete no notification in  *)
(* particular, which are answered 204 though an id that is zero or no      *)
(* number has removed nothing.  Who was alone and had all of his           *)
(* notifications deleted has none left.                                    *)
NamesNoNotice(a) == a \in RatingArgs /\ a.which # "one"
AllDeleted(a, c) == c = Deleted /\ a \in RatingArgs /\ a.which = "all"

AnswersAreTrue == \A r \in Requests :
    /\ answer[r] \in Refusals => r \notin wrote
    /\ answer[r] \in {Created, Deleted} /\ pc[r] # "doomed" =>
          r \in wrote \/ NamesNoNotice(arg[r])
    /\ alone /\ AllDeleted(arg[r], answer[r]) => NoticesOf(arg[r].user) = {}

(* A sales report misses no order that it has counted, though orders go on *)
(* while it reads one status after the other, but those whose status was   *)
(* overwritten meanwhile by one that had been decided earlier; it may      *)
(* count one twice.  No more customers are converted than there are.  The  *)
(* figures of a handler that was alone agree with one another and with the *)
(* tables, and the revenue of the categories is all there is as long as    *)
(* they fit on a page; and the cost of shipping is the sum of the rates    *)
(* there are.                                                              *)
FigureIsSound(a, lost) ==
    /\ a.type = "sales" => a.part + Cardinality(lost) >= a.whole
    /\ a.type = "conversion" => a.part <= a.whole

FigureIsExact(a) ==
    /\ a.type = "sales" =>
          /\ a.part = Cardinality(Placed) /\ a.whole = a.part
          /\ a.sold = Cardinality(bought) /\ a.shared <= a.sold
          /\ Cardinality(CategoryGroups) <= CategoryPage => a.shared = a.sold
    /\ a.type = "stock" => a.part = Cardinality(items)
    /\ a.type = "purchases" => a.part = Cardinality(SoldItems)
    /\ a.type \in {"customer-total", "customer-orders"} => a.part = a.whole
    /\ a.type = "top-by-orders" => a.part = FirstPage(a.whole)

CostIsExact(a) == a.quote => a.rate = Cost(a.country, a.weight, a.safe)

FiguresAreSound == \A r \in Requests : answer[r] \in Successes =>
    /\ arg[r] \in AnalyticsArgs =>
          FigureIsSound(arg[r], overwritten[r]) /\ (alone => FigureIsExact(arg[r]))
    /\ arg[r] \in ShippingArgs /\ alone => CostIsExact(arg[r])

-----------------------------------------------------------------------------
(* While handlers have run one at a time, and the process has not died.    *)

(* A product that is to be removed has a job for its moment, and only such *)
(* a product.  It is removed no sooner.                                    *)
RemovalsAreOnTime ==
    /\ \A p \in Products : LiveProduct(p) =>
          /\ entry[p] # None <=> product[p].due # NoMoment
          /\ entry[p] # None =>
                job[entry[p]] = [state |-> "delayed", product |-> p, at |-> product[p].due]
    /\ \A j \in Jobs :
          job[j].state = "delayed" /\ LiveProduct(job[j].product) => entry[job[j].product] = j
    /\ early = {}

(* A product on sale has a category on sale; and until something is given  *)
(* another name, no two have the same.                                     *)
ProductsAreFound ==
    /\ \A p \in Products : LiveProduct(p) => LiveCategory(product[p].category)
    /\ ~renamed =>
          /\ \A p, q \in Products :
                LiveProduct(p) /\ LiveProduct(q) /\ product[p].name = product[q].name => p = q
          /\ \A c, d \in Categories :
                LiveCategory(c) /\ LiveCategory(d) /\ category[c].name = category[d].name => c = d

(* Every view of a product is counted.                                     *)
ViewsCount == \A p \in Products : product[p].views = viewings[p]

InOrder ==
    alone /\ deaths = 0 /\ Busy = {} /\ Removing = {} =>
        RemovalsAreOnTime /\ ProductsAreFound /\ ViewsCount

-----------------------------------------------------------------------------
(* What these rest on: what a handler that is about to take step s knows,  *)
(* a being what it has learnt and w whether it has written.                *)

(* Until they write, handlers of the catalogue only look.                  *)
CatalogReads == CatalogSteps \
    {"add.job", "add.record", "promo.sadd", "promo.count", "promo.members"}
ForProduct ==
    {"add.job", "add.record", "promo.sadd", "promo.count", "promo.members",
     "view.find", "view.save", "discount.find", "discount.save",
     "update.find", "update.save", "delete.find", "delete.destroy"}

CatalogSlot(s, a, w) ==
    /\ s \in CatalogSteps /\ a \in CatalogArgs
    /\ s \in ForProduct => a.product \in Products
    /\ s = "view.save" => a.views < MaxViews
    /\ s \in CatalogReads => ~w
    /\ s = "promo.count" => w

(* The others write with their last call.                                  *)
RatingSlot(s, a, w) ==
    /\ s \in RatingSteps /\ a \in RatingArgs /\ ~w
    /\ s \in {"rate.find", "rate.create"} => a.about \in Everything
    /\ s = "notice.all" => a.which = "all"
    /\ s = "notice.none" => a.which = "none"
    /\ s \notin {"notice.all", "notice.none"} => a.which = "one"

WithName == {"country.find", "country.insert", "country.get", "country.save",
           "city.country", "city.find", "city.insert", "city.get", "city.save"}
WithRate == {"country.find", "country.insert", "country.get", "country.save",
           "method.find", "method.save", "weight.find", "weight.save"}
ForCountry == {"city.country", "city.find", "city.insert", "cities.list",
               "country.get", "country.save", "country.destroy", "cost.country"}

ShippingSlot(s, a, w) ==
    /\ s \in ShippingSteps /\ a \in ShippingArgs /\ ~w
    /\ s \in WithName => a.name \in Places
    /\ s \in WithRate => a.rate \in Rates
    /\ s \in ForCountry => a.country \in Countries
    /\ s = "cost.safe" => a.rate <= 2 * MaxRate
    /\ s = "cost.weight" => a.rate <= 3 * MaxRate

(* The steps of each report, each figure and each deletion.                *)
StepsOf(type) ==
    CASE type = "sales" ->
            {"report.admin", "sales.products", "sales.revenue", "sales.count", "sales.categories",
             "sales.statuses", "report.write"}
      [] type = "stock" -> {"report.admin", "stock.in", "stock.out", "report.write"}
      [] type = "purchases" ->
            {"report.admin", "purchases.count", "purchases.groups", "report.write"}
      [] type = "orders" -> {"report.admin", "orders.status", "report.write"}
      [] type = "customer-purchases" ->
            {"report.admin", "report.customer", "customer.products", "report.write"}
      [] type = "customer-orders" ->
            {"report.admin", "report.customer", "customer.count", "customer.sum", "report.write"}
      [] type \in {"customer_purchases", "customer_orders"} -> {"report.none"}
      [] type = "product-purchases" -> {"purchases.count", "purchases.groups"}
      [] type \in {"top-by-orders", "top-by-purchases"} -> {"top.groups", "top.count"}
      [] type = "customer-total" -> {"customer.count", "customer.sum"}
      [] type = "customer-products" -> {"customer.products"}
      [] type = "conversion" -> {"conversion.customers", "conversion.orders"}
      [] type = "repeat" -> {"repeat.returning", "repeat.customers"}
      [] type = "one" -> {"report.access", "report.unlink"}
      [] type = "type" -> {"reports.read"}
      [] type = "neither" -> {"report.neither"}
      [] OTHER -> {"figure"}

AnalyticsSlot(s, a, w) ==
    s \in AnalyticsSteps /\ a \in AnalyticsArgs /\ ~w /\ s \in StepsOf(a.type)

EndSteps == {"log", "doomed", "answered"}
ShopArgs == CatalogArgs \cup RatingArgs \cup ShippingArgs \cup AnalyticsArgs

EndedSlot(s, a, c, w) ==
    /\ s \in EndSteps /\ a \in ShopArgs /\ c \in Statuses
    /\ c \in Refusals => ~w
    /\ c \in {Created, Deleted} /\ s # "doomed" => w \/ NamesNoNotice(a)

Slot(s, a, c, w) ==
    \/ s = "idle" /\ a = None /\ c = 0 /\ ~w
    \/ c = 0 /\ (CatalogSlot(s, a, w) \/ RatingSlot(s, a, w)
                  \/ ShippingSlot(s, a, w) \/ AnalyticsSlot(s, a, w))
    \/ EndedSlot(s, a, c, w)

Slots ==
    /\ pc = [r \in Requests |-> pc[r]]
    /\ arg = [r \in Requests |-> arg[r]]
    /\ answer = [r \in Requests |-> answer[r]]
    /\ wrote \subseteq Requests
    /\ \A r \in Requests : Slot(pc[r], arg[r], answer[r], r \in wrote)

(* A job that may yet run is that of a product.                            *)
JobsAreOfProducts == \A j \in Jobs :
    job[j].state \in {"delayed", "active"} => job[j].product \in Products

IInv == TypeOK /\ Slots /\ JobsAreOfProducts

-----------------------------------------------------------------------------
(* What a report or a figure has read by its step s, of orders that go on  *)
(* or, while it is alone, of tables that do not change; c is the answer.   *)

(* Orders that a sales report has yet to read, and those it has read, when *)
(* it comes to the k-th status.                                            *)
Unread(k) == {o \in Orders : \E m \in k..Len(ReportedStatuses) : status[o] = ReportedStatuses[m]}
Counted(k) == {o \in Orders : \E m \in 1..k - 1 : status[o] = ReportedStatuses[m]}

IsFigure(s, a, c) == s = "report.write" \/ (a \in AnalyticsArgs /\ c \in Successes)

SoundSlot(s, a, c, lost) ==
    /\ s \in {"report.admin", "sales.products", "sales.revenue", "sales.count", "sales.categories"}
          => a.part = 0 /\ a.next = 1
    /\ s \in {"sales.categories", "sales.statuses"} =>
          a.part + Cardinality(Unread(a.next) \cup lost) >= a.whole
    /\ s = "conversion.orders" => a.whole = Cardinality(a.among)
    /\ IsFigure(s, a, c) => FigureIsSound(a, lost)

ExactSlot(s, a, c) ==
    /\ s \in {"sales.revenue", "sales.count", "sales.categories", "sales.statuses"} =>
          a.sold = Cardinality(bought)
    /\ s \in {"sales.categories", "sales.statuses"} => a.whole = Cardinality(Placed)
    /\ s = "sales.statuses" =>
          /\ a.shared <= Cardinality(bought) /\ a.part = Cardinality(Counted(a.next))
          /\ Cardinality(CategoryGroups) <= CategoryPage => a.shared = Cardinality(bought)
    /\ s = "stock.out" => a.part = Cardinality(stocked)
    /\ s = "purchases.groups" => a.whole = Cardinality(bought)
    /\ s = "customer.sum" => a.whole = Cardinality(OrdersOf(a.customer))
    /\ s = "top.count" => a.part = FirstPage(Cardinality(TopCustomers(a.type)))
    /\ IsFigure(s, a, c) => FigureIsExact(a)

(* Of the cost of shipping, what has been added up.                        *)
CostSlot(s, a, c) ==
    /\ s \in ShippingSteps => ~a.quote
    /\ s \in {"cost.safe", "cost.weight"} => a.country \in Countries /\ LiveCountry(a.country)
    /\ s = "cost.safe" => a.safe /\ a.rate = country[a.country].rate + methodRate
    /\ s = "cost.weight" =>
          a.rate = country[a.country].rate + methodRate + (IF a.safe THEN safeRate ELSE 0)
    /\ a \in ShippingArgs /\ c \in Successes => CostIsExact(a)

OneAtATime == alone =>
    /\ \A q, r \in Busy : q = r
    /\ \A i, j \in Removing : i = j
    /\ Busy = {} \/ Removing = {}

FigureSlot(r) ==
    /\ SoundSlot(pc[r], arg[r], answer[r], overwritten[r])
    /\ alone => ExactSlot(pc[r], arg[r], answer[r]) /\ CostSlot(pc[r], arg[r], answer[r])

(* All notifications of a user that were to be deleted are.                *)
NoticesGone == alone => \A r \in Requests :
    AllDeleted(arg[r], answer[r]) => NoticesOf(arg[r].user) = {}

FiguresInv == OneAtATime /\ NoticesGone /\ \A r \in Requests : FigureSlot(r)

-----------------------------------------------------------------------------
(* What the catalogue is like while handlers run one at a time: as InOrder *)
(* says, but for the product that one of them has in hand, at its step s,  *)
(* and the job of it.                                                      *)
IsDue(p, j) == job[j] = [state |-> "delayed", product |-> p, at |-> product[p].due]
HasJob(p) == entry[p] \in Jobs /\ product[p].due # NoMoment /\ IsDue(p, entry[p])
HasNone(p) == entry[p] = None /\ product[p].due = NoMoment

Settled(inHand, handled) ==
    /\ \A p \in Products \ inHand : LiveProduct(p) => HasJob(p) \/ HasNone(p)
    /\ \A p \in Products : product[p].state = "none" => entry[p] = None
    /\ \A j \in Jobs : job[j].state = "delayed" =>
          /\ product[job[j].product].state # "none"
          /\ LiveProduct(job[j].product) /\ j \notin handled => entry[job[j].product] = j
    /\ early = {}

HasInHand == {"add.job", "add.record"}
HandlesJob == {"add.record"}

(* What it knows of the product and the job it has in hand.                *)
KnowsJob(s, a) ==
    /\ s \in {"add.job", "add.record"} =>
          /\ LiveProduct(a.product) /\ product[a.product].due = a.due
          /\ a.due # NoMoment /\ entry[a.product] = None
    /\ s = "add.record" => a.job \in Jobs /\ IsDue(a.product, a.job)

(* And of the rest.                                                        *)
KnowsRows(s, a) ==
    /\ s \in {"add.category", "add.names", "add.create"} => a.category \in Categories
    /\ s \in {"add.names", "add.create"} => LiveCategory(a.category)
    /\ s = "add.create" => \A p \in Products : LiveProduct(p) => product[p].name # a.name
    /\ s = "addCategory.insert" =>
          \A c \in Categories : LiveCategory(c) => category[c].name # a.name
    /\ s = "view.save" => a.views = product[a.product].views

RowsInOrder ==
    /\ ProductsAreFound /\ ViewsCount
    /\ \A p \in Products : LiveProduct(p) => product[p].category \in Categories

Tidy(s, a) ==
    /\ Settled(IF s \in HasInHand THEN {a.product} ELSE {}, IF s \in HandlesJob THEN {a.job} ELSE {})
    /\ KnowsJob(s, a) /\ KnowsRows(s, a) /\ RowsInOrder

TidyBut(j) ==
    LET p == job[j].product IN
    /\ Settled({p}, {}) /\ RowsInOrder
    /\ LiveProduct(p) /\ product[p].due # NoMoment /\ product[p].due <= now

TidyInv == alone /\ deaths = 0 =>
    /\ Busy = {} /\ Removing = {} => Tidy("idle", None)
    /\ \A r \in Busy : Tidy(pc[r], arg[r])
    /\ \A j \in Removing : TidyBut(j)

-----------------------------------------------------------------------------
(* What the code says of itself and does not keep.                         *)

(* "Report generated successfully": a report that was asked for, and is    *)
(* said to have been generated, has been.                                  *)
ReportsAreMade == \A r \in Requests :
    answer[r] = Created /\ arg[r] \in AnalyticsArgs => r \in wrote

=============================================================================
