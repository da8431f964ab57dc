------------------------------ MODULE Analytics -----------------------------
(***************************************************************************)
(* AnalyticsService and AnalyticsController: figures and reports on sales, *)
(* each read by several queries, one after the other and in no             *)
(* transaction, while orders go on; and the files that reports are.        *)
(*                                                                         *)
(* Every purchase and every order is worth one unit of money.  Orders are  *)
(* placed and moved on as OrderLifecycle has it, but for handlers of       *)
(* orders that overlap, which overwrite a status with an older decision.   *)
(***************************************************************************)
EXTENDS Requests, Sequences

CONSTANTS
    Buyers,     \* customers
    Orders,     \* bound: orders that may be placed
    Items,      \* products that are sold
    CategoryOf, \* of every item
    CategoryPage, \* how many categories a sales report lists: 50
    Files       \* bound: reports that may be made

ASSUME AnalyticsAssumption == 
    /\ IsFiniteSet(Buyers) /\ IsFiniteSet(Orders) /\ IsFiniteSet(Items)
    /\ CategoryPage \in Nat \ {0}

VARIABLES
    status, safeShipping, \* of the orders
    buyer,     \* orders.customerId
    bought,    \* the table purchases: pairs of an order and an item
    customers, \* customers who exist
    items,     \* products that are not destroyed
    stocked,   \* those in stock
    file,      \* of each slot: a report, its type and its state
    overwritten \* history: orders overwritten since a handler counted all orders

salesVars == <<status, safeShipping, buyer, bought, customers, items, stocked>>
analyticsVars == <<salesVars, file, overwritten>>

Life == INSTANCE OrderLifecycle

Placed == {o \in Orders : status[o] # "absent"}
PurchasesOf(o) == {b \in bought : b[1] = o}
SoldItems == {b[2] : b \in bought}
PageSize == 10

(* The statuses in the order in which a sales report reads them.           *)
ReportedStatuses == <<"pending", "shipped", "awaiting-pickup", "delivered",
                      "refunded", "partially-refunded", "uncollected">>

(* Statuses that are decided on after an order was read, and of those the  *)
(* ones that take purchases away.                                          *)
Refunded == {"refunded", "partially-refunded"}
Decided == {"shipped", "awaiting-pickup", "delivered", "uncollected"} \cup Refunded

(* Types of reports: those that the handler knows, and those that its      *)
(* route lets through.                                                     *)
KnownTypes == {"sales", "stock", "purchases", "orders", "customer-purchases", "customer-orders"}
RouteTypes == {"sales", "stock", "purchases", "orders", "customer_purchases", "customer_orders"}
Getters ==
    {"products-revenue", "revenue", "average", "product-purchases", "category", "customer-category",
     "top-by-orders", "top-by-purchases", "customer-total", "customer-products", "categories",
     "conversion", "acquisition", "repeat", "add-to-cart", "abandonment", "carts"}
Deletions == {"one", "type", "neither"}

NoFile == [type |-> "none", state |-> "none"]
FileStates == {"opening", "there", "unlinking", "deleted"}

AnalyticsSteps ==
    {"report.admin", "report.none", "sales.products", "sales.revenue", "sales.count",
     "sales.categories", "sales.statuses", "stock.in", "stock.out", "purchases.count",
     "purchases.groups", "orders.status", "report.customer", "report.write", "customer.products",
     "customer.count", "customer.sum", "figure", "top.groups", "top.count",
     "conversion.customers", "conversion.orders", "repeat.returning", "repeat.customers",
     "report.access", "report.unlink", "reports.read", "report.neither"}

(* whole, part: two figures of one answer that should agree; sold, shared: *)
(* two more; next: the status to read next.                                *)
AnalyticsArgs ==
    [type : KnownTypes \cup RouteTypes \cup Getters \cup Deletions, customer : Buyers \cup {None},
     kind : RouteTypes, among : SUBSET Buyers, filtered : BOOLEAN, file : Files \cup {None},
     next : 1..Len(ReportedStatuses),
     whole : Nat, part : Nat, sold : Nat, shared : Nat]
Query(type, c) ==
    [type |-> type, customer |-> c, kind |-> "sales", among |-> {}, filtered |-> TRUE,
     file |-> None, next |-> 1,
     whole |-> 0, part |-> 0, sold |-> 0, shared |-> 0]

AnalyticsOK ==
    /\ status \in [Orders -> {ReportedStatuses[k] : k \in DOMAIN ReportedStatuses} \cup {"absent"}]
    /\ safeShipping \in [Orders -> BOOLEAN]
    /\ buyer \in [Orders -> Buyers \cup {None}]
    /\ bought \subseteq Placed \X Items
    /\ customers \subseteq Buyers /\ {buyer[o] : o \in Orders} \subseteq customers \cup {None}
    /\ stocked \subseteq items /\ items \subseteq Items
    /\ file \in [Files -> {NoFile} \cup [type : KnownTypes, state : FileStates]]
    /\ overwritten \in [Requests -> SUBSET Orders]

AnalyticsInit ==
    /\ Life!Init
    /\ buyer = [o \in Orders |-> None]
    /\ bought = {}
    /\ customers = Buyers
    /\ items = Items /\ stocked = Items
    /\ file = [f \in Files |-> NoFile]
    /\ overwritten = [r \in Requests |-> {}]

-----------------------------------------------------------------------------
(* What the rest of the shop does meanwhile.                               *)

OrderPlaced ==
    /\ \E o \in Orders, c \in customers, some \in (SUBSET items) \ {{}} :
          /\ Life!Place(o)
          /\ buyer' = [buyer EXCEPT ![o] = c]
          /\ bought' = bought \cup {o} \X some
    /\ UNCHANGED <<customers, items, stocked, file, overwritten, requestVars>>

OrderMoved ==
    /\ \E o \in Orders : Life!Ship(o) \/ Life!AwaitPickup(o) \/ Life!HandOver(o)
                         \/ Life!PickUp(o) \/ Life!GiveUp(o)
    /\ UNCHANGED <<buyer, bought, customers, items, stocked, file, overwritten, requestVars>>

(* A refund destroys purchases of the order, one, some or all of them.     *)
OrderRefunded ==
    /\ \E o \in Orders :
          /\ Life!Refund(o)
          /\ \E lost \in SUBSET PurchasesOf(o) : bought' = bought \ lost
    /\ UNCHANGED <<buyer, customers, items, stocked, file, overwritten, requestVars>>

(* A handler that has read the order's status earlier saves the one it had *)
(* decided on, whatever the status is by then: markOrder and               *)
(* handleRefundRequest, when they overlap with another.                    *)
OrderOverwritten ==
    /\ \E o \in Orders, s \in Decided :
          /\ status[o] \in Decided
          /\ status' = [status EXCEPT ![o] = s]
          /\ \E lost \in SUBSET (IF s \in Refunded THEN PurchasesOf(o) ELSE {}) : bought' = bought \ lost
          /\ overwritten' = [r \in Requests |-> overwritten[r] \cup {o}]
    /\ UNCHANGED <<safeShipping, buyer, customers, items, stocked, file, requestVars>>

(* The foreign key sets orders.customerId to NULL.                         *)
CustomerDeleted ==
    /\ \E c \in customers :
          /\ customers' = customers \ {c}
          /\ buyer' = [o \in Orders |-> IF buyer[o] = c THEN None ELSE buyer[o]]
    /\ UNCHANGED <<status, safeShipping, bought, items, stocked, file, overwritten, requestVars>>

ItemChanged ==
    /\ \E i \in items :
          \/ items' = items \ {i} /\ stocked' = stocked \ {i}
          \/ /\ stocked' = IF i \in stocked THEN stocked \ {i} ELSE stocked \cup {i}
             /\ UNCHANGED items
    /\ UNCHANGED <<status, safeShipping, buyer, bought, customers, file, overwritten, requestVars>>

(* A file that was to be written is opened, or one to be deleted goes.     *)
FileDone ==
    /\ \E f \in Files :
          \/ file[f].state = "opening" /\ file' = [file EXCEPT ![f].state = "there"]
          \/ file[f].state = "unlinking" /\ file' = [file EXCEPT ![f].state = "deleted"]
    /\ UNCHANGED <<salesVars, overwritten, requestVars>>

FirstStep(type) ==
    CASE type = "sales" -> "sales.products"
      [] type = "stock" -> "stock.in"
      [] type \in {"purchases", "product-purchases"} -> "purchases.count"
      [] type = "orders" -> "orders.status"
      [] type \in {"customer-purchases", "customer-orders"} -> "report.customer"
      [] type \in {"top-by-orders", "top-by-purchases"} -> "top.groups"
      [] type = "customer-total" -> "customer.count"
      [] type = "customer-products" -> "customer.products"
      [] type = "conversion" -> "conversion.customers"
      [] type = "repeat" -> "repeat.returning"
      [] OTHER -> "figure"

-----------------------------------------------------------------------------
(* generateReport.  A type that no case matches makes no report; it is     *)
(* answered like one, and the log throws at its name.                      *)

GenerateReport(r, type, c) ==
    /\ Begin(r, Query(type, c), IF type \in KnownTypes THEN "report.admin" ELSE "report.none")
    /\ UNCHANGED analyticsVars

NoReport(r) ==
    /\ At(r, "report.none")
    /\ Respond(r, Created, "doomed") /\ UNCHANGED wrote
    /\ UNCHANGED analyticsVars

(* An orders report without a status, and one about no customer, are       *)
(* refused.  Then getAdminData, which does not find an administrator who   *)
(* has been deleted.                                                       *)
GetAdminData(r) ==
    LET type == arg[r].type IN
    /\ At(r, "report.admin")
    /\ \/ type \notin {"sales", "stock", "purchases"} /\ Answer(r, BadRequest)
       \/ Answer(r, NotFound)
       \/ Goto(r, FirstStep(type))
    /\ UNCHANGED analyticsVars

(* initializeReportPDF opens the file, without waiting for it.             *)
InitializeReportPDF(r) ==
    /\ At(r, "report.write")
    /\ \E f \in Files :
          /\ file[f] = NoFile
          /\ file' = [file EXCEPT ![f] = [type |-> arg[r].type, state |-> "opening"]]
    /\ WriteAnswerLog(r, Created)
    /\ UNCHANGED <<salesVars, overwritten>>

-----------------------------------------------------------------------------
(* generateSalesReport                                                     *)

(* The sum of no rows is NULL, which has no toFixed (or, from Sequelize    *)
(* of another version, 0).                                                 *)
Sum(r, rows, a, step) ==
    \/ Learn(r, a, step)
    \/ rows = {} /\ Answer(r, ServerError)

SalesProducts(r) ==
    /\ At(r, "sales.products")
    /\ Sum(r, bought, [arg[r] EXCEPT !.sold = Cardinality(bought)], "sales.revenue")
    /\ UNCHANGED analyticsVars

SalesRevenue(r) ==
    /\ At(r, "sales.revenue")
    /\ Sum(r, Placed, arg[r], "sales.count")
    /\ UNCHANGED analyticsVars

(* Orders are counted; then come the average and the purchases, of which   *)
(* nothing is said here.                                                   *)
SalesCount(r) ==
    /\ At(r, "sales.count")
    /\ Learn(r, [arg[r] EXCEPT !.whole = Cardinality(Placed)], "sales.categories")
    /\ overwritten' = [overwritten EXCEPT ![r] = {}]
    /\ UNCHANGED <<salesVars, file>>

(* getPurchasesPerCategory: purchases of destroyed products are a group of *)
(* their own.  A server that has ONLY_FULL_GROUP_BY refuses the query.     *)
(* One page of the groups is read, those with the most purchases first; a  *)
(* group of destroyed products counts as none.  Its revenue is that of the *)
(* rows of each group.                                                     *)
GroupOf(i) == IF i \in items THEN CategoryOf[i] ELSE None
CategoryGroups == {GroupOf(i) : i \in SoldItems}
RevenueOf(groups) == Cardinality({row \in groups \X bought : GroupOf(row[2][2]) = row[1]})
PurchaseCount(g) == IF g = None THEN 0 ELSE RevenueOf({g})
IsPage(page) ==
    /\ page \subseteq CategoryGroups
    /\ Cardinality(page) <= CategoryPage
    /\ page # CategoryGroups => Cardinality(page) = CategoryPage
    /\ \A g \in page, h \in CategoryGroups \ page : PurchaseCount(g) >= PurchaseCount(h)

SalesCategories(r) ==
    /\ At(r, "sales.categories")
    /\ \/ \E page \in SUBSET CategoryGroups :
             IsPage(page) /\ Learn(r, [arg[r] EXCEPT !.shared = RevenueOf(page)], "sales.statuses")
       \/ Answer(r, ServerError)
    /\ UNCHANGED analyticsVars

OfStatus(s) == Cardinality({o \in Orders : status[o] = s})

(* Delivered orders are counted before shipped ones: faulty.               *)
SalesStatusesBackwards(r) ==
    LET a == arg[r]
        b == [a EXCEPT !.part = @ + OfStatus(ReportedStatuses[Len(ReportedStatuses) + 1 - a.next])]
    IN
    /\ At(r, "sales.statuses")
    /\ IF a.next = Len(ReportedStatuses)
       THEN Learn(r, b, "report.write")
       ELSE Learn(r, [b EXCEPT !.next = @ + 1], "sales.statuses")
    /\ UNCHANGED analyticsVars

(* getOrdersByStatus, once for each.                                       *)
SalesStatuses(r) ==
    LET a == arg[r]
        b == [a EXCEPT !.part = @ + OfStatus(ReportedStatuses[a.next])]
    IN
    /\ At(r, "sales.statuses")
    /\ IF a.next = Len(ReportedStatuses)
       THEN Learn(r, b, "report.write")
       ELSE Learn(r, [b EXCEPT !.next = @ + 1], "sales.statuses")
    /\ UNCHANGED analyticsVars

-----------------------------------------------------------------------------
(* The other reports                                                       *)

StockIn(r) ==
    /\ At(r, "stock.in")
    /\ Learn(r, [arg[r] EXCEPT !.part = Cardinality(stocked)], "stock.out")
    /\ UNCHANGED analyticsVars

StockOut(r) ==
    /\ At(r, "stock.out")
    /\ Learn(r, [arg[r] EXCEPT !.part = @ + Cardinality(items \ stocked)], "report.write")
    /\ UNCHANGED analyticsVars

(* getTotalProductPurchases: the report asks for as many products as there *)
(* are purchases; a product that is destroyed has no name to print, if it  *)
(* is on the page.  A filter that is left out is NaN, which is no SQL.     *)
PurchasesCount(r) ==
    /\ At(r, "purchases.count")
    /\ Learn(r, [arg[r] EXCEPT !.whole = Cardinality(bought)], "purchases.groups")
    /\ UNCHANGED analyticsVars

PurchasesGroups(r) ==
    LET a == arg[r]
        groups == Cardinality(SoldItems)
        lost == a.whole > 0 /\ ~ SoldItems \subseteq items
    IN
    /\ At(r, "purchases.groups")
    /\ \/ (~a.filtered \/ lost) /\ Answer(r, ServerError)
       \/ /\ a.type = "purchases" /\ ~lost
          /\ Learn(r, [a EXCEPT !.part = IF groups <= a.whole THEN groups ELSE a.whole],
                   "report.write")
       \/ a.type = "product-purchases" /\ a.filtered /\ Answer(r, Found)
    /\ UNCHANGED analyticsVars

OrdersStatus(r) ==
    /\ At(r, "orders.status")
    /\ Goto(r, "report.write")
    /\ UNCHANGED analyticsVars

ReportCustomer(r) ==
    LET a == arg[r] IN
    /\ At(r, "report.customer")
    /\ IF a.customer \notin customers
       THEN Answer(r, NotFound)
       ELSE Goto(r, IF a.type = "customer-purchases" THEN "customer.products" ELSE "customer.count")
    /\ UNCHANGED analyticsVars

(* getTotalProductPurchasesForCustomer: the join with the order is not a   *)
(* required one, and the purchases of everybody are counted.               *)
CustomerProducts(r) ==
    /\ At(r, "customer.products")
    /\ IF arg[r].type = "customer-purchases" THEN Goto(r, "report.write") ELSE Answer(r, Found)
    /\ UNCHANGED analyticsVars

(* getTotalOrdersByCustomer and getTotalOrderRecordsByCustomer             *)
OrdersOf(c) == {o \in Orders : buyer[o] = c}

CustomerCount(r) ==
    LET a == arg[r] IN
    /\ At(r, "customer.count")
    /\ Learn(r, [a EXCEPT !.whole = Cardinality(OrdersOf(a.customer))], "customer.sum")
    /\ UNCHANGED analyticsVars

CustomerSum(r) ==
    LET a == [arg[r] EXCEPT !.part = Cardinality(OrdersOf(arg[r].customer))] IN
    /\ At(r, "customer.sum")
    /\ IF a.type = "customer-orders" THEN Learn(r, a, "report.write") ELSE AnswerWith(r, a, Found)
    /\ UNCHANGED analyticsVars

-----------------------------------------------------------------------------
(* The figures that are asked for one at a time.                           *)

Getter(r, type, c, filtered, step) ==
    /\ Begin(r, [Query(type, c) EXCEPT !.filtered = filtered], step)
    /\ UNCHANGED analyticsVars

(* What the ones that take one query, or several of which the first one    *)
(* decides, may answer.                                                    *)

SumAnswers(rows) == IF rows = {} THEN {Found, ServerError} ELSE {Found}

TotalProductsRevenue == SumAnswers(bought)
TotalRevenue == SumAnswers(Placed)

(* getAverageOrderValue, getCartAbandonmentRate, getPopulatedCarts and the *)
(* two of acquisition: 0, or a division by zero, is an answer.             *)
Always == {Found}

CategoryWithMostPurchases == IF bought = {} THEN {ServerError} ELSE {Found}
CategoryWithMostPurchasesByCustomer == IF bought = {} THEN {NotFound} ELSE {Found}

(* A product that is not found is a server error.                          *)
AddToCartRate == IF items = Items THEN {Found} ELSE {Found, ServerError}

(* With the filters, where the server takes the query.                     *)
PurchasesPerCategory(filtered) == IF filtered THEN {Found, ServerError} ELSE {ServerError}

FigureAnswers(a) ==
    CASE a.type = "products-revenue" -> TotalProductsRevenue
      [] a.type = "revenue" -> TotalRevenue
      [] a.type \in {"average", "abandonment", "carts", "acquisition"} -> Always
      [] a.type = "category" -> CategoryWithMostPurchases
      [] a.type = "customer-category" -> CategoryWithMostPurchasesByCustomer
      [] a.type = "add-to-cart" -> AddToCartRate
      [] a.type = "categories" -> PurchasesPerCategory(a.filtered)

Figure(r) ==
    /\ At(r, "figure")
    /\ \E code \in FigureAnswers(arg[r]) : Answer(r, code)
    /\ UNCHANGED analyticsVars

(* getTopCustomers: a page of them, and then how many there are.  Orders   *)
(* that have lost their customer are one customer.                         *)
CustomersOf(orders) == {buyer[o] : o \in orders}
TopCustomers(type) == CustomersOf(IF type = "top-by-orders" THEN Placed ELSE {b[1] : b \in bought})
FirstPage(n) == IF n <= PageSize THEN n ELSE PageSize

TopGroups(r) ==
    LET n == Cardinality(TopCustomers(arg[r].type)) IN
    /\ At(r, "top.groups")
    /\ Learn(r, [arg[r] EXCEPT !.part = FirstPage(n)], "top.count")
    /\ UNCHANGED analyticsVars

TopCount(r) ==
    /\ At(r, "top.count")
    /\ AnswerWith(r, [arg[r] EXCEPT !.whole = Cardinality(TopCustomers(arg[r].type))], Found)
    /\ UNCHANGED analyticsVars

(* getConversionRate: of the customers that were read, those with orders.  *)
ConversionCustomers(r) ==
    /\ At(r, "conversion.customers")
    /\ Learn(r, [arg[r] EXCEPT !.whole = Cardinality(customers), !.among = customers],
             "conversion.orders")
    /\ UNCHANGED analyticsVars

ConversionOrders(r) ==
    LET converted == CustomersOf(Placed) \cap arg[r].among IN
    /\ At(r, "conversion.orders")
    /\ AnswerWith(r, [arg[r] EXCEPT !.part = Cardinality(converted)], Found)
    /\ UNCHANGED analyticsVars

(* getRepeatPurchaseRate, with getReturningCustomers first.                *)
Returning == {c \in Buyers \cup {None} : Cardinality({o \in Placed : buyer[o] = c}) > 1}

RepeatReturning(r) ==
    /\ At(r, "repeat.returning")
    /\ Learn(r, [arg[r] EXCEPT !.part = Cardinality(Returning)], "repeat.customers")
    /\ UNCHANGED analyticsVars

RepeatCustomers(r) ==
    /\ At(r, "repeat.customers")
    /\ AnswerWith(r, [arg[r] EXCEPT !.whole = Cardinality(customers)], Found)
    /\ UNCHANGED analyticsVars

-----------------------------------------------------------------------------
(* deleteReport: one by its name, all of a type, or, with neither or both, *)
(* an answer whose body throws after it was sent, which ends the process.  *)

DeleteReport(r, deletion, type, f) ==
    /\ Begin(r, [Query(deletion, None) EXCEPT !.file = f, !.kind = type],
             CASE deletion = "one" -> "report.access"
               [] deletion = "type" -> "reports.read"
               [] deletion = "neither" -> "report.neither")
    /\ UNCHANGED analyticsVars

NeitherNameNorType(r) ==
    /\ At(r, "report.neither")
    /\ Respond(r, BadRequest, "doomed") /\ UNCHANGED wrote
    /\ UNCHANGED analyticsVars

IsThere(f) == file[f].state \in {"there", "unlinking"}

ReportAccess(r) ==
    /\ At(r, "report.access")
    /\ IF IsThere(arg[r].file) THEN Goto(r, "report.unlink") ELSE Answer(r, NotFound)
    /\ UNCHANGED analyticsVars

(* Another handler may have deleted it meanwhile.                          *)
ReportUnlink(r) ==
    LET f == arg[r].file IN
    /\ At(r, "report.unlink")
    /\ \/ /\ IsThere(f)
          /\ file' = [file EXCEPT ![f].state = "deleted"]
          /\ WriteAnswerLog(r, Deleted)
       \/ ~IsThere(f) /\ Answer(r, ServerError) /\ UNCHANGED file
    /\ UNCHANGED <<salesVars, overwritten>>

(* Files whose names hold the name of the type, those of customers with    *)
(* the others.  The answer does not wait for them to go.                   *)
Includes(type) ==
    CASE type = "purchases" -> {"purchases", "customer-purchases"}
      [] type = "orders" -> {"orders", "customer-orders"}
      [] type = "customer_purchases" -> {"customer-purchases"}
      [] type = "customer_orders" -> {"customer-orders"}
      [] OTHER -> {type}

ReportsRead(r) ==
    LET found == {f \in Files : IsThere(f) /\ file[f].type \in Includes(arg[r].kind)} IN
    /\ At(r, "reports.read")
    /\ \/ found = {} /\ Answer(r, NotFound) /\ UNCHANGED file
       \/ /\ found # {}
          /\ file' = [f \in Files |->
                IF f \in found THEN [file[f] EXCEPT !.state = "unlinking"] ELSE file[f]]
          /\ WriteAnswerLog(r, Deleted)
    /\ UNCHANGED <<salesVars, overwritten>>

-----------------------------------------------------------------------------
FiguresArrive(r) == \E c \in Buyers :
    \/ \E type \in KnownTypes \cup RouteTypes : GenerateReport(r, type, c)
    \/ \E type \in Getters : Getter(r, type, c, TRUE, FirstStep(type))
    \/ \E type \in {"product-purchases", "categories"} : Getter(r, type, c, FALSE, FirstStep(type))

DeletionsArrive(r) ==
    \/ \E f \in Files : DeleteReport(r, "one", "sales", f)
    \/ \E type \in RouteTypes : DeleteReport(r, "type", type, None)
    \/ DeleteReport(r, "neither", "sales", None)

AnalyticsContinue(r) ==
    \/ NoReport(r) \/ GetAdminData(r) \/ InitializeReportPDF(r)
    \/ SalesProducts(r) \/ SalesRevenue(r) \/ SalesCount(r) \/ SalesCategories(r) \/ SalesStatuses(r)
    \/ StockIn(r) \/ StockOut(r) \/ PurchasesCount(r) \/ PurchasesGroups(r) \/ OrdersStatus(r)
    \/ ReportCustomer(r) \/ CustomerProducts(r) \/ CustomerCount(r) \/ CustomerSum(r)
    \/ Figure(r) \/ TopGroups(r) \/ TopCount(r) \/ ConversionCustomers(r) \/ ConversionOrders(r)
    \/ RepeatReturning(r) \/ RepeatCustomers(r)
    \/ ReportAccess(r) \/ ReportUnlink(r) \/ ReportsRead(r) \/ NeitherNameNorType(r)

AnalyticsOutside ==
    \/ OrderPlaced \/ OrderMoved \/ OrderRefunded \/ OrderOverwritten
    \/ CustomerDeleted \/ ItemChanged \/ FileDone

=============================================================================
