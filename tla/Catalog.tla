------------------------------- MODULE Catalog ------------------------------
(***************************************************************************)
(* ProductService and ProductController: categories and products, whose    *)
(* destruction is paranoid (the row stays, marked), the jobs that remove   *)
(* exclusive products when their time is over, the hash                    *)
(* ExclusiveProductRemovalJobs that names a job for every such product,    *)
(* and the sets of products that wait to be promoted.  Prices, pictures    *)
(* and descriptions are left out: a name stands for all that identifies.   *)
(***************************************************************************)
EXTENDS Requests

CONSTANTS
    Categories, \* bound: categories that may be created
    Products,   \* bound: products that may be created
    Jobs,       \* bound: jobs that may be added to the removal queue
    Names,      \* names of categories and products
    Horizon,    \* bound: the last moment
    MaxViews,   \* bound: views of a product
    Threshold   \* products that set a promotion off

ASSUME CatalogAssumption ==
    /\ Horizon \in Nat /\ MaxViews \in Nat /\ Threshold \in Nat \ {0}
    /\ IsFiniteSet(Jobs) /\ None \notin Jobs

VARIABLES
    now,
    category,  \* of each slot: "none", "live" or "destroyed", and its name
    product,   \* of each slot: a product, or NoProduct
    job,       \* of each slot: a job, or NoJob
    entry,     \* the hash ExclusiveProductRemovalJobs
    promo,     \* the sets newProdArrivalsPromo and prodDiscountsPromo
    viewings,  \* history: how often a product has been viewed
    renamed,   \* history: something was renamed
    early      \* history: products a job has removed before their time

catalogVars == <<now, category, product, job, entry, promo, viewings, renamed, early>>

Kinds == {"newArrival", "discount"}
Moments == 1..Horizon
NoMoment == 0

NoCategory == [state |-> "none", name |-> None]
NoProduct == [state |-> "none", name |-> None, category |-> None, due |-> NoMoment, views |-> 0]
NoJob == [state |-> "none", product |-> None, at |-> NoMoment]

States == {"none", "live", "destroyed"}

CategoryRows == [state : States, name : Names \cup {None}]
ProductRows ==
    [state : States, name : Names \cup {None}, category : Categories \cup {None},
     due : Moments \cup {NoMoment}, views : 0..MaxViews]
JobStates == {"none", "delayed", "active", "done", "failed"}
JobRows == [state : JobStates, product : Products \cup {None}, at : Moments \cup {NoMoment}]

CatalogSteps ==
    {"addCategory.find", "addCategory.insert", "add.category", "add.names", "add.create",
     "add.job", "add.record", "promo.sadd", "promo.count", "promo.members",
     "view.find", "view.save", "updateCategory.find", "updateCategory.save",
     "discount.find", "discount.save",
     "update.find", "update.save",
     "deleteCategory.find", "deleteCategory.destroy", "delete.find", "delete.destroy"}

CatalogArgs ==
    [category : Categories \cup {None}, product : Products \cup {None}, job : Jobs \cup {None},
     name : Names \cup {None}, due : Moments \cup {NoMoment},
     promote : BOOLEAN, kind : Kinds, views : 0..MaxViews, status : {Created, Found}]
NoDetails ==
    [category |-> None, product |-> None, job |-> None, name |-> None, due |-> NoMoment,
     promote |-> FALSE, kind |-> "newArrival", views |-> 0, status |-> Created]

CatalogOK ==
    /\ now \in 0..Horizon
    /\ category \in [Categories -> CategoryRows]
    /\ product \in [Products -> ProductRows]
    /\ job \in [Jobs -> JobRows]
    /\ entry \in [Products -> Jobs \cup {None}]
    /\ promo \in [Kinds -> SUBSET Products]
    /\ viewings \in [Products -> 0..MaxViews]
    /\ renamed \in BOOLEAN
    /\ early \in SUBSET Products

CatalogInit ==
    /\ now = 0
    /\ category = [c \in Categories |-> NoCategory]
    /\ product = [p \in Products |-> NoProduct]
    /\ job = [j \in Jobs |-> NoJob]
    /\ entry = [p \in Products |-> None]
    /\ promo = [k \in Kinds |-> {}]
    /\ viewings = [p \in Products |-> 0]
    /\ renamed = FALSE
    /\ early = {}

LiveCategory(c) == category[c].state = "live"
LiveProduct(p) == product[p].state = "live"

-----------------------------------------------------------------------------
(* addCategory: findOrCreate looks, and then inserts; no index forbids     *)
(* the same name twice.                                                    *)

AddCategory(r, n) ==
    /\ Begin(r, [NoDetails EXCEPT !.name = n], "addCategory.find")
    /\ UNCHANGED catalogVars

AddCategoryFind(r) ==
    /\ At(r, "addCategory.find")
    /\ \/ (\E c \in Categories : LiveCategory(c) /\ category[c].name = arg[r].name)
          /\ Answer(r, BadRequest)
       \/ (\A c \in Categories : LiveCategory(c) => category[c].name # arg[r].name)
          /\ Goto(r, "addCategory.insert")
    /\ UNCHANGED catalogVars

AddCategoryInsert(r) ==
    /\ At(r, "addCategory.insert")
    /\ \E c \in Categories :
          /\ category[c] = NoCategory
          /\ category' = [category EXCEPT ![c] = [state |-> "live", name |-> arg[r].name]]
    /\ WriteAnswerLog(r, Created)
    /\ UNCHANGED <<now, product, job, entry, promo, viewings, renamed, early>>

-----------------------------------------------------------------------------
(* addProductByCategoryId                                                  *)

AddProduct(r, c, n, due, promote) ==
    /\ Begin(r, [NoDetails EXCEPT !.category = c, !.name = n, !.due = due, !.promote = promote],
             "add.category")
    /\ UNCHANGED catalogVars

AddProductCategory(r) ==
    /\ At(r, "add.category")
    /\ IF LiveCategory(arg[r].category) THEN Goto(r, "add.names") ELSE Answer(r, NotFound)
    /\ UNCHANGED catalogVars

AddProductNames(r) ==
    LET taken == \E p \in Products : LiveProduct(p) /\ product[p].name = arg[r].name IN
    /\ At(r, "add.names")
    /\ IF taken THEN Answer(r, BadRequest) ELSE Goto(r, "add.create")
    /\ UNCHANGED catalogVars

AddProductCreate(r) ==
    /\ At(r, "add.create")
    /\ \E p \in Products :
          LET a == [arg[r] EXCEPT !.product = p] IN
          /\ product[p] = NoProduct
          /\ product' = [product EXCEPT ![p] =
                [NoProduct EXCEPT !.state = "live", !.name = a.name,
                                  !.category = a.category, !.due = a.due]]
          /\ \/ a.due # NoMoment /\ WriteLearn(r, a, "add.job")
             \/ a.due = NoMoment /\ a.promote /\ WriteLearn(r, a, "promo.sadd")
             \/ a.due = NoMoment /\ ~a.promote /\ WriteAnswerLog(r, Created)
    /\ UNCHANGED <<now, category, job, entry, promo, viewings, renamed, early>>

AddProductJob(r) ==
    /\ At(r, "add.job")
    /\ \E j \in Jobs :
          /\ job[j] = NoJob
          /\ job' = [job EXCEPT ![j] =
                [state |-> "delayed", product |-> arg[r].product, at |-> arg[r].due]]
          /\ WriteLearn(r, [arg[r] EXCEPT !.job = j], "add.record")
    /\ UNCHANGED <<now, category, product, entry, promo, viewings, renamed, early>>

AddProductRecord(r) ==
    /\ At(r, "add.record")
    /\ entry' = [entry EXCEPT ![arg[r].product] = arg[r].job]
    /\ IF arg[r].promote THEN WriteGoto(r, "promo.sadd") ELSE WriteAnswerLog(r, Created)
    /\ UNCHANGED <<now, category, product, job, promo, viewings, renamed, early>>

-----------------------------------------------------------------------------
(* handlePromotions.  At the threshold the products are read with a column *)
(* that the table does not have: the query fails, and so does the request, *)
(* every time from then on, for the set is never deleted.                  *)

PromoSadd(r) ==
    /\ At(r, "promo.sadd")
    /\ promo' = [promo EXCEPT ![arg[r].kind] = @ \cup {arg[r].product}]
    /\ WriteGoto(r, "promo.count")
    /\ UNCHANGED <<now, category, product, job, entry, viewings, renamed, early>>

PromoCount(r) ==
    /\ At(r, "promo.count")
    /\ IF Cardinality(promo[arg[r].kind]) >= Threshold
       THEN Goto(r, "promo.members")
       ELSE AnswerLog(r, arg[r].status)
    /\ UNCHANGED catalogVars

PromoMembers(r) ==
    /\ At(r, "promo.members")
    /\ Answer(r, ServerError)
    /\ UNCHANGED catalogVars

-----------------------------------------------------------------------------
(* viewProductById: with the products that are not exclusive only, or with *)
(* all of them.  The count is read, and saved incremented.                 *)

View(r, p) ==
    /\ Begin(r, [NoDetails EXCEPT !.product = p], "view.find")
    /\ UNCHANGED catalogVars

ViewFind(r) ==
    LET p == arg[r].product IN
    /\ At(r, "view.find")
    /\ \E exclusive \in BOOLEAN :
          IF LiveProduct(p) /\ (exclusive \/ product[p].due = NoMoment)
          THEN product[p].views < MaxViews
               /\ Learn(r, [arg[r] EXCEPT !.views = product[p].views], "view.save")
          ELSE Answer(r, NotFound)
    /\ UNCHANGED catalogVars

ViewSave(r) ==
    LET p == arg[r].product IN
    /\ At(r, "view.save")
    /\ viewings[p] < MaxViews
    /\ product' = [product EXCEPT ![p].views = arg[r].views + 1]
    /\ viewings' = [viewings EXCEPT ![p] = @ + 1]
    /\ WriteAnswer(r, Found)
    /\ UNCHANGED <<now, category, job, entry, promo, renamed, early>>

-----------------------------------------------------------------------------
(* updateCategoryById and setDiscountForProduct                            *)

UpdateCategory(r, c, n) ==
    /\ Begin(r, [NoDetails EXCEPT !.category = c, !.name = n], "updateCategory.find")
    /\ UNCHANGED catalogVars

UpdateCategoryFind(r) ==
    /\ At(r, "updateCategory.find")
    /\ IF LiveCategory(arg[r].category) THEN Goto(r, "updateCategory.save") ELSE Answer(r, NotFound)
    /\ UNCHANGED catalogVars

UpdateCategorySave(r) ==
    /\ At(r, "updateCategory.save")
    /\ category' = [category EXCEPT ![arg[r].category].name = arg[r].name]
    /\ renamed' = TRUE
    /\ WriteAnswerLog(r, Found)
    /\ UNCHANGED <<now, product, job, entry, promo, viewings, early>>

Discount(r, p, promote) ==
    /\ Begin(r, [NoDetails EXCEPT !.product = p, !.promote = promote, !.kind = "discount",
                                  !.status = Found], "discount.find")
    /\ UNCHANGED catalogVars

DiscountFind(r) ==
    /\ At(r, "discount.find")
    /\ IF LiveProduct(arg[r].product) THEN Goto(r, "discount.save") ELSE Answer(r, NotFound)
    /\ UNCHANGED catalogVars

(* A discount of zero is not promoted.                                     *)
DiscountSave(r) ==
    /\ At(r, "discount.save")
    /\ \/ arg[r].promote /\ WriteGoto(r, "promo.sadd")
       \/ WriteAnswerLog(r, Found)
    /\ UNCHANGED catalogVars

-----------------------------------------------------------------------------
(* updateProductById.  The service would also move the removal job to      *)
(* another moment, or remove it, but validateProductUpdate lets no moment  *)
(* through the route, and nobody else calls it.                            *)

UpdateProduct(r, p, n) ==
    /\ Begin(r, [NoDetails EXCEPT !.product = p, !.name = n], "update.find")
    /\ UNCHANGED catalogVars

UpdateFind(r) ==
    /\ At(r, "update.find")
    /\ IF LiveProduct(arg[r].product) THEN Goto(r, "update.save") ELSE Answer(r, NotFound)
    /\ UNCHANGED catalogVars

UpdateSave(r) ==
    LET p == arg[r].product IN
    /\ At(r, "update.save")
    /\ product' = [product EXCEPT ![p].name = arg[r].name]
    /\ renamed' = (renamed \/ arg[r].name # product[p].name)
    /\ WriteAnswerLog(r, Found)
    /\ UNCHANGED <<now, category, job, entry, promo, viewings, early>>

-----------------------------------------------------------------------------
(* deleteCategoryById and deleteProductById                                *)

DeleteCategory(r, c) ==
    /\ Begin(r, [NoDetails EXCEPT !.category = c], "deleteCategory.find")
    /\ UNCHANGED catalogVars

DeleteCategoryFind(r) ==
    /\ At(r, "deleteCategory.find")
    /\ IF LiveCategory(arg[r].category) THEN Goto(r, "deleteCategory.destroy") ELSE Answer(r, NotFound)
    /\ UNCHANGED catalogVars

InCategory(c) == {p \in Products : LiveProduct(p) /\ product[p].category = c}

(* The hook is not called, and the products stay: faulty.                  *)
DeleteCategoryDestroyAlone(r) ==
    /\ At(r, "deleteCategory.destroy")
    /\ category' = [category EXCEPT ![arg[r].category].state = "destroyed"]
    /\ WriteAnswerLog(r, Deleted)
    /\ UNCHANGED <<now, product, job, entry, promo, viewings, renamed, early>>

(* One transaction, with the hook that destroys the products.              *)
DeleteCategoryDestroy(r) ==
    LET c == arg[r].category IN
    /\ At(r, "deleteCategory.destroy")
    /\ category' = [category EXCEPT ![c].state = "destroyed"]
    /\ product' = [p \in Products |->
          IF p \in InCategory(c) THEN [product[p] EXCEPT !.state = "destroyed"] ELSE product[p]]
    /\ WriteAnswerLog(r, Deleted)
    /\ UNCHANGED <<now, job, entry, promo, viewings, renamed, early>>

DeleteProduct(r, p) ==
    /\ Begin(r, [NoDetails EXCEPT !.product = p], "delete.find")
    /\ UNCHANGED catalogVars

DeleteProductFind(r) ==
    /\ At(r, "delete.find")
    /\ IF LiveProduct(arg[r].product) THEN Goto(r, "delete.destroy") ELSE Answer(r, NotFound)
    /\ UNCHANGED catalogVars

Destroyed(p) == [product EXCEPT ![p].state = "destroyed"]

DeleteProductDestroy(r) ==
    /\ At(r, "delete.destroy")
    /\ product' = Destroyed(arg[r].product)
    /\ WriteAnswerLog(r, Deleted)
    /\ UNCHANGED <<now, category, job, entry, promo, viewings, renamed, early>>

-----------------------------------------------------------------------------
(* ExclusiveProductRemovalWorker.  A job whose product is gone fails, and  *)
(* fails again each time it is retried.                                    *)

RemovalFind(j) ==
    /\ job[j].state = "delayed"
    /\ job[j].at <= now
    /\ job' = [job EXCEPT ![j].state = IF LiveProduct(job[j].product) THEN "active" ELSE "failed"]
    /\ UNCHANGED <<now, category, product, entry, promo, viewings, renamed, early, requestVars>>

RemovalDestroy(j) ==
    LET p == job[j].product IN
    /\ job[j].state = "active"
    /\ job' = [job EXCEPT ![j].state = "done"]
    /\ product' = Destroyed(p)
    /\ early' = IF product[p].due = NoMoment \/ product[p].due > now THEN early \cup {p} ELSE early
    /\ UNCHANGED <<now, category, entry, promo, viewings, renamed, requestVars>>

Tick ==
    /\ now < Horizon
    /\ now' = now + 1
    /\ UNCHANGED <<category, product, job, entry, promo, viewings, renamed, early, requestVars>>

(* A job that was being run when the process died is run again.            *)
Stalled == job' = [j \in Jobs |->
    IF job[j].state = "active" THEN [job[j] EXCEPT !.state = "delayed"] ELSE job[j]]

Removing == {j \in Jobs : job[j].state = "active"}

-----------------------------------------------------------------------------
CatalogArrive(r) ==
    \/ \E n \in Names : AddCategory(r, n)
    \/ \E c \in Categories :
          \/ DeleteCategory(r, c)
          \/ \E n \in Names :
                \/ UpdateCategory(r, c, n)
                \/ \E due \in 0..Horizon, promote \in BOOLEAN : AddProduct(r, c, n, due, promote)
    \/ \E p \in Products :
          \/ View(r, p) \/ DeleteProduct(r, p)
          \/ \E promote \in BOOLEAN : Discount(r, p, promote)
          \/ \E n \in Names : UpdateProduct(r, p, n)

CatalogContinue(r) ==
    \/ AddCategoryFind(r) \/ AddCategoryInsert(r)
    \/ AddProductCategory(r) \/ AddProductNames(r) \/ AddProductCreate(r)
    \/ AddProductJob(r) \/ AddProductRecord(r)
    \/ PromoSadd(r) \/ PromoCount(r) \/ PromoMembers(r)
    \/ ViewFind(r) \/ ViewSave(r)
    \/ UpdateCategoryFind(r) \/ UpdateCategorySave(r) \/ DiscountFind(r) \/ DiscountSave(r)
    \/ UpdateFind(r) \/ UpdateSave(r)
    \/ DeleteCategoryFind(r) \/ DeleteCategoryDestroy(r)
    \/ DeleteProductFind(r) \/ DeleteProductDestroy(r)

CatalogWorker == \E j \in Jobs : RemovalFind(j) \/ RemovalDestroy(j)

=============================================================================
