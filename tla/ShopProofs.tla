----------------------------- MODULE ShopProofs -----------------------------
(***************************************************************************)
(* What is proved of the shop. The parts of module Shop share slots, the   *)
(* crash and alone, but no table, so each handler's step is looked at in   *)
(* its own part, and the rest is as it was. First the types and the        *)
(* answers (IInv), then what reports and figures have read (FiguresInv),   *)
(* then the catalogue while handlers run one at a time (TidyInv).          *)
(***************************************************************************)
EXTENDS ShopProperties, FiniteSetTheorems, TLAPS

-----------------------------------------------------------------------------
(* What a handler's step does to its slot, and to no other one.            *)
Moves(r, s, a, c, w) ==
    /\ pc'[r] = s /\ arg'[r] = a /\ answer'[r] = c /\ (r \in wrote' <=> w)
    /\ pc' = [q \in Requests |-> pc'[q]]
    /\ arg' = [q \in Requests |-> arg'[q]]
    /\ answer' = [q \in Requests |-> answer'[q]]
    /\ wrote' \subseteq Requests
    /\ deaths' = deaths
    /\ \A q \in Requests \ {r} :
          /\ pc'[q] = pc[q] /\ arg'[q] = arg[q] /\ answer'[q] = answer[q]
          /\ q \in wrote' <=> q \in wrote

(* What a slot holds is what the operators of Requests put there.          *)
LEMMA BeginMoves ==
    ASSUME Slots, NEW r \in Requests, NEW a, NEW s, Begin(r, a, s)
    PROVE  pc[r] = "idle" /\ Moves(r, s, a, answer[r], r \in wrote)
  BY DEF Slots, Begin, Moves

LEMMA LearnMoves ==
    ASSUME Slots, NEW r \in Requests, NEW a, NEW s, Learn(r, a, s)
    PROVE  Moves(r, s, a, answer[r], r \in wrote)
  BY DEF Slots, Learn, Moves

LEMMA GotoMoves ==
    ASSUME Slots, NEW r \in Requests, NEW s, Goto(r, s)
    PROVE  Moves(r, s, arg[r], answer[r], r \in wrote)
  BY LearnMoves DEF Goto

LEMMA WriteLearnMoves ==
    ASSUME Slots, NEW r \in Requests, NEW a, NEW s, WriteLearn(r, a, s)
    PROVE  Moves(r, s, a, answer[r], TRUE)
  BY DEF Slots, WriteLearn, Moves

LEMMA WriteGotoMoves ==
    ASSUME Slots, NEW r \in Requests, NEW s, WriteGoto(r, s)
    PROVE  Moves(r, s, arg[r], answer[r], TRUE)
  BY WriteLearnMoves DEF WriteGoto

LEMMA RespondMoves ==
    ASSUME Slots, NEW r \in Requests, NEW c, NEW s, Respond(r, c, s)
    PROVE  /\ UNCHANGED wrote => Moves(r, s, arg[r], c, r \in wrote)
           /\ wrote' = wrote \cup {r} => Moves(r, s, arg[r], c, TRUE)
  BY DEF Slots, Respond, Moves

LEMMA AnswerMoves ==
    ASSUME Slots, NEW r \in Requests, NEW c
    PROVE  /\ Answer(r, c) => Moves(r, "answered", arg[r], c, r \in wrote)
           /\ AnswerLog(r, c) => Moves(r, "log", arg[r], c, r \in wrote)
           /\ WriteAnswer(r, c) => Moves(r, "answered", arg[r], c, TRUE)
           /\ WriteAnswerLog(r, c) => Moves(r, "log", arg[r], c, TRUE)
  BY RespondMoves DEF Answer, AnswerLog, WriteAnswer, WriteAnswerLog

LEMMA AnswerWithMoves ==
    ASSUME Slots, NEW r \in Requests, NEW a, NEW c, AnswerWith(r, a, c)
    PROVE  Moves(r, "answered", a, c, r \in wrote)
  BY DEF Slots, AnswerWith, Moves

LEMMA FinishMoves ==
    ASSUME Slots, NEW r \in Requests, Finish(r)
    PROVE  Moves(r, "idle", None, 0, FALSE)
  BY DEF Slots, Finish, Moves

(* A slot is one of the components', or idle, or at its end.               *)
LEMMA SlotMoves ==
    ASSUME Slots, NEW r \in Requests, NEW s, NEW a, NEW c, NEW w, Moves(r, s, a, c, w),
           Slot(s, a, c, w)
    PROVE  Slots'
<1>1. Slot(s, a, c, r \in wrote')
  BY DEF Moves, Slot, EndedSlot, CatalogSlot, RatingSlot, ShippingSlot, AnalyticsSlot
<1>2. Slot(pc[r], arg[r], answer[r], r \in wrote)'
  BY <1>1 DEF Moves
<1>3. ASSUME NEW q \in Requests \ {r} PROVE Slot(pc[q], arg[q], answer[q], q \in wrote)'
  BY DEF Moves, Slots, Slot, EndedSlot, CatalogSlot, RatingSlot, ShippingSlot, AnalyticsSlot
<1>4. QED
  BY <1>2, <1>3 DEF Slots, Moves

(* The variables of the handlers keep their types.                         *)
AllSteps == CatalogSteps \cup RatingSteps \cup ShippingSteps \cup AnalyticsSteps

LEMMA SlotsTyped ==
    ASSUME Slots, alone \in BOOLEAN, deaths \in 0..Deaths
    PROVE  RequestsOK(AllSteps, ShopArgs)
<1>1. ASSUME NEW r \in Requests
      PROVE  /\ pc[r] \in AllSteps \cup {"idle", "log", "doomed", "answered"}
             /\ IF pc[r] = "idle" THEN arg[r] = None ELSE arg[r] \in ShopArgs
             /\ answer[r] \in Statuses \cup {0}
  <2>1. Slot(pc[r], arg[r], answer[r], r \in wrote)
    BY DEF Slots
  <2>2. "idle" \notin AllSteps
    BY DEF AllSteps, CatalogSteps, RatingSteps, ShippingSteps, AnalyticsSteps
  <2>3. "idle" \notin EndSteps /\ EndSteps = {"log", "doomed", "answered"}
    BY DEF EndSteps
  <2>4. QED
    BY <2>1, <2>2, <2>3
    DEF Slot, EndedSlot, CatalogSlot, RatingSlot, ShippingSlot, AnalyticsSlot, AllSteps, ShopArgs
<1>2. QED
  BY <1>1 DEF Slots, RequestsOK

(* The steps of the components are different ones.                         *)
LEMMA StepsDiffer ==
    /\ CatalogSteps \cap (RatingSteps \cup ShippingSteps \cup AnalyticsSteps) = {}
    /\ RatingSteps \cap (ShippingSteps \cup AnalyticsSteps) = {}
    /\ ShippingSteps \cap AnalyticsSteps = {}
    /\ ("idle" \notin AllSteps /\ EndSteps \cap AllSteps = {}) /\ "idle" \notin EndSteps
<1>1. CatalogSteps \cap (RatingSteps \cup ShippingSteps \cup AnalyticsSteps) = {}
  BY DEF CatalogSteps, RatingSteps, ShippingSteps, AnalyticsSteps
<1>2. RatingSteps \cap (ShippingSteps \cup AnalyticsSteps) = {}
  BY DEF RatingSteps, ShippingSteps, AnalyticsSteps
<1>3. ShippingSteps \cap AnalyticsSteps = {}
  BY DEF ShippingSteps, AnalyticsSteps
<1>4. "idle" \notin AllSteps /\ EndSteps \cap AllSteps = {}
  BY DEF AllSteps, CatalogSteps, RatingSteps, ShippingSteps, AnalyticsSteps, EndSteps
<1>5. QED
  BY <1>1, <1>2, <1>3, <1>4 DEF EndSteps

LEMMA SlotAt ==
    ASSUME Slots, NEW r \in Requests
    PROVE  /\ pc[r] \in CatalogSteps => answer[r] = 0 /\ CatalogSlot(pc[r], arg[r], r \in wrote)
           /\ pc[r] \in RatingSteps => answer[r] = 0 /\ RatingSlot(pc[r], arg[r], r \in wrote)
           /\ pc[r] \in ShippingSteps => answer[r] = 0 /\ ShippingSlot(pc[r], arg[r], r \in wrote)
           /\ pc[r] \in AnalyticsSteps => answer[r] = 0 /\ AnalyticsSlot(pc[r], arg[r], r \in wrote)
           /\ pc[r] = "idle" => answer[r] = 0 /\ r \notin wrote
           /\ pc[r] \in EndSteps => EndedSlot(pc[r], arg[r], answer[r], r \in wrote)
<1>1. Slot(pc[r], arg[r], answer[r], r \in wrote)
  BY DEF Slots
<1>2. QED
  BY <1>1, StepsDiffer
  DEF Slot, EndedSlot, CatalogSlot, RatingSlot, ShippingSlot, AnalyticsSlot, AllSteps

(* A handler answers: a refusal before it has written, or what it has done *)
(* with its last call.                                                     *)
Reads == CatalogReads \cup RatingSteps \cup ShippingSteps \cup AnalyticsSteps

LEMMA ReadsAre ==
    ASSUME Slots, NEW r \in Requests, pc[r] \in AllSteps
    PROVE  arg[r] \in ShopArgs /\ (pc[r] \in Reads => r \notin wrote)
  BY SlotAt
  DEF AllSteps, Reads, ShopArgs, CatalogSlot, RatingSlot, ShippingSlot, AnalyticsSlot, CatalogReads

LEMMA Codes ==
    /\ Successes \subseteq Statuses /\ Refusals \subseteq Statuses /\ ServerError \in Statuses
    /\ Created \in Successes /\ Found \in Successes /\ Deleted \in Successes
    /\ BadRequest \in Refusals /\ NotFound \in Refusals
    /\ Refusals \cap {Created, Deleted, Found, ServerError} = {}
    /\ Created # Found /\ Deleted # Found /\ ServerError \notin Successes /\ 0 \notin Statuses
  BY DEF Statuses, Successes, Refusals, Created, Found, Deleted, BadRequest, NotFound, ServerError

LEMMA Refuses ==
    ASSUME Slots, NEW r \in Requests, pc[r] \in Reads,
           NEW c \in Refusals \cup {Found, ServerError}, Answer(r, c)
    PROVE  Slots'
<1>1. pc[r] \in AllSteps
  BY DEF Reads, AllSteps, CatalogReads
<1>2. EndedSlot("answered", arg[r], c, r \in wrote)
  BY <1>1, ReadsAre, Codes DEF EndedSlot, EndSteps, Refusals, Created, Deleted, Found, ServerError,
     BadRequest, NotFound
<1>3. QED
  BY <1>2, AnswerMoves, SlotMoves DEF Slot

LEMMA Fails ==
    ASSUME Slots, NEW r \in Requests, pc[r] \in AllSteps, Answer(r, ServerError)
    PROVE  Slots'
<1>1. EndedSlot("answered", arg[r], ServerError, r \in wrote)
  BY ReadsAre, Codes DEF EndedSlot, EndSteps, Created, Deleted, ServerError
<1>2. QED
  BY <1>1, AnswerMoves, SlotMoves DEF Slot

LEMMA Succeeds ==
    ASSUME Slots, NEW r \in Requests, pc[r] \in AllSteps, NEW c \in Successes,
           WriteAnswer(r, c) \/ WriteAnswerLog(r, c)
    PROVE  Slots'
<1>1. EndedSlot("answered", arg[r], c, TRUE) /\ EndedSlot("log", arg[r], c, TRUE)
  BY ReadsAre, Codes DEF EndedSlot, EndSteps, Successes
<1>2. QED
  BY <1>1, AnswerMoves, SlotMoves DEF Slot

-----------------------------------------------------------------------------
(* The catalogue.                                                          *)
LEMMA CatalogRecords ==
    /\ NoDetails \in CatalogArgs
    /\ \A a \in CatalogArgs :
          /\ \A p \in Products : [a EXCEPT !.product = p] \in CatalogArgs
          /\ \A j \in Jobs : [a EXCEPT !.job = j] \in CatalogArgs
          /\ \A n \in 0..MaxViews : [a EXCEPT !.views = n] \in CatalogArgs
<1>1. NoDetails \in CatalogArgs
  BY CatalogAssumption DEF NoDetails, CatalogArgs, Kinds, Moments, NoMoment
<1>2. QED
  BY <1>1 DEF CatalogArgs

LEMMA CatalogQueries ==
    /\ \A n \in Names : [NoDetails EXCEPT !.name = n] \in CatalogArgs
    /\ \A p \in Products : [NoDetails EXCEPT !.product = p] \in CatalogArgs
    /\ \A c \in Categories : [NoDetails EXCEPT !.category = c] \in CatalogArgs
    /\ \A c \in Categories, n \in Names :
          /\ [NoDetails EXCEPT !.category = c, !.name = n] \in CatalogArgs
          /\ \A due \in 0..Horizon, x \in BOOLEAN :
                [NoDetails EXCEPT !.category = c, !.name = n, !.due = due, !.promote = x]
                   \in CatalogArgs
    /\ \A p \in Products, x \in BOOLEAN :
          [NoDetails EXCEPT !.product = p, !.promote = x, !.kind = "discount", !.status = Found]
             \in CatalogArgs
    /\ \A p \in Products, n \in Names :
          [NoDetails EXCEPT !.product = p, !.name = n] \in CatalogArgs
<1>1. 0..Horizon = Moments \cup {NoMoment}
  BY CatalogAssumption DEF Moments, NoMoment
<1>2. NoDetails \in CatalogArgs
  BY CatalogRecords
<1>3. QED
  BY <1>1, <1>2, ZenonT(60) DEF CatalogArgs, Kinds, NoDetails

LEMMA CatalogGoes ==
    ASSUME Slots, NEW r \in Requests, pc[r] \in CatalogSteps, NEW s \in CatalogSteps,
           s \in ForProduct => arg[r].product \in Products,
           s # "view.save", s # "promo.count", s \in CatalogReads => r \notin wrote,
           Goto(r, s)
    PROVE  Slots'
<1>1. CatalogSlot(s, arg[r], r \in wrote) /\ answer[r] = 0
  BY SlotAt DEF CatalogSlot
<1>2. QED
  BY <1>1, GotoMoves, SlotMoves DEF Slot

LEMMA CatalogWrites ==
    ASSUME Slots, NEW r \in Requests, pc[r] \in CatalogSteps, NEW s \in CatalogSteps \ CatalogReads,
           s \in ForProduct => arg[r].product \in Products,
           WriteGoto(r, s)
    PROVE  Slots'
<1>1. CatalogSlot(s, arg[r], TRUE) /\ answer[r] = 0
  BY SlotAt DEF CatalogSlot, CatalogReads
<1>2. QED
  BY <1>1, WriteGotoMoves, SlotMoves DEF Slot

LEMMA CatalogBegins ==
    ASSUME Slots, NEW r \in Requests, NEW a \in CatalogArgs, NEW s \in CatalogReads,
           s \in ForProduct => a.product \in Products, s # "view.save", Begin(r, a, s)
    PROVE  Slots'
<1>1. CatalogSlot(s, a, r \in wrote) /\ answer[r] = 0
  BY SlotAt, BeginMoves DEF CatalogSlot, CatalogReads
<1>2. QED
  BY <1>1, BeginMoves, SlotMoves DEF Slot

LEMMA CatalogArriveSlots ==
    ASSUME Slots, NEW r \in Requests, CatalogArrive(r)
    PROVE  Slots' /\ UNCHANGED catalogVars
<1> USE DEF CatalogReads, CatalogSteps, ForProduct
<1>1. ASSUME NEW n \in Names, AddCategory(r, n) PROVE Slots' /\ UNCHANGED catalogVars
  <2>1. [NoDetails EXCEPT !.name = n] \in CatalogArgs
    BY CatalogQueries
  <2>2. QED
    BY <1>1, <2>1, CatalogBegins DEF AddCategory
<1>2. ASSUME NEW c \in Categories, DeleteCategory(r, c) PROVE Slots' /\ UNCHANGED catalogVars
  <2>1. [NoDetails EXCEPT !.category = c] \in CatalogArgs
    BY CatalogQueries
  <2>2. QED
    BY <1>2, <2>1, CatalogBegins DEF DeleteCategory
<1>3. ASSUME NEW c \in Categories, NEW n \in Names, UpdateCategory(r, c, n)
      PROVE  Slots' /\ UNCHANGED catalogVars
  <2>1. [NoDetails EXCEPT !.category = c, !.name = n] \in CatalogArgs
    BY CatalogQueries
  <2>2. QED
    BY <1>3, <2>1, CatalogBegins DEF UpdateCategory
<1>4. ASSUME NEW c \in Categories, NEW n \in Names, NEW due \in 0..Horizon, NEW promote \in BOOLEAN,
             AddProduct(r, c, n, due, promote)
      PROVE  Slots' /\ UNCHANGED catalogVars
  <2>1. [NoDetails EXCEPT !.category = c, !.name = n, !.due = due, !.promote = promote]
           \in CatalogArgs
    BY CatalogQueries
  <2>2. QED
    BY <1>4, <2>1, CatalogBegins DEF AddProduct
<1>5. ASSUME NEW p \in Products, View(r, p) \/ DeleteProduct(r, p)
      PROVE  Slots' /\ UNCHANGED catalogVars
  <2> DEFINE a == [NoDetails EXCEPT !.product = p]
  <2>1. a \in CatalogArgs
    BY CatalogQueries
  <2>2. a.product = p
    BY DEF NoDetails
  <2> HIDE DEF a
  <2>3. View(r, p) => Begin(r, a, "view.find") /\ UNCHANGED catalogVars
    BY DEF View, a
  <2>4. DeleteProduct(r, p) => Begin(r, a, "delete.find") /\ UNCHANGED catalogVars
    BY DEF DeleteProduct, a
  <2>5. QED
    BY <1>5, <2>1, <2>2, <2>3, <2>4, CatalogBegins
<1>6. ASSUME NEW p \in Products, NEW promote \in BOOLEAN, Discount(r, p, promote)
      PROVE  Slots' /\ UNCHANGED catalogVars
  <2> DEFINE a == [NoDetails EXCEPT !.product = p, !.promote = promote, !.kind = "discount",
                                    !.status = Found]
  <2>1. a \in CatalogArgs
    BY CatalogQueries
  <2>2. a.product = p
    BY DEF NoDetails
  <2> HIDE DEF a
  <2>3. Begin(r, a, "discount.find") /\ UNCHANGED catalogVars
    BY <1>6 DEF Discount, a
  <2>4. QED
    BY <2>1, <2>2, <2>3, CatalogBegins
<1>7. ASSUME NEW p \in Products, NEW n \in Names, UpdateProduct(r, p, n)
      PROVE  Slots' /\ UNCHANGED catalogVars
  <2> DEFINE a == [NoDetails EXCEPT !.product = p, !.name = n]
  <2>1. a \in CatalogArgs
    BY CatalogQueries
  <2>2. a.product = p
    BY DEF NoDetails
  <2> HIDE DEF a
  <2>3. Begin(r, a, "update.find") /\ UNCHANGED catalogVars
    BY <1>7 DEF UpdateProduct, a
  <2>4. QED
    BY <2>1, <2>2, <2>3, CatalogBegins
<1>8. QED
  BY <1>1, <1>2, <1>3, <1>4, <1>5, <1>6, <1>7 DEF CatalogArrive

(* A handler of the catalogue that looks, and goes on or refuses.          *)
LEMMA CatalogLooks ==
    ASSUME Slots, NEW r \in Requests,
           \/ AddCategoryFind(r) \/ AddProductCategory(r) \/ AddProductNames(r)
           \/ UpdateCategoryFind(r) \/ DeleteCategoryFind(r)
           \/ DiscountFind(r) \/ UpdateFind(r) \/ DeleteProductFind(r)
    PROVE  Slots' /\ UNCHANGED catalogVars
<1>1. /\ pc[r] \in CatalogReads => pc[r] \in Reads /\ r \notin wrote
      /\ pc[r] \in CatalogSteps /\ pc[r] \in ForProduct => arg[r].product \in Products
  BY SlotAt DEF CatalogSlot, CatalogReads, Reads
<1>2. BadRequest \in Refusals /\ NotFound \in Refusals
  BY Codes
<1>3. CASE AddCategoryFind(r) \/ AddProductCategory(r) \/ AddProductNames(r)
  BY <1>1, <1>2, <1>3, Refuses, CatalogGoes
  DEF AddCategoryFind, AddProductCategory, AddProductNames, At, CatalogReads, CatalogSteps, ForProduct
<1>4. CASE UpdateCategoryFind(r) \/ DeleteCategoryFind(r)
  BY <1>1, <1>2, <1>4, Refuses, CatalogGoes
  DEF UpdateCategoryFind, DeleteCategoryFind, At, CatalogReads, CatalogSteps, ForProduct
<1>5. CASE DiscountFind(r) \/ DeleteProductFind(r)
  BY <1>1, <1>2, <1>5, Refuses, CatalogGoes
  DEF DiscountFind, DeleteProductFind, At, CatalogReads, CatalogSteps, ForProduct
<1>6. CASE UpdateFind(r)
  BY <1>1, <1>2, <1>6, Refuses, CatalogGoes
  DEF UpdateFind, At, CatalogReads, CatalogSteps, ForProduct
<1>7. QED
  BY <1>3, <1>4, <1>5, <1>6

(* ... or that learns something.                                           *)
LEMMA CatalogLearns ==
    ASSUME Slots, CatalogOK, NEW r \in Requests, ViewFind(r)
    PROVE  Slots' /\ UNCHANGED catalogVars
<1> DEFINE p == arg[r].product
           a == [arg[r] EXCEPT !.views = product[p].views]
<1>1. /\ pc[r] = "view.find" /\ pc[r] \in CatalogSteps /\ pc[r] \in Reads
      /\ pc[r] \in ForProduct /\ pc[r] \in CatalogReads
  BY DEF ViewFind, At, CatalogSteps, Reads, CatalogReads, ForProduct
<1>2. p \in Products /\ arg[r] \in CatalogArgs /\ answer[r] = 0 /\ r \notin wrote
  BY <1>1, SlotAt DEF CatalogSlot
<1>3. product[p].views \in 0..MaxViews
  BY <1>2 DEF CatalogOK, ProductRows
<1>4. a \in CatalogArgs /\ a.views = product[p].views /\ a.product = p
  BY <1>2, <1>3, CatalogRecords DEF CatalogArgs
<1> HIDE DEF a
<1>5. ASSUME product[p].views < MaxViews PROVE Slot("view.save", a, answer[r], r \in wrote)
  <2>1. CatalogSlot("view.save", a, r \in wrote)
    BY <1>2, <1>4, <1>5 DEF CatalogSlot, CatalogSteps
  <2>2. QED
    BY <2>1, <1>2 DEF Slot
<1>6. \/ product[p].views < MaxViews /\ Learn(r, a, "view.save")
      \/ Answer(r, NotFound)
  BY DEF ViewFind, a
<1>7. UNCHANGED catalogVars
  BY DEF ViewFind
<1>8. QED
  BY <1>1, <1>5, <1>6, <1>7, LearnMoves, SlotMoves, Refuses, Codes

(* handlePromotions.                                                       *)
LEMMA PromotionSlots ==
    ASSUME Slots, NEW r \in Requests, PromoSadd(r) \/ PromoCount(r) \/ PromoMembers(r)
    PROVE  Slots'
<1>1. CASE PromoSadd(r)
  <2>1. pc[r] = "promo.sadd" /\ pc[r] \in CatalogSteps /\ pc[r] \in ForProduct
    BY <1>1 DEF PromoSadd, At, CatalogSteps, ForProduct
  <2>2. arg[r].product \in Products
    BY <2>1, SlotAt DEF CatalogSlot
  <2>3. QED
    BY <1>1, <2>1, <2>2, CatalogWrites DEF PromoSadd, CatalogSteps, CatalogReads
<1>2. CASE PromoCount(r)
  <2>1. pc[r] = "promo.count" /\ pc[r] \in CatalogSteps /\ pc[r] \in ForProduct
    BY <1>2 DEF PromoCount, At, CatalogSteps, ForProduct
  <2>2. /\ arg[r].product \in Products /\ arg[r] \in CatalogArgs /\ r \in wrote
        /\ arg[r].status \in {Created, Found}
    BY <2>1, SlotAt DEF CatalogSlot, CatalogArgs
  <2>3. EndedSlot("log", arg[r], arg[r].status, r \in wrote)
    BY <2>2, Codes DEF EndedSlot, EndSteps, ShopArgs
  <2>4. CASE AnswerLog(r, arg[r].status)
    BY <2>3, <2>4, AnswerMoves, SlotMoves DEF Slot
  <2>5. CASE Goto(r, "promo.members")
    BY <2>1, <2>2, <2>5, CatalogGoes DEF CatalogSteps, CatalogReads
  <2>6. QED
    BY <1>2, <2>4, <2>5 DEF PromoCount
<1>3. CASE PromoMembers(r)
  BY <1>3, Fails DEF PromoMembers, At, AllSteps, CatalogSteps
<1>4. QED
  BY <1>1, <1>2, <1>3

(* A handler of the catalogue that writes: its slot ...                    *)
LEMMA CatalogWriteSlots ==
    ASSUME Slots, CatalogOK, NEW r \in Requests,
           \/ AddCategoryInsert(r) \/ AddProductRecord(r) \/ ViewSave(r)
           \/ UpdateCategorySave(r) \/ DiscountSave(r) \/ UpdateSave(r)
           \/ DeleteCategoryDestroy(r) \/ DeleteProductDestroy(r)
    PROVE  Slots'
<1>1. /\ pc[r] \in CatalogSteps => pc[r] \in AllSteps
      /\ pc[r] \in CatalogSteps /\ pc[r] \in ForProduct => arg[r].product \in Products
  BY SlotAt DEF CatalogSlot, AllSteps
<1>2. Created \in Successes /\ Found \in Successes /\ Deleted \in Successes
  BY Codes
<1>3. CASE AddCategoryInsert(r) \/ UpdateCategorySave(r) \/ UpdateSave(r) \/ ViewSave(r)
  BY <1>1, <1>2, <1>3, Succeeds
  DEF AddCategoryInsert, UpdateCategorySave, UpdateSave, ViewSave, At, CatalogSteps
<1>4. CASE DeleteCategoryDestroy(r) \/ DeleteProductDestroy(r)
  BY <1>1, <1>2, <1>4, Succeeds DEF DeleteCategoryDestroy, DeleteProductDestroy, At, CatalogSteps
<1>5. CASE AddProductRecord(r) \/ DiscountSave(r)
  BY <1>1, <1>2, <1>5, Succeeds, CatalogWrites
  DEF AddProductRecord, DiscountSave, At, CatalogSteps, CatalogReads, ForProduct
<1>6. QED
  BY <1>3, <1>4, <1>5

(* ... and the tables.                                                     *)
LEMMA CategoryRow ==
    ASSUME NEW x \in CategoryRows, NEW n \in Names \cup {None}
    PROVE  /\ [x EXCEPT !.name = n] \in CategoryRows
           /\ [x EXCEPT !.state = "destroyed"] \in CategoryRows
           /\ [state |-> "live", name |-> n] \in CategoryRows
  BY DEF CategoryRows, States

LEMMA ProductRow ==
    ASSUME NEW x \in ProductRows, NEW n \in Names \cup {None}, NEW d \in Moments \cup {NoMoment}
    PROVE  /\ [x EXCEPT !.name = n] \in ProductRows
           /\ [x EXCEPT !.state = "destroyed"] \in ProductRows
           /\ \A v \in 0..MaxViews : [x EXCEPT !.views = v] \in ProductRows
           /\ \A c \in Categories \cup {None} :
                 [NoProduct EXCEPT !.state = "live", !.name = n, !.category = c, !.due = d]
                    \in ProductRows
<1>1. 0 \in 0..MaxViews
  BY CatalogAssumption
<1>2. QED
  BY <1>1 DEF ProductRows, States, NoProduct

LEMMA JobRow ==
    ASSUME NEW x \in JobRows, NEW s \in JobStates, NEW d \in Moments \cup {NoMoment}
    PROVE  /\ [x EXCEPT !.state = s] \in JobRows
           /\ [x EXCEPT !.at = d] \in JobRows
           /\ \A p \in Products : [state |-> s, product |-> p, at |-> d] \in JobRows
  BY DEF JobRows

LEMMA CatalogArg ==
    ASSUME NEW a \in CatalogArgs
    PROVE  /\ a.category \in Categories \cup {None} /\ a.product \in Products \cup {None}
           /\ a.job \in Jobs \cup {None} /\ a.name \in Names \cup {None}
           /\ a.due \in Moments \cup {NoMoment} /\ a.kind \in Kinds /\ a.views \in 0..MaxViews
  BY DEF CatalogArgs

LEMMA CatalogArgAt ==
    ASSUME Slots, NEW r \in Requests, pc[r] \in CatalogSteps
    PROVE  arg[r] \in CatalogArgs /\ (pc[r] \in ForProduct => arg[r].product \in Products)
  BY SlotAt DEF CatalogSlot

LEMMA CategoriesTyped ==
    ASSUME Slots, CatalogOK, JobsAreOfProducts, NEW r \in Requests,
           AddCategoryInsert(r) \/ UpdateCategorySave(r) \/ DeleteCategoryDestroy(r)
    PROVE  CatalogOK' /\ JobsAreOfProducts'
<1>1. pc[r] \in CatalogSteps
  BY DEF AddCategoryInsert, UpdateCategorySave, DeleteCategoryDestroy, At, CatalogSteps
<1>2. arg[r].name \in Names \cup {None}
  BY <1>1, CatalogArgAt, CatalogArg
<1>3. category' \in [Categories -> CategoryRows]
  <2>1. \A c \in Categories :
           /\ [category EXCEPT ![c] = [state |-> "live", name |-> arg[r].name]]
                 \in [Categories -> CategoryRows]
    BY <1>2, CategoryRow DEF CatalogOK
  <2>2. \A c : /\ [category EXCEPT ![c].name = arg[r].name] \in [Categories -> CategoryRows]
               /\ [category EXCEPT ![c].state = "destroyed"] \in [Categories -> CategoryRows]
    BY <1>2, CategoryRow DEF CatalogOK
  <2>3. CASE AddCategoryInsert(r)
    BY <2>1, <2>3 DEF AddCategoryInsert
  <2>4. CASE UpdateCategorySave(r)
    BY <2>2, <2>4 DEF UpdateCategorySave
  <2>5. CASE DeleteCategoryDestroy(r)
    BY <2>2, <2>5 DEF DeleteCategoryDestroy
  <2>6. QED
    BY <2>3, <2>4, <2>5
<1>4. product' \in [Products -> ProductRows]
  <2>1. \A p \in Products : [product[p] EXCEPT !.state = "destroyed"] \in ProductRows
    BY ProductRow DEF CatalogOK, NoMoment
  <2>2. QED
    BY <2>1 DEF CatalogOK, AddCategoryInsert, UpdateCategorySave, DeleteCategoryDestroy
<1>5. /\ UNCHANGED <<now, job, entry, promo, viewings, early>>
      /\ renamed' \in BOOLEAN
  BY DEF CatalogOK, AddCategoryInsert, UpdateCategorySave, DeleteCategoryDestroy
<1>6. QED
  BY <1>3, <1>4, <1>5 DEF CatalogOK, JobsAreOfProducts

LEMMA ProductsTyped ==
    ASSUME Slots, CatalogOK, JobsAreOfProducts, NEW r \in Requests,
           ViewSave(r) \/ UpdateSave(r) \/ DeleteProductDestroy(r)
    PROVE  CatalogOK' /\ JobsAreOfProducts'
<1> DEFINE p == arg[r].product
<1>1. pc[r] \in CatalogSteps /\ pc[r] \in ForProduct
  BY DEF ViewSave, UpdateSave, DeleteProductDestroy, At, CatalogSteps, ForProduct
<1>2. p \in Products /\ arg[r] \in CatalogArgs
  BY <1>1, CatalogArgAt
<1>3. product' \in [Products -> ProductRows] /\ viewings' \in [Products -> 0..MaxViews]
  <2>1. CASE ViewSave(r)
    <3>1. arg[r].views + 1 \in 0..MaxViews
      <4>1. pc[r] = "view.save"
        BY <2>1 DEF ViewSave, At
      <4>2. arg[r].views < MaxViews
        BY <1>1, <4>1, SlotAt DEF CatalogSlot
      <4>3. QED
        BY <1>2, <4>2, CatalogArg, CatalogAssumption
    <3>2. [product[p] EXCEPT !.views = arg[r].views + 1] \in ProductRows
      BY <1>2, <3>1, ProductRow DEF CatalogOK
    <3>3. viewings[p] + 1 \in 0..MaxViews
      BY <1>2, <2>1, CatalogAssumption DEF ViewSave, CatalogOK
    <3>4. QED
      BY <1>2, <2>1, <3>2, <3>3 DEF ViewSave, CatalogOK
  <2>2. CASE UpdateSave(r)
    <3>1. [product[p] EXCEPT !.name = arg[r].name] \in ProductRows
      BY <1>2, CatalogArg, ProductRow DEF CatalogOK, NoMoment
    <3>2. QED
      BY <1>2, <2>2, <3>1 DEF UpdateSave, CatalogOK
  <2>3. CASE DeleteProductDestroy(r)
    <3>1. [product[p] EXCEPT !.state = "destroyed"] \in ProductRows
      BY <1>2, ProductRow DEF CatalogOK
    <3>2. QED
      BY <1>2, <2>3, <3>1 DEF DeleteProductDestroy, Destroyed, CatalogOK
  <2>4. QED
    BY <2>1, <2>2, <2>3
<1>4. UNCHANGED <<now, category, job, entry, promo, early>>
  BY DEF ViewSave, UpdateSave, DeleteProductDestroy
<1>5. renamed' \in BOOLEAN
  BY DEF ViewSave, UpdateSave, DeleteProductDestroy, CatalogOK
<1>6. QED
  BY <1>3, <1>4, <1>5 DEF CatalogOK, JobsAreOfProducts

LEMMA JobsTyped ==
    ASSUME Slots, CatalogOK, JobsAreOfProducts, NEW r \in Requests, AddProductRecord(r)
    PROVE  CatalogOK' /\ JobsAreOfProducts'
<1>1. pc[r] \in CatalogSteps /\ pc[r] \in ForProduct
  BY DEF AddProductRecord, At, CatalogSteps, ForProduct
<1>2. arg[r].product \in Products /\ arg[r].job \in Jobs \cup {None}
  BY <1>1, CatalogArgAt, CatalogArg
<1>3. entry' \in [Products -> Jobs \cup {None}]
  BY <1>2 DEF AddProductRecord, CatalogOK
<1>4. UNCHANGED <<now, category, product, job, promo, viewings, renamed, early>>
  BY DEF AddProductRecord
<1>5. QED
  BY <1>3, <1>4 DEF CatalogOK, JobsAreOfProducts

(* addProductByCategoryId: the row, and then the job.                      *)
LEMMA AddProductCreates ==
    ASSUME Slots, CatalogOK, JobsAreOfProducts, NEW r \in Requests, AddProductCreate(r)
    PROVE  Slots' /\ CatalogOK' /\ JobsAreOfProducts'
<1>1. pc[r] = "add.create" /\ pc[r] \in CatalogSteps /\ pc[r] \in AllSteps
  BY DEF AddProductCreate, At, CatalogSteps, AllSteps
<1>2. arg[r] \in CatalogArgs /\ answer[r] = 0
  BY <1>1, CatalogArgAt, SlotAt
<1> DEFINE b(p) == [arg[r] EXCEPT !.product = p]
<1>3. PICK p \in Products :
         /\ product' = [product EXCEPT ![p] =
               [NoProduct EXCEPT !.state = "live", !.name = b(p).name,
                                 !.category = b(p).category, !.due = b(p).due]]
         /\ \/ WriteLearn(r, b(p), "add.job")
            \/ WriteLearn(r, b(p), "promo.sadd")
            \/ WriteAnswerLog(r, Created)
  BY DEF AddProductCreate
<1> DEFINE a == b(p)
<1>4. a \in CatalogArgs /\ a.product = p
  BY <1>2, CatalogRecords DEF CatalogArgs
<1>5. product' = [product EXCEPT ![p] =
         [NoProduct EXCEPT !.state = "live", !.name = a.name, !.category = a.category, !.due = a.due]]
      /\ \/ WriteLearn(r, a, "add.job") \/ WriteLearn(r, a, "promo.sadd")
         \/ WriteAnswerLog(r, Created)
  BY <1>3
<1> HIDE DEF a
<1>6. Slots'
  <2>1. ASSUME NEW s \in {"add.job", "promo.sadd"} PROVE Slot(s, a, answer[r], TRUE)
    <3>1. CatalogSlot(s, a, TRUE)
      BY <1>4 DEF CatalogSlot, CatalogSteps, CatalogReads
    <3>2. QED
      BY <3>1, <1>2 DEF Slot
  <2>2. QED
    BY <1>1, <1>5, <2>1, WriteLearnMoves, SlotMoves, Succeeds, Codes
<1>7. product' \in [Products -> ProductRows]
  <2>1. product[p] \in ProductRows
    BY DEF CatalogOK
  <2>2. [NoProduct EXCEPT !.state = "live", !.name = a.name, !.category = a.category, !.due = a.due]
           \in ProductRows
    BY <1>4, <2>1, CatalogArg, ProductRow
  <2>3. QED
    BY <1>5, <2>2 DEF CatalogOK
<1>8. UNCHANGED <<now, category, job, entry, promo, viewings, renamed, early>>
  BY DEF AddProductCreate
<1>9. QED
  BY <1>6, <1>7, <1>8 DEF CatalogOK, JobsAreOfProducts

LEMMA AddProductJobs ==
    ASSUME Slots, CatalogOK, JobsAreOfProducts, NEW r \in Requests, AddProductJob(r)
    PROVE  Slots' /\ CatalogOK' /\ JobsAreOfProducts'
<1>1. pc[r] = "add.job" /\ pc[r] \in CatalogSteps /\ pc[r] \in ForProduct
  BY DEF AddProductJob, At, CatalogSteps, ForProduct
<1>2. arg[r] \in CatalogArgs /\ answer[r] = 0 /\ arg[r].product \in Products
  BY <1>1, CatalogArgAt, SlotAt
<1> DEFINE b(j) == [arg[r] EXCEPT !.job = j]
           new == [state |-> "delayed", product |-> arg[r].product, at |-> arg[r].due]
<1>3. PICK j \in Jobs : job' = [job EXCEPT ![j] = new] /\ WriteLearn(r, b(j), "add.record")
  BY DEF AddProductJob
<1> DEFINE a == b(j)
<1>4. a \in CatalogArgs /\ a.product = arg[r].product
  BY <1>2, CatalogRecords DEF CatalogArgs
<1>5. job' = [job EXCEPT ![j] = new] /\ WriteLearn(r, a, "add.record")
  BY <1>3
<1> HIDE DEF a
<1>6. CatalogSlot("add.record", a, TRUE)
  BY <1>2, <1>4 DEF CatalogSlot, CatalogSteps, CatalogReads
<1>7. Slots'
  BY <1>2, <1>5, <1>6, WriteLearnMoves, SlotMoves DEF Slot
<1>8. new \in JobRows /\ new.product \in Products
  <2>1. job[j] \in JobRows /\ "delayed" \in JobStates
    BY DEF CatalogOK, JobStates
  <2>2. QED
    BY <1>2, <2>1, CatalogArg, JobRow
<1> HIDE DEF new
<1>9. job' \in [Jobs -> JobRows] /\ JobsAreOfProducts'
  BY <1>5, <1>8 DEF CatalogOK, JobsAreOfProducts
<1>10. UNCHANGED <<now, category, product, entry, promo, viewings, renamed, early>>
  BY DEF AddProductJob
<1>11. QED
  BY <1>7, <1>9, <1>10 DEF CatalogOK

LEMMA PromoTyped ==
    ASSUME Slots, CatalogOK, JobsAreOfProducts, NEW r \in Requests, PromoSadd(r)
    PROVE  CatalogOK' /\ JobsAreOfProducts'
<1>1. pc[r] \in CatalogSteps /\ pc[r] \in ForProduct
  BY DEF PromoSadd, At, CatalogSteps, ForProduct
<1>2. arg[r].product \in Products /\ arg[r].kind \in Kinds
  BY <1>1, CatalogArgAt, CatalogArg
<1>3. promo' \in [Kinds -> SUBSET Products]
  BY <1>2 DEF PromoSadd, CatalogOK
<1>4. UNCHANGED <<now, category, product, job, entry, viewings, renamed, early>>
  BY DEF PromoSadd
<1>5. QED
  BY <1>3, <1>4 DEF CatalogOK, JobsAreOfProducts

LEMMA CatalogKept ==
    ASSUME CatalogOK, JobsAreOfProducts, UNCHANGED catalogVars
    PROVE  CatalogOK' /\ JobsAreOfProducts'
  BY DEF CatalogOK, JobsAreOfProducts, catalogVars

LEMMA CatalogContinues ==
    ASSUME Slots, CatalogOK, JobsAreOfProducts, NEW r \in Requests, CatalogContinue(r)
    PROVE  Slots' /\ CatalogOK' /\ JobsAreOfProducts'
<1>1. CASE \/ AddCategoryFind(r) \/ AddProductCategory(r) \/ AddProductNames(r)
           \/ UpdateCategoryFind(r) \/ DeleteCategoryFind(r)
           \/ DiscountFind(r) \/ UpdateFind(r) \/ DeleteProductFind(r)
           \/ ViewFind(r)
  BY <1>1, CatalogLooks, CatalogLearns, CatalogKept
<1>2. CASE AddCategoryInsert(r) \/ UpdateCategorySave(r) \/ DeleteCategoryDestroy(r)
  BY <1>2, CatalogWriteSlots, CategoriesTyped
<1>3. CASE ViewSave(r) \/ UpdateSave(r) \/ DeleteProductDestroy(r)
  BY <1>3, CatalogWriteSlots, ProductsTyped
<1>4. CASE AddProductRecord(r)
  BY <1>4, CatalogWriteSlots, JobsTyped
<1>5. CASE DiscountSave(r) \/ PromoCount(r) \/ PromoMembers(r)
  BY <1>5, CatalogWriteSlots, PromotionSlots, CatalogKept DEF DiscountSave, PromoCount, PromoMembers
<1>6. CASE PromoSadd(r)
  BY <1>6, PromotionSlots, PromoTyped
<1>7. CASE AddProductCreate(r) \/ AddProductJob(r)
  BY <1>7, AddProductCreates, AddProductJobs
<1>8. QED
  BY <1>1, <1>2, <1>3, <1>4, <1>5, <1>6, <1>7 DEF CatalogContinue

LEMMA SlotsKept == ASSUME Slots, UNCHANGED requestVars PROVE Slots'
  BY DEF Slots, requestVars, Slot, EndedSlot, CatalogSlot, RatingSlot, ShippingSlot, AnalyticsSlot

(* The worker, the clock, and what a death leaves of the jobs.             *)
LEMMA WorkerTyped ==
    ASSUME Slots, CatalogOK, JobsAreOfProducts, CatalogWorker \/ Tick
    PROVE  Slots' /\ CatalogOK' /\ JobsAreOfProducts'
<1>1. Slots'
  BY SlotsKept DEF CatalogWorker, RemovalFind, RemovalDestroy, Tick
<1>2. CASE Tick
  <2>1. now' \in 0..Horizon
    BY <1>2, CatalogAssumption DEF Tick, CatalogOK
  <2>2. QED
    BY <1>1, <1>2, <2>1 DEF Tick, CatalogOK, JobsAreOfProducts
<1>3. ASSUME NEW j \in Jobs, RemovalFind(j) \/ RemovalDestroy(j)
      PROVE  CatalogOK' /\ JobsAreOfProducts'
  <2>1. job[j] \in JobRows /\ job[j].product \in Products
    BY <1>3 DEF RemovalFind, RemovalDestroy, CatalogOK, JobsAreOfProducts
  <2>2. PICK s \in {"active", "failed", "done"} : job' = [job EXCEPT ![j].state = s]
    <3>1. CASE RemovalFind(j)
      BY <3>1 DEF RemovalFind
    <3>2. CASE RemovalDestroy(j)
      BY <3>2 DEF RemovalDestroy
    <3>3. QED
      BY <1>3, <3>1, <3>2
  <2>3. [job[j] EXCEPT !.state = s] \in JobRows
    BY <2>1, JobRow DEF JobStates, NoMoment
  <2>4. [job[j] EXCEPT !.state = s].product \in Products
    BY <2>1 DEF JobRows
  <2>5. job' \in [Jobs -> JobRows] /\ JobsAreOfProducts'
    BY <2>2, <2>3, <2>4 DEF CatalogOK, JobsAreOfProducts
  <2>6. product' \in [Products -> ProductRows]
    <3>1. [product[job[j].product] EXCEPT !.state = "destroyed"] \in ProductRows
      BY <2>1, ProductRow DEF CatalogOK, NoMoment
    <3>2. QED
      BY <1>3, <3>1 DEF CatalogOK, RemovalFind, RemovalDestroy, Destroyed
  <2>7. early' \in SUBSET Products
    BY <1>3, <2>1 DEF CatalogOK, RemovalFind, RemovalDestroy
  <2>8. UNCHANGED <<now, category, entry, promo, viewings, renamed>>
    BY <1>3 DEF RemovalFind, RemovalDestroy
  <2>9. QED
    BY <2>5, <2>6, <2>7, <2>8 DEF CatalogOK
<1>4. QED
  BY <1>1, <1>2, <1>3 DEF CatalogWorker

LEMMA StalledTyped ==
    ASSUME CatalogOK, JobsAreOfProducts, Stalled,
           UNCHANGED <<now, category, product, entry, promo, viewings, renamed, early>>
    PROVE  CatalogOK' /\ JobsAreOfProducts'
<1>1. ASSUME NEW j \in Jobs
      PROVE  /\ [job[j] EXCEPT !.state = "delayed"] \in JobRows
             /\ [job[j] EXCEPT !.state = "delayed"].product = job[j].product
  <2>1. job[j] \in JobRows
    BY DEF CatalogOK
  <2>2. QED
    BY <2>1, JobRow DEF JobRows, JobStates, NoMoment
<1>2. job' \in [Jobs -> JobRows]
  BY <1>1 DEF Stalled, CatalogOK
<1>3. JobsAreOfProducts'
  BY <1>1 DEF Stalled, CatalogOK, JobsAreOfProducts
<1>4. QED
  BY <1>2, <1>3 DEF CatalogOK

-----------------------------------------------------------------------------
(* The ratings and the notifications.                                      *)
LEMMA RatingQueries == \A u \in Authors :
    /\ \A b \in Everything \cup {None} :
          /\ [By(u) EXCEPT !.about = b] \in RatingArgs
          /\ [By(u) EXCEPT !.about = b].about = b /\ [By(u) EXCEPT !.about = b].which = "one"
    /\ \A x \in Ratings :
          [By(u) EXCEPT !.rating = x] \in RatingArgs /\ [By(u) EXCEPT !.rating = x].which = "one"
  BY DEF By, RatingArgs, Which

LEMMA RatingBegins ==
    ASSUME Slots, NEW r \in Requests, NEW a, NEW s, RatingSlot(s, a, FALSE), Begin(r, a, s)
    PROVE  Slots'
<1>1. RatingSlot(s, a, r \in wrote) /\ answer[r] = 0
  BY SlotAt, BeginMoves DEF RatingSlot
<1>2. QED
  BY <1>1, BeginMoves, SlotMoves DEF Slot

LEMMA RatingsArriveSlots ==
    ASSUME Slots, NEW r \in Requests, RatingsArrive(r)
    PROVE  Slots' /\ UNCHANGED ratingVars
<1>1. ASSUME NEW u \in Authors, NEW b \in Everything, Rate(r, u, b)
      PROVE  Slots' /\ UNCHANGED ratingVars
  <2> DEFINE a == [By(u) EXCEPT !.about = b]
  <2>1. a \in RatingArgs /\ a.about = b /\ a.which = "one"
    BY RatingQueries
  <2> HIDE DEF a
  <2>2. Begin(r, a, "rate.find") /\ UNCHANGED ratingVars
    BY <1>1 DEF Rate, a
  <2>3. RatingSlot("rate.find", a, FALSE)
    BY <2>1 DEF RatingSlot, RatingSteps
  <2>4. QED
    BY <2>2, <2>3, RatingBegins
<1>2. ASSUME NEW u \in Authors, NEW b \in Things \cup {None}, List(r, u, b)
      PROVE  Slots' /\ UNCHANGED ratingVars
  <2> DEFINE a == [By(u) EXCEPT !.about = b]
  <2>1. a \in RatingArgs /\ a.which = "one"
    BY RatingQueries DEF Everything
  <2> HIDE DEF a
  <2>2. Begin(r, a, "ratings.find") /\ UNCHANGED ratingVars
    BY <1>2 DEF List, a
  <2>3. RatingSlot("ratings.find", a, FALSE)
    BY <2>1 DEF RatingSlot, RatingSteps
  <2>4. QED
    BY <2>2, <2>3, RatingBegins
<1>3. ASSUME NEW u \in Authors, NEW x \in Ratings, NEW s \in {"rerate", "unrate", "ban"},
             Own(r, u, x, s)
      PROVE  Slots' /\ UNCHANGED ratingVars
  <2> DEFINE a == [By(u) EXCEPT !.rating = x]
  <2>1. a \in RatingArgs /\ a.which = "one"
    BY RatingQueries
  <2> HIDE DEF a
  <2>2. Begin(r, a, s) /\ UNCHANGED ratingVars
    BY <1>3 DEF Own, a
  <2>3. RatingSlot(s, a, FALSE)
    BY <2>1 DEF RatingSlot, RatingSteps
  <2>4. QED
    BY <2>2, <2>3, RatingBegins
<1>4. ASSUME NEW u \in Authors, NEW n \in Notices \cup {None}, NEW which \in Which,
             NEW s \in {"notice.all", "notice.none", "notice.find", "notice.destroy"},
             s = "notice.all" => which = "all", s = "notice.none" => which = "none",
             s \in {"notice.find", "notice.destroy"} => which = "one", Notice(r, u, n, which, s)
      PROVE  Slots' /\ UNCHANGED ratingVars
  <2> DEFINE a == [By(u) EXCEPT !.notice = n, !.which = which]
  <2>1. a \in RatingArgs /\ a.which = which
    BY DEF By, RatingArgs
  <2> HIDE DEF a
  <2>2. Begin(r, a, s) /\ UNCHANGED ratingVars
    BY <1>4 DEF Notice, a
  <2>3. RatingSlot(s, a, FALSE)
    BY <1>4, <2>1 DEF RatingSlot, RatingSteps
  <2>4. QED
    BY <2>2, <2>3, RatingBegins
<1>5. QED
  BY <1>1, <1>2, <1>3, <1>4 DEF RatingsArrive, Which

LEMMA RatingGoes ==
    ASSUME Slots, NEW r \in Requests, pc[r] \in RatingSteps, NEW s \in RatingSteps,
           s \in {"rate.find", "rate.create"} => arg[r].about \in Everything,
           {s, pc[r]} \cap {"notice.all", "notice.none"} = {}, Goto(r, s)
    PROVE  Slots'
<1>1. RatingSlot(s, arg[r], r \in wrote) /\ answer[r] = 0
  BY SlotAt DEF RatingSlot
<1>2. QED
  BY <1>1, GotoMoves, SlotMoves DEF Slot

(* Requests that name no notification are answered though nothing is done. *)
LEMMA NoticeAnswers ==
    ASSUME Slots, NEW r \in Requests, NoticeAll(r) \/ NoticeNone(r)
    PROVE  Slots'
<1>1. pc[r] \in {"notice.all", "notice.none"} /\ pc[r] \in RatingSteps /\ pc[r] \in AllSteps
  BY DEF NoticeAll, NoticeNone, At, RatingSteps, AllSteps
<1>2. NamesNoNotice(arg[r]) /\ arg[r] \in ShopArgs
  BY <1>1, SlotAt DEF RatingSlot, NamesNoNotice, ShopArgs
<1>3. PICK c \in {Found, Deleted} : Answer(r, c) \/ WriteAnswer(r, c)
  BY DEF NoticeAll, NoticeNone
<1>4. c \in Successes /\ c \in Statuses /\ c \notin Refusals
  BY Codes
<1>5. EndedSlot("answered", arg[r], c, r \in wrote)
  BY <1>2, <1>4 DEF EndedSlot, EndSteps
<1>6. QED
  BY <1>1, <1>3, <1>4, <1>5, AnswerMoves, SlotMoves, Succeeds DEF Slot

LEMMA RatingSlots ==
    ASSUME Slots, NEW r \in Requests, RatingsContinue(r)
    PROVE  Slots'
<1>1. /\ pc[r] \in RatingSteps => pc[r] \in Reads /\ pc[r] \in AllSteps
      /\ pc[r] = "rate.find" => arg[r].about \in Everything
  BY SlotAt DEF RatingSlot, RatingSteps, Reads, AllSteps
<1>2. /\ BadRequest \in Refusals /\ NotFound \in Refusals
      /\ Created \in Successes /\ Found \in Successes /\ Deleted \in Successes
  BY Codes
<1>3. CASE RateFind(r) \/ RateCreate(r) \/ ListFind(r) \/ ListAnswer(r)
  BY <1>1, <1>2, <1>3, Refuses, Succeeds, RatingGoes
  DEF RateFind, RateCreate, ListFind, ListAnswer, At, RatingSteps
<1>4. CASE UpdateOwn(r) \/ DeleteOwn(r) \/ DeleteAny(r)
  BY <1>1, <1>2, <1>4, Refuses, Succeeds DEF UpdateOwn, DeleteOwn, DeleteAny, At, RatingSteps
<1>5. CASE NoticeAll(r) \/ NoticeNone(r) \/ MarkSave(r)
  BY <1>1, <1>2, <1>5, NoticeAnswers, Succeeds DEF MarkSave, At, RatingSteps
<1>6. CASE MarkFind(r) \/ RemoveNotification(r)
  BY <1>1, <1>2, <1>6, Refuses, Succeeds, RatingGoes DEF MarkFind, RemoveNotification, At, RatingSteps
<1>7. QED
  BY <1>3, <1>4, <1>5, <1>6 DEF RatingsContinue

(* The collections.                                                        *)
RatingRows == {NoRating, DeletedRating} \cup [author : Authors, about : Everything]
NoticeRows == {NoNotice, DeletedNotice} \cup [user : Authors, read : BOOLEAN]

LEMMA NoticeRow == \A x \in NoticeRows : [x EXCEPT !.read = TRUE] \in NoticeRows
<1>1. ASSUME NEW u, NEW b \in BOOLEAN
      PROVE  [[user |-> u, read |-> b] EXCEPT !.read = TRUE] = [user |-> u, read |-> TRUE]
  <2> DEFINE x == [user |-> u, read |-> b]
             y == [x EXCEPT !.read = TRUE]
  <2>1. x \in [user : {u}, read : BOOLEAN]
    OBVIOUS
  <2> HIDE DEF x
  <2>2. y \in [user : {u}, read : {TRUE}]
    BY <2>1
  <2> HIDE DEF y
  <2>3. y = [user |-> u, read |-> TRUE]
    BY <2>2
  <2>4. QED
    BY <2>3 DEF x, y
<1>2. \A x \in [user : Authors, read : BOOLEAN] :
         [x EXCEPT !.read = TRUE] \in [user : Authors, read : BOOLEAN]
  OBVIOUS
<1>3. QED
  BY <1>1, <1>2 DEF NoticeRows, NoNotice, DeletedNotice

LEMMA RatingsTyped ==
    ASSUME Slots, RatingsOK, NEW r \in Requests, RatingsContinue(r)
    PROVE  RatingsOK'
<1>1. rating \in [Ratings -> RatingRows] /\ notice \in [Notices -> NoticeRows]
  BY DEF RatingsOK, RatingRows, NoticeRows
<1>2. DeletedRating \in RatingRows /\ DeletedNotice \in NoticeRows
  BY DEF RatingRows, NoticeRows
<1>3. \A x : Removed(x) \in [Ratings -> RatingRows]
  BY <1>1, <1>2 DEF Removed
<1>4. rating' \in [Ratings -> RatingRows]
  <2>1. CASE RateCreate(r)
    <3>1. RatingSlot("rate.create", arg[r], r \in wrote)
      BY <2>1, SlotAt DEF RateCreate, At, RatingSteps
    <3>2. [author |-> arg[r].user, about |-> arg[r].about] \in RatingRows
      BY <3>1 DEF RatingSlot, RatingArgs, RatingRows
    <3>3. QED
      BY <2>1, <1>1, <3>2 DEF RateCreate
  <2>2. CASE ~RateCreate(r)
    BY <1>1, <1>3, <2>2
    DEF RatingsContinue, RateFind, ListFind, ListAnswer, UpdateOwn, DeleteOwn, DeleteAny,
        NoticeAll, NoticeNone, MarkFind, MarkSave, RemoveNotification, ratingVars
  <2>3. QED
    BY <2>1, <2>2
<1>5. notice' \in [Notices -> NoticeRows]
  <2>1. CASE NoticeAll(r)
    BY <1>1, <1>2, <2>1, NoticeRow DEF NoticeAll
  <2>2. CASE MarkSave(r)
    BY <1>1, <2>2, NoticeRow DEF MarkSave
  <2>3. CASE RemoveNotification(r)
    BY <1>1, <1>2, <2>3 DEF RemoveNotification
  <2>4. CASE ~NoticeAll(r) /\ ~MarkSave(r) /\ ~RemoveNotification(r)
    BY <1>1, <2>4
    DEF RatingsContinue, RateFind, RateCreate, ListFind, ListAnswer, UpdateOwn, DeleteOwn,
        DeleteAny, NoticeNone, MarkFind, ratingVars
  <2>5. QED
    BY <2>1, <2>2, <2>3, <2>4
<1>6. UNCHANGED <<users, things>>
  BY DEF RatingsContinue, RateFind, RateCreate, ListFind, ListAnswer, UpdateOwn, DeleteOwn,
     DeleteAny, NoticeAll, NoticeNone, MarkFind, MarkSave, RemoveNotification, ratingVars
<1>7. QED
  BY <1>4, <1>5, <1>6 DEF RatingsOK, RatingRows, NoticeRows

LEMMA RatingsOutsideTyped ==
    ASSUME Slots, RatingsOK, RatingsOutside
    PROVE  Slots' /\ RatingsOK'
<1>1. Slots'
  BY SlotsKept DEF RatingsOutside, Gone, SendNotification
<1>2. CASE Gone
  BY <1>1, <1>2 DEF Gone, RatingsOK
<1>3. CASE SendNotification
  <2>1. \A u \in Authors : [user |-> u, read |-> FALSE] \in [user : Authors, read : BOOLEAN]
    OBVIOUS
  <2>2. users \subseteq Authors
    BY DEF RatingsOK
  <2>3. PICK n \in Notices, u \in users : notice' = [notice EXCEPT ![n] = [user |-> u, read |-> FALSE]]
    BY <1>3 DEF SendNotification
  <2>4. UNCHANGED <<users, things, rating>>
    BY <1>3 DEF SendNotification
  <2>5. notice' \in [Notices -> NoticeRows]
    BY <2>1, <2>2, <2>3 DEF RatingsOK, NoticeRows
  <2>6. QED
    BY <1>1, <2>4, <2>5 DEF RatingsOK, NoticeRows
<1>4. QED
  BY <1>1, <1>2, <1>3 DEF RatingsOutside

-----------------------------------------------------------------------------
(* Shipping.                                                               *)
LEMMA BlankTyped == Blank \in ShippingArgs /\ Rates \subseteq 0..4 * MaxRate
<1>1. 0 \in 0..4 * MaxRate /\ Rates \subseteq 0..4 * MaxRate
  BY ShippingAssumption DEF Rates
<1>2. QED
  BY <1>1 DEF Blank, ShippingArgs, WeightCategories

LEMMA ShippingBegins ==
    ASSUME Slots, NEW r \in Requests, NEW a \in ShippingArgs, NEW s \in ShippingSteps,
           s \in WithName => a.name \in Places, s \in WithRate => a.rate \in Rates,
           s \in ForCountry => a.country \in Countries, s \notin {"cost.safe", "cost.weight"},
           Begin(r, a, s)
    PROVE  Slots'
<1>1. ShippingSlot(s, a, r \in wrote) /\ answer[r] = 0
  BY SlotAt, BeginMoves DEF ShippingSlot
<1>2. QED
  BY <1>1, BeginMoves, SlotMoves DEF Slot

LEMMA WeightCategoryKnown == \A load \in Loads : WeightCategory(load) \in WeightCategories
<1> TAKE load \in Loads
<1>1. load \in Nat
  BY ShippingAssumption
<1>2. \/ load > 100 \/ (load > 50 /\ load <= 100) \/ (load > 25 /\ load <= 50)
      \/ (load > 10 /\ load <= 25) \/ load <= 10
  BY <1>1
<1>3. QED
  BY <1>1, <1>2 DEF WeightCategory, WeightCategories

LEMMA ShippingArriveSlots ==
    ASSUME Slots, NEW r \in Requests, ShippingArrive(r)
    PROVE  Slots' /\ UNCHANGED shippingVars
<1> USE DEF ShippingSteps, WithName, WithRate, ForCountry
<1>1. ASSUME NEW n \in Places, NEW rate \in Rates,
             AddCountry(r, n, rate)
      PROVE  Slots' /\ UNCHANGED shippingVars
  <2> DEFINE a == [Blank EXCEPT !.name = n, !.rate = rate]
  <2>1. a \in ShippingArgs /\ a.name = n /\ a.rate = rate
    BY BlankTyped DEF ShippingArgs
  <2> HIDE DEF a
  <2>2. Begin(r, a, "country.find") /\ UNCHANGED shippingVars
    BY <1>1 DEF AddCountry, a
  <2>3. QED
    BY <2>1, <2>2, ShippingBegins
<1>2. ASSUME NEW c \in Countries,
             DeleteCountry(r, c)
      PROVE  Slots' /\ UNCHANGED shippingVars
  <2> DEFINE a == [Blank EXCEPT !.country = c]
  <2>1. a \in ShippingArgs /\ a.country = c
    BY BlankTyped DEF ShippingArgs
  <2> HIDE DEF a
  <2>2. Begin(r, a, "country.destroy") /\ UNCHANGED shippingVars
    BY <1>2 DEF DeleteCountry, a
  <2>3. QED
    BY <2>1, <2>2, ShippingBegins
<1>3. ASSUME NEW c \in Countries,
             ListCities(r, c)
      PROVE  Slots' /\ UNCHANGED shippingVars
  <2> DEFINE a == [Blank EXCEPT !.country = c]
  <2>1. a \in ShippingArgs /\ a.country = c
    BY BlankTyped DEF ShippingArgs
  <2> HIDE DEF a
  <2>2. Begin(r, a, "cities.list") /\ UNCHANGED shippingVars
    BY <1>3 DEF ListCities, a
  <2>3. QED
    BY <2>1, <2>2, ShippingBegins
<1>4. ASSUME NEW c \in Countries, NEW n \in Places,
             AddCity(r, c, n)
      PROVE  Slots' /\ UNCHANGED shippingVars
  <2> DEFINE a == [Blank EXCEPT !.country = c, !.name = n]
  <2>1. a \in ShippingArgs /\ a.country = c /\ a.name = n
    BY BlankTyped DEF ShippingArgs
  <2> HIDE DEF a
  <2>2. Begin(r, a, "city.country") /\ UNCHANGED shippingVars
    BY <1>4 DEF AddCity, a
  <2>3. QED
    BY <2>1, <2>2, ShippingBegins
<1>5. ASSUME NEW c \in Countries, NEW n \in Places, NEW rate \in Rates,
             UpdateCountry(r, c, n, rate)
      PROVE  Slots' /\ UNCHANGED shippingVars
  <2> DEFINE a == [Blank EXCEPT !.country = c, !.name = n, !.rate = rate]
  <2>1. a \in ShippingArgs /\ a.country = c /\ a.name = n /\ a.rate = rate
    BY BlankTyped DEF ShippingArgs
  <2> HIDE DEF a
  <2>2. Begin(r, a, "country.get") /\ UNCHANGED shippingVars
    BY <1>5 DEF UpdateCountry, a
  <2>3. QED
    BY <2>1, <2>2, ShippingBegins
<1>6. ASSUME NEW c \in Countries, NEW load \in Loads, NEW safe \in BOOLEAN,
             Calculate(r, c, load, safe)
      PROVE  Slots' /\ UNCHANGED shippingVars
  <2> DEFINE a == [Blank EXCEPT !.country = c, !.weight = WeightCategory(load), !.safe = safe]
  <2>1. a \in ShippingArgs /\ a.country = c
    BY BlankTyped, WeightCategoryKnown DEF ShippingArgs
  <2> HIDE DEF a
  <2>2. Begin(r, a, "cost.country") /\ UNCHANGED shippingVars
    BY <1>6 DEF Calculate, a
  <2>3. QED
    BY <2>1, <2>2, ShippingBegins
<1>7. ASSUME NEW t \in Cities,
             DeleteCity(r, t)
      PROVE  Slots' /\ UNCHANGED shippingVars
  <2> DEFINE a == [Blank EXCEPT !.city = t]
  <2>1. a \in ShippingArgs
    BY BlankTyped DEF ShippingArgs
  <2> HIDE DEF a
  <2>2. Begin(r, a, "city.destroy") /\ UNCHANGED shippingVars
    BY <1>7 DEF DeleteCity, a
  <2>3. QED
    BY <2>1, <2>2, ShippingBegins
<1>8. ASSUME NEW t \in Cities, NEW n \in Places,
             UpdateCity(r, t, n)
      PROVE  Slots' /\ UNCHANGED shippingVars
  <2> DEFINE a == [Blank EXCEPT !.city = t, !.name = n]
  <2>1. a \in ShippingArgs /\ a.name = n
    BY BlankTyped DEF ShippingArgs
  <2> HIDE DEF a
  <2>2. Begin(r, a, "city.get") /\ UNCHANGED shippingVars
    BY <1>8 DEF UpdateCity, a
  <2>3. QED
    BY <2>1, <2>2, ShippingBegins
<1>9. ASSUME NEW safe \in BOOLEAN, NEW rate \in Rates,
             ChangeMethod(r, safe, rate)
      PROVE  Slots' /\ UNCHANGED shippingVars
  <2> DEFINE a == [Blank EXCEPT !.safe = safe, !.rate = rate]
  <2>1. a \in ShippingArgs /\ a.rate = rate
    BY BlankTyped DEF ShippingArgs
  <2> HIDE DEF a
  <2>2. Begin(r, a, "method.find") /\ UNCHANGED shippingVars
    BY <1>9 DEF ChangeMethod, a
  <2>3. QED
    BY <2>1, <2>2, ShippingBegins
<1>10. ASSUME NEW w \in WeightCategories, NEW rate \in Rates,
             ChangeWeight(r, w, rate)
      PROVE  Slots' /\ UNCHANGED shippingVars
  <2> DEFINE a == [Blank EXCEPT !.weight = w, !.rate = rate]
  <2>1. a \in ShippingArgs /\ a.rate = rate
    BY BlankTyped DEF ShippingArgs
  <2> HIDE DEF a
  <2>2. Begin(r, a, "weight.find") /\ UNCHANGED shippingVars
    BY <1>10 DEF ChangeWeight, a
  <2>3. QED
    BY <2>1, <2>2, ShippingBegins
<1>11. CASE WeighCart(r)
  BY <1>11, BlankTyped, ShippingBegins DEF WeighCart
<1>12. QED
  BY <1>1, <1>2, <1>3, <1>4, <1>5, <1>6, <1>7, <1>8, <1>9, <1>10, <1>11 DEF ShippingArrive

LEMMA ShippingGoes ==
    ASSUME Slots, NEW r \in Requests, pc[r] \in ShippingSteps, NEW s \in ShippingSteps,
           s \in WithName => arg[r].name \in Places, s \in WithRate => arg[r].rate \in Rates,
           s \in ForCountry => arg[r].country \in Countries, s \notin {"cost.safe", "cost.weight"},
           Goto(r, s)
    PROVE  Slots'
<1>1. ShippingSlot(s, arg[r], r \in wrote) /\ answer[r] = 0
  BY SlotAt DEF ShippingSlot
<1>2. QED
  BY <1>1, GotoMoves, SlotMoves DEF Slot

LEMMA ShippingArgAt ==
    ASSUME Slots, NEW r \in Requests, pc[r] \in ShippingSteps
    PROVE  /\ arg[r] \in ShippingArgs /\ answer[r] = 0 /\ r \notin wrote
           /\ pc[r] \in WithName => arg[r].name \in Places
           /\ pc[r] \in WithRate => arg[r].rate \in Rates
           /\ pc[r] \in ForCountry => arg[r].country \in Countries
           /\ pc[r] = "cost.safe" => arg[r].rate <= 2 * MaxRate
           /\ pc[r] = "cost.weight" => arg[r].rate <= 3 * MaxRate
           /\ pc[r] \in Reads /\ pc[r] \in AllSteps
  BY SlotAt DEF ShippingSlot, Reads, AllSteps

(* The cost is put together from rates; each is one of them.               *)
LEMMA CostSlots ==
    ASSUME Slots, ShippingOK, NEW r \in Requests, CostCountry(r) \/ CostSafe(r) \/ CostWeight(r)
    PROVE  Slots'
<1> DEFINE c == arg[r].country
<1>1. pc[r] \in ShippingSteps /\ (CostCountry(r) => pc[r] \in ForCountry)
  BY DEF CostCountry, CostSafe, CostWeight, At, ShippingSteps, ForCountry
<1>2. arg[r] \in ShippingArgs /\ answer[r] = 0 /\ r \notin wrote /\ pc[r] \in Reads
  BY <1>1, ShippingArgAt
<1>3. MaxRate \in Nat \ {0} /\ Rates = 1..MaxRate /\ methodRate \in Rates /\ safeRate \in Rates
  BY ShippingAssumption DEF ShippingOK, Rates
<1>4. \A n \in 0..4 * MaxRate : LET a == [arg[r] EXCEPT !.rate = n] IN
         a \in ShippingArgs /\ a.rate = n
  BY <1>2 DEF ShippingArgs
<1>5. \A n \in 0..4 * MaxRate : LET a == [arg[r] EXCEPT !.rate = n, !.quote = TRUE] IN
         a \in ShippingArgs
  BY <1>2 DEF ShippingArgs
<1>6. arg[r].rate \in 0..4 * MaxRate
  BY <1>2 DEF ShippingArgs
<1>7. CASE CostCountry(r)
  <2>1. c \in Countries
    BY <1>1, <1>7, ShippingArgAt
  <2>2. CASE ~Answer(r, NotFound)
    <3>1. country[c].rate \in Rates
      <4>1. country[c] \in {NoCountry, DeletedCountry}
               \cup [state : {"live"}, name : Places, rate : Rates]
        BY <2>1 DEF ShippingOK
      <4>2. LiveCountry(c)
        BY <1>7, <2>2 DEF CostCountry
      <4>3. country[c] \notin {NoCountry, DeletedCountry}
        BY <4>2 DEF LiveCountry, NoCountry, DeletedCountry
      <4>4. QED
        BY <4>1, <4>3
    <3> DEFINE n == country[c].rate + methodRate
               a == [arg[r] EXCEPT !.rate = n]
    <3>2. n \in 0..4 * MaxRate /\ n <= 2 * MaxRate /\ n <= 3 * MaxRate
      <4>1. \A x \in 1..MaxRate, y \in 1..MaxRate :
               x + y \in 0..4 * MaxRate /\ x + y <= 2 * MaxRate /\ x + y <= 3 * MaxRate
        BY <1>3
      <4>2. QED
        BY <1>3, <3>1, <4>1
    <3>3. a \in ShippingArgs /\ a.rate = n
      BY <1>4, <3>2
    <3>4. PICK s \in {"cost.safe", "cost.weight"} : Learn(r, a, s)
      <4>1. Learn(r, a, IF arg[r].safe THEN "cost.safe" ELSE "cost.weight")
        BY <1>7, <2>2 DEF CostCountry
      <4>2. QED
        BY <4>1
    <3> HIDE DEF a, n
    <3>5. Slot(s, a, answer[r], r \in wrote)
      <4>1. ShippingSlot(s, a, r \in wrote)
        BY <1>2, <3>2, <3>3 DEF ShippingSlot, ShippingSteps, WithName, WithRate, ForCountry
      <4>2. QED
        BY <1>2, <4>1 DEF Slot
    <3>6. QED
      BY <3>4, <3>5, LearnMoves, SlotMoves
  <2>3. CASE Answer(r, NotFound)
    BY <1>2, <2>3, Refuses, Codes
  <2>4. QED
    BY <1>7, <2>2, <2>3 DEF CostCountry
<1>8. CASE CostSafe(r)
  <2> DEFINE n == arg[r].rate + safeRate
             a == [arg[r] EXCEPT !.rate = n]
  <2>1. arg[r].rate <= 2 * MaxRate
    BY <1>1, <1>8, ShippingArgAt DEF CostSafe, At
  <2>2. n \in 0..4 * MaxRate /\ n <= 3 * MaxRate
    BY <1>3, <1>6, <2>1
  <2>3. a \in ShippingArgs /\ a.rate = n
    BY <1>4, <2>2
  <2>4. Learn(r, a, "cost.weight")
    BY <1>8 DEF CostSafe
  <2> HIDE DEF a, n
  <2>5. ShippingSlot("cost.weight", a, r \in wrote)
    BY <1>2, <2>2, <2>3 DEF ShippingSlot, ShippingSteps, WithName, WithRate, ForCountry
  <2>6. QED
    BY <1>2, <2>4, <2>5, LearnMoves, SlotMoves DEF Slot
<1>9. CASE CostWeight(r)
  <2> DEFINE w == arg[r].weight
             n == arg[r].rate + weightRate[w]
             a == [arg[r] EXCEPT !.rate = n, !.quote = TRUE]
  <2>1. CASE w \in RatedCategories
    <3>1. arg[r].rate <= 3 * MaxRate
      BY <1>1, <1>9, ShippingArgAt DEF CostWeight, At
    <3>2. weightRate[w] \in Rates
      BY <2>1 DEF ShippingOK
    <3>3. n \in 0..4 * MaxRate
      BY <1>3, <1>6, <3>1, <3>2
    <3>4. a \in ShippingArgs
      BY <1>5, <3>3
    <3>5. AnswerWith(r, a, Found)
      BY <1>9, <2>1 DEF CostWeight
    <3> HIDE DEF a, n
    <3>6. EndedSlot("answered", a, Found, r \in wrote)
      BY <1>2, <3>4, Codes DEF EndedSlot, EndSteps, ShopArgs
    <3>7. QED
      BY <3>5, <3>6, AnswerWithMoves, SlotMoves DEF Slot
  <2>2. CASE w \notin RatedCategories
    BY <1>2, <1>9, <2>2, Refuses, Codes DEF CostWeight
  <2>3. QED
    BY <2>1, <2>2
<1>10. QED
  BY <1>7, <1>8, <1>9

LEMMA ShippingSlots ==
    ASSUME Slots, ShippingOK, NEW r \in Requests, ShippingContinue(r)
    PROVE  Slots'
<1>1. pc[r] \in ShippingSteps =>
         /\ pc[r] \in Reads /\ pc[r] \in AllSteps
         /\ pc[r] \in WithName => arg[r].name \in Places
         /\ pc[r] \in WithRate => arg[r].rate \in Rates
         /\ pc[r] \in ForCountry => arg[r].country \in Countries
  BY ShippingArgAt
<1>2. /\ BadRequest \in Refusals /\ NotFound \in Refusals
      /\ Created \in Successes /\ Found \in Successes /\ Deleted \in Successes
  BY Codes
<1>3. CASE AddCountryFind(r) \/ AddCountryInsert(r)
  BY <1>1, <1>2, <1>3, Refuses, Succeeds, ShippingGoes
  DEF AddCountryFind, AddCountryInsert, At, ShippingSteps, WithName, WithRate, ForCountry
<1>4. CASE AddCityCountry(r) \/ AddCityFind(r)
  BY <1>1, <1>2, <1>4, Refuses, ShippingGoes
  DEF AddCityCountry, AddCityFind, At, ShippingSteps, WithName, WithRate, ForCountry
<1>5. CASE AddCityInsert(r) \/ ListCitiesAnswer(r)
  BY <1>1, <1>2, <1>5, Refuses, Succeeds DEF AddCityInsert, ListCitiesAnswer, At, ShippingSteps
<1>6. CASE UpdateCountryFind(r) \/ UpdateCityFind(r)
  BY <1>1, <1>2, <1>6, Refuses, ShippingGoes
  DEF UpdateCountryFind, UpdateCityFind, At, ShippingSteps, WithName, WithRate, ForCountry
<1>7. CASE UpdateCountrySave(r) \/ UpdateCitySave(r)
  BY <1>1, <1>2, <1>7, Refuses, Succeeds DEF UpdateCountrySave, UpdateCitySave, At, ShippingSteps
<1>8. CASE DeleteCountryDestroy(r) \/ DeleteCityDestroy(r)
  BY <1>1, <1>2, <1>8, Refuses, Succeeds DEF DeleteCountryDestroy, DeleteCityDestroy, At, ShippingSteps
<1>9. CASE ChangeMethodFind(r) \/ ChangeWeightFind(r)
  BY <1>1, <1>2, <1>9, Refuses, ShippingGoes
  DEF ChangeMethodFind, ChangeWeightFind, At, ShippingSteps, WithName, WithRate, ForCountry
<1>10. CASE ChangeMethodSave(r) \/ ChangeWeightSave(r) \/ WeighCartFind(r)
  BY <1>1, <1>2, <1>10, Refuses, Succeeds
  DEF ChangeMethodSave, ChangeWeightSave, WeighCartFind, At, ShippingSteps
<1>11. QED
  BY <1>3, <1>4, <1>5, <1>6, <1>7, <1>8, <1>9, <1>10, CostSlots DEF ShippingContinue

(* The tables; every city is in a country there is.                        *)
CountryRows == {NoCountry, DeletedCountry} \cup [state : {"live"}, name : Places, rate : Rates]
CityRows == {NoCity, DeletedCity} \cup [state : {"live"}, name : Places, country : Countries]
CitiesHaveCountries ==
    \A t \in Cities : city[t].state = "live" => country[city[t].country].state = "live"

LEMMA ShippingParts ==
    ShippingOK <=> /\ country \in [Countries -> CountryRows] /\ city \in [Cities -> CityRows]
                   /\ CitiesHaveCountries
                   /\ methodRate \in Rates /\ safeRate \in Rates
                   /\ weightRate \in [RatedCategories -> Rates]
  BY DEF ShippingOK, CountryRows, CityRows, CitiesHaveCountries

LEMMA CountryRow ==
    /\ NoCountry.state = "none" /\ DeletedCountry.state = "deleted"
    /\ \A x \in CountryRows : x.state = "live" <=> x \notin {NoCountry, DeletedCountry}
    /\ \A x \in CountryRows : x.state = "live" => x \in [state : {"live"}, name : Places, rate : Rates]
    /\ [state : {"live"}, name : Places, rate : Rates] \subseteq CountryRows
    /\ \A x \in [state : {"live"}, name : Places, rate : Rates] : x.state = "live"
    /\ DeletedCountry \in CountryRows
<1>1. NoCountry.state = "none" /\ DeletedCountry.state = "deleted"
  BY DEF NoCountry, DeletedCountry
<1>2. \A x \in [state : {"live"}, name : Places, rate : Rates] : x.state = "live"
  OBVIOUS
<1>3. QED
  BY <1>1, <1>2 DEF CountryRows

LEMMA CityRow ==
    /\ NoCity.state = "none" /\ DeletedCity.state = "deleted"
    /\ \A x \in CityRows : x.state = "live" => x.country \in Countries
    /\ \A n \in Places, c \in Countries : LET x == [state |-> "live", name |-> n, country |-> c] IN
          x \in CityRows /\ x.state = "live" /\ x.country = c
    /\ DeletedCity \in CityRows
    /\ \A x \in CityRows, n \in Places : x.state = "live" =>
          LET y == [x EXCEPT !.name = n] IN
          y \in CityRows /\ y.state = "live" /\ y.country = x.country
  BY DEF CityRows, NoCity, DeletedCity

LEMMA CountriesTyped ==
    ASSUME Slots, ShippingOK, NEW r \in Requests,
           AddCountryInsert(r) \/ UpdateCountrySave(r) \/ DeleteCountryDestroy(r)
    PROVE  ShippingOK'
<1> DEFINE a == arg[r]
<1>1. pc[r] \in ShippingSteps
  BY DEF AddCountryInsert, UpdateCountrySave, DeleteCountryDestroy, At, ShippingSteps
<1>2. /\ country \in [Countries -> CountryRows] /\ city \in [Cities -> CityRows]
      /\ CitiesHaveCountries
  BY ShippingParts
<1>3. UNCHANGED rates
  BY DEF AddCountryInsert, UpdateCountrySave, DeleteCountryDestroy
<1>4. CASE AddCountryInsert(r)
  <2>1. a.name \in Places /\ a.rate \in Rates
    BY <1>1, <1>4, ShippingArgAt DEF AddCountryInsert, At, WithName, WithRate
  <2>2. CASE UNCHANGED country
    BY <1>4, <2>2, ShippingParts DEF AddCountryInsert, rates, ShippingOK
  <2> DEFINE new == [state |-> "live", name |-> a.name, rate |-> a.rate]
  <2>3. CASE \E c \in Countries : country[c] = NoCountry /\ country' = [country EXCEPT ![c] = new]
    <3>1. PICK c \in Countries : country[c] = NoCountry /\ country' = [country EXCEPT ![c] = new]
      BY <2>3
    <3>2. new \in CountryRows /\ new.state = "live"
      <4>1. new \in [state : {"live"}, name : Places, rate : Rates]
        BY <2>1
      <4> HIDE DEF new
      <4>2. QED
        BY <4>1, CountryRow
    <3> HIDE DEF new
    <3>3. country' \in [Countries -> CountryRows]
      BY <1>2, <3>1, <3>2
    <3>4. city' = city
      BY <1>4 DEF AddCountryInsert
    <3>5. CitiesHaveCountries'
      BY <1>2, <3>1, <3>2, <3>4, CityRow DEF CitiesHaveCountries
    <3>6. QED
      BY <1>3, <3>3, <3>4, <3>5 DEF rates, ShippingOK, CountryRows, CitiesHaveCountries
  <2>4. QED
    BY <1>4, <2>2, <2>3 DEF AddCountryInsert
<1>5. CASE UpdateCountrySave(r)
  <2>1. a.name \in Places /\ a.rate \in Rates /\ a.country \in Countries
    BY <1>1, <1>5, ShippingArgAt DEF UpdateCountrySave, At, WithName, WithRate, ForCountry
  <2>2. CASE UNCHANGED country
    BY <1>5, <2>2, ShippingParts DEF UpdateCountrySave, rates, ShippingOK
  <2> DEFINE c == a.country
             new == [country[c] EXCEPT !.name = a.name, !.rate = a.rate]
  <2>3. CASE LiveCountry(c) /\ country' = [country EXCEPT ![c] = new]
    <3>1. new \in CountryRows /\ new.state = "live"
      <4>1. country[c] \in [state : {"live"}, name : Places, rate : Rates]
        BY <1>2, <2>1, <2>3, CountryRow DEF LiveCountry
      <4>2. new \in [state : {"live"}, name : Places, rate : Rates]
        BY <2>1, <4>1
      <4> HIDE DEF new
      <4>3. QED
        BY <4>2, CountryRow
    <3> HIDE DEF new
    <3>2. country' \in [Countries -> CountryRows]
      BY <1>2, <2>1, <2>3, <3>1
    <3>3. city' = city
      BY <1>5 DEF UpdateCountrySave
    <3>4. CitiesHaveCountries'
      BY <1>2, <2>1, <2>3, <3>1, <3>3, CityRow DEF CitiesHaveCountries
    <3>5. QED
      BY <1>3, <3>2, <3>3, <3>4 DEF rates, ShippingOK, CountryRows, CitiesHaveCountries
  <2>4. country' = country \/ (LiveCountry(c) /\ country' = [country EXCEPT ![c] = new])
    BY <1>2, <1>5, <2>1 DEF UpdateCountrySave
  <2>5. QED
    BY <2>2, <2>3, <2>4
<1>6. CASE DeleteCountryDestroy(r)
  <2> DEFINE c == a.country
  <2>1. c \in Countries
    BY <1>1, <1>6, ShippingArgAt DEF DeleteCountryDestroy, At, ForCountry
  <2>2. CASE UNCHANGED locations
    BY <1>3, <2>2, ShippingParts DEF locations, rates, ShippingOK
  <2>3. CASE /\ country' = [country EXCEPT ![c] = DeletedCountry]
             /\ city' = [t \in Cities |-> IF city[t].country = c THEN DeletedCity ELSE city[t]]
    <3>1. country' \in [Countries -> CountryRows] /\ city' \in [Cities -> CityRows]
      BY <1>2, <2>3, CountryRow, CityRow
    <3>2. CitiesHaveCountries'
      BY <1>2, <2>1, <2>3, CityRow DEF CitiesHaveCountries
    <3>3. QED
      BY <1>3, <3>1, <3>2 DEF rates, ShippingOK, CountryRows, CityRows, CitiesHaveCountries
  <2>4. QED
    BY <1>6, <2>2, <2>3 DEF DeleteCountryDestroy
<1>7. QED
  BY <1>4, <1>5, <1>6

LEMMA CitiesTyped ==
    ASSUME Slots, ShippingOK, NEW r \in Requests,
           AddCityInsert(r) \/ UpdateCitySave(r) \/ DeleteCityDestroy(r)
    PROVE  ShippingOK'
<1> DEFINE a == arg[r]
<1>1. pc[r] \in ShippingSteps
  BY DEF AddCityInsert, UpdateCitySave, DeleteCityDestroy, At, ShippingSteps
<1>2. city \in [Cities -> CityRows] /\ CitiesHaveCountries
  BY ShippingParts
<1>3. UNCHANGED <<country, rates>>
  BY DEF AddCityInsert, UpdateCitySave, DeleteCityDestroy
<1>4. CASE UNCHANGED city
  BY <1>3, <1>4 DEF rates, ShippingOK
<1>5. ASSUME NEW t \in Cities, NEW new \in CityRows, city' = [city EXCEPT ![t] = new],
             new.state = "live" => country[new.country].state = "live"
      PROVE  ShippingOK'
  <2>1. city' \in [Cities -> CityRows] /\ CitiesHaveCountries'
    BY <1>2, <1>3, <1>5 DEF CitiesHaveCountries
  <2>2. QED
    BY <1>3, <2>1 DEF rates, ShippingOK, CityRows, CitiesHaveCountries
<1>6. CASE AddCityInsert(r)
  <2>1. a.name \in Places /\ a.country \in Countries
    BY <1>1, <1>6, ShippingArgAt DEF AddCityInsert, At, WithName, ForCountry
  <2> DEFINE new == [state |-> "live", name |-> a.name, country |-> a.country]
  <2>2. new \in CityRows /\ new.country = a.country
    BY <2>1, CityRow
  <2>3. city' = city \/ (LiveCountry(a.country) /\ \E t \in Cities : city' = [city EXCEPT ![t] = new])
    BY <1>6 DEF AddCityInsert
  <2> HIDE DEF new
  <2>4. QED
    BY <1>4, <1>5, <2>2, <2>3 DEF LiveCountry
<1>7. CASE UpdateCitySave(r)
  <2> DEFINE t == a.city
             new == [city[t] EXCEPT !.name = a.name]
  <2>1. a.name \in Places /\ a \in ShippingArgs
    BY <1>1, <1>7, ShippingArgAt DEF UpdateCitySave, At, WithName
  <2>2. city' = city \/ (LiveCity(t) /\ city' = [city EXCEPT ![t] = new])
    BY <1>7 DEF UpdateCitySave
  <2>3. CASE t \notin Cities
    BY <1>2, <1>4, <2>2, <2>3
  <2>4. CASE t \in Cities /\ LiveCity(t)
    <3>1. new \in CityRows /\ new.country = city[t].country /\ country[city[t].country].state = "live"
      BY <1>2, <2>1, <2>4, CityRow DEF LiveCity, CitiesHaveCountries
    <3> HIDE DEF new
    <3>2. QED
      BY <1>4, <1>5, <2>2, <2>4, <3>1
  <2>5. QED
    BY <1>4, <2>2, <2>3, <2>4
<1>8. CASE DeleteCityDestroy(r)
  <2>1. city' = city \/ city' = [city EXCEPT ![a.city] = DeletedCity]
    BY <1>8 DEF DeleteCityDestroy
  <2>2. CASE a.city \notin Cities
    BY <1>2, <1>4, <2>1, <2>2
  <2>3. CASE a.city \in Cities
    BY <1>4, <1>5, <2>1, <2>3, CityRow
  <2>4. QED
    BY <2>2, <2>3
<1>9. QED
  BY <1>6, <1>7, <1>8

LEMMA ShippingTyped ==
    ASSUME Slots, ShippingOK, NEW r \in Requests, ShippingContinue(r)
    PROVE  ShippingOK'
<1>1. CASE ChangeMethodSave(r) \/ ChangeWeightSave(r)
  <2>1. arg[r].rate \in Rates
    BY <1>1, ShippingArgAt DEF ChangeMethodSave, ChangeWeightSave, At, ShippingSteps, WithRate
  <2>2. /\ methodRate' \in Rates /\ safeRate' \in Rates
        /\ weightRate' \in [RatedCategories -> Rates]
    BY <1>1, <2>1 DEF ChangeMethodSave, ChangeWeightSave, ShippingOK
  <2>3. UNCHANGED locations
    BY <1>1 DEF ChangeMethodSave, ChangeWeightSave
  <2>4. QED
    BY <2>2, <2>3 DEF locations, ShippingOK
<1>2. CASE AddCountryInsert(r) \/ UpdateCountrySave(r) \/ DeleteCountryDestroy(r)
  BY <1>2, CountriesTyped
<1>3. CASE AddCityInsert(r) \/ UpdateCitySave(r) \/ DeleteCityDestroy(r)
  BY <1>3, CitiesTyped
<1>4. CASE UNCHANGED shippingVars
  BY <1>4 DEF ShippingOK, shippingVars
<1>5. QED
  BY <1>1, <1>2, <1>3, <1>4
  DEF ShippingContinue, AddCountryFind, AddCityCountry, AddCityFind, ListCitiesAnswer,
      UpdateCountryFind, UpdateCityFind, ChangeMethodFind, ChangeWeightFind, WeighCartFind,
      CostCountry, CostSafe, CostWeight

-----------------------------------------------------------------------------
(* The reports and the figures.  Everything that is counted is finite.     *)
OrdersWith(s) == {o \in Orders : status[o] = s}

LEMMA SalesAreFinite ==
    ASSUME AnalyticsOK
    PROVE  /\ IsFiniteSet(bought) /\ IsFiniteSet(Placed) /\ IsFiniteSet(SoldItems)
           /\ IsFiniteSet(items) /\ IsFiniteSet(stocked) /\ IsFiniteSet(items \ stocked)
           /\ IsFiniteSet(customers) /\ IsFiniteSet(Returning)
           /\ \A s : IsFiniteSet(OrdersWith(s))
           /\ \A c : IsFiniteSet(OrdersOf(c))
<1>1. IsFiniteSet(Orders) /\ IsFiniteSet(Items) /\ IsFiniteSet(Buyers)
  BY AnalyticsAssumption
<1>2. IsFiniteSet(Buyers \cup {None})
  BY <1>1, FS_AddElement
<1>3. IsFiniteSet(Orders \X Items)
  BY <1>1, FS_Product
<1>4. bought \subseteq Orders \X Items /\ Placed \subseteq Orders /\ SoldItems \subseteq Items
  BY DEF AnalyticsOK, Placed, SoldItems
<1>5. items \subseteq Items /\ stocked \subseteq Items /\ items \ stocked \subseteq Items
      /\ customers \subseteq Buyers /\ Returning \subseteq Buyers \cup {None}
  BY DEF AnalyticsOK, Returning
<1>6. (\A s : OrdersWith(s) \subseteq Orders) /\ \A c : OrdersOf(c) \subseteq Orders
  BY DEF OrdersWith, OrdersOf
<1>7. IsFiniteSet(bought) /\ IsFiniteSet(Placed) /\ IsFiniteSet(SoldItems)
  BY <1>1, <1>3, <1>4, FS_Subset
<1>8. /\ IsFiniteSet(items) /\ IsFiniteSet(stocked) /\ IsFiniteSet(items \ stocked)
      /\ IsFiniteSet(customers) /\ IsFiniteSet(Returning)
  BY <1>1, <1>2, <1>5, FS_Subset
<1>9. (\A s : IsFiniteSet(OrdersWith(s))) /\ \A c : IsFiniteSet(OrdersOf(c))
  BY <1>1, <1>6, FS_Subset
<1>10. QED
  BY <1>7, <1>8, <1>9

LEMMA CustomersAreFinite ==
    ASSUME AnalyticsOK
    PROVE  /\ CustomersOf(Placed) \subseteq Buyers \cup {None}
           /\ \A type : TopCustomers(type) \subseteq Buyers \cup {None}
           /\ \A type : IsFiniteSet(TopCustomers(type))
           /\ \A x : IsFiniteSet(CustomersOf(Placed) \cap x)
<1>1. IsFiniteSet(Buyers \cup {None})
  BY AnalyticsAssumption, FS_AddElement
<1>2. \A some \in SUBSET Orders : CustomersOf(some) \subseteq Buyers \cup {None}
  BY DEF AnalyticsOK, CustomersOf
<1>3. Placed \subseteq Orders /\ {b[1] : b \in bought} \subseteq Orders
  BY DEF AnalyticsOK, Placed
<1>4. \A type : TopCustomers(type) \subseteq Buyers \cup {None}
  BY <1>2, <1>3 DEF TopCustomers
<1>5. CustomersOf(Placed) \subseteq Buyers \cup {None}
  BY <1>2, <1>3
<1>6. \A x : CustomersOf(Placed) \cap x \subseteq Buyers \cup {None}
  BY <1>5
<1>7. QED
  BY <1>1, <1>4, <1>5, <1>6, FS_Subset

LEMMA GroupsAreFinite ==
    ASSUME AnalyticsOK
    PROVE  /\ IsFiniteSet(CategoryGroups)
           /\ \A groups \in SUBSET CategoryGroups :
                 IsFiniteSet({row \in groups \X bought : GroupOf(row[2][2]) = row[1]})
<1> DEFINE f == [i \in SoldItems |-> GroupOf(i)]
           rows(groups) == {row \in groups \X bought : GroupOf(row[2][2]) = row[1]}
<1>1. f \in Surjection(SoldItems, CategoryGroups)
  BY DEF Surjection, CategoryGroups
<1>2. IsFiniteSet(SoldItems) /\ IsFiniteSet(bought)
  BY SalesAreFinite
<1>3. IsFiniteSet(CategoryGroups)
  BY <1>1, <1>2, FS_Surjection
<1>4. IsFiniteSet(CategoryGroups \X bought)
  BY <1>2, <1>3, FS_Product
<1>5. \A groups \in SUBSET CategoryGroups : rows(groups) \subseteq CategoryGroups \X bought
  OBVIOUS
<1>6. \A groups \in SUBSET CategoryGroups : IsFiniteSet(rows(groups))
  BY <1>4, <1>5, FS_Subset
<1>7. QED
  BY <1>3, <1>6

LEMMA FiguresAreNumbers ==
    ASSUME AnalyticsOK
    PROVE  /\ Cardinality(bought) \in Nat /\ Cardinality(Placed) \in Nat
           /\ Cardinality(SoldItems) \in Nat /\ Cardinality(stocked) \in Nat
           /\ Cardinality(items \ stocked) \in Nat /\ Cardinality(customers) \in Nat
           /\ Cardinality(Returning) \in Nat
           /\ \A groups \in SUBSET CategoryGroups : RevenueOf(groups) \in Nat
           /\ \A s : OfStatus(s) \in Nat
           /\ \A c : Cardinality(OrdersOf(c)) \in Nat
           /\ \A type : Cardinality(TopCustomers(type)) \in Nat
           /\ \A x : Cardinality(CustomersOf(Placed) \cap x) \in Nat
<1>1. \A groups \in SUBSET CategoryGroups : RevenueOf(groups) \in Nat
  BY GroupsAreFinite, FS_CardinalityType DEF RevenueOf
<1>2. \A s : OfStatus(s) \in Nat
  BY SalesAreFinite, FS_CardinalityType DEF OfStatus, OrdersWith
<1>3. /\ \A c : Cardinality(OrdersOf(c)) \in Nat
      /\ \A type : Cardinality(TopCustomers(type)) \in Nat
      /\ \A x : Cardinality(CustomersOf(Placed) \cap x) \in Nat
  BY SalesAreFinite, CustomersAreFinite, FS_CardinalityType
<1>4. /\ Cardinality(bought) \in Nat /\ Cardinality(Placed) \in Nat
      /\ Cardinality(SoldItems) \in Nat /\ Cardinality(stocked) \in Nat
      /\ Cardinality(items \ stocked) \in Nat /\ Cardinality(customers) \in Nat
      /\ Cardinality(Returning) \in Nat
  BY SalesAreFinite, FS_CardinalityType
<1>5. QED
  BY <1>1, <1>2, <1>3, <1>4

(* A report learns a figure.                                               *)
LEMMA ReportLearns ==
    ASSUME NEW a \in AnalyticsArgs, NEW n \in Nat
    PROVE  /\ [a EXCEPT !.sold = n] \in AnalyticsArgs /\ [a EXCEPT !.sold = n].type = a.type
           /\ [a EXCEPT !.whole = n] \in AnalyticsArgs /\ [a EXCEPT !.whole = n].type = a.type
           /\ [a EXCEPT !.part = n] \in AnalyticsArgs /\ [a EXCEPT !.part = n].type = a.type
           /\ [a EXCEPT !.shared = n] \in AnalyticsArgs /\ [a EXCEPT !.shared = n].type = a.type
  BY DEF AnalyticsArgs

LEMMA QueryTyped ==
    ASSUME NEW type \in KnownTypes \cup RouteTypes \cup Getters \cup Deletions,
           NEW c \in Buyers \cup {None}
    PROVE  /\ Query(type, c) \in AnalyticsArgs /\ Query(type, c).type = type
           /\ \A x \in BOOLEAN : /\ [Query(type, c) EXCEPT !.filtered = x] \in AnalyticsArgs
                                 /\ [Query(type, c) EXCEPT !.filtered = x].type = type
           /\ \A f \in Files \cup {None}, k \in RouteTypes :
                 /\ [Query(type, c) EXCEPT !.file = f, !.kind = k] \in AnalyticsArgs
                 /\ [Query(type, c) EXCEPT !.file = f, !.kind = k].type = type
<1>1. 1 \in 1..Len(ReportedStatuses) /\ "sales" \in RouteTypes /\ 0 \in Nat
  BY DEF ReportedStatuses, RouteTypes
<1>2. QED
  BY <1>1 DEF Query, AnalyticsArgs

(* Which report, figure or deletion a handler is at, from the step it is   *)
(* to take, and what comes next.                                           *)
LEMMA StepsFollow == \A t :
    /\ "sales.products" \in StepsOf(t) => t = "sales"
    /\ "sales.revenue" \in StepsOf(t) => t = "sales"
    /\ "sales.count" \in StepsOf(t) => t = "sales"
    /\ "sales.categories" \in StepsOf(t) => t = "sales"
    /\ "sales.statuses" \in StepsOf(t) => t = "sales"
    /\ "stock.in" \in StepsOf(t) => t = "stock"
    /\ "stock.out" \in StepsOf(t) => t = "stock"
    /\ "purchases.count" \in StepsOf(t) => t \in {"purchases", "product-purchases"}
    /\ "purchases.groups" \in StepsOf(t) => t \in {"purchases", "product-purchases"}
    /\ "orders.status" \in StepsOf(t) => t = "orders"
    /\ "report.customer" \in StepsOf(t) => t \in {"customer-purchases", "customer-orders"}
    /\ "customer.products" \in StepsOf(t) => t \in {"customer-purchases", "customer-products"}
    /\ "customer.count" \in StepsOf(t) => t \in {"customer-orders", "customer-total"}
    /\ "customer.sum" \in StepsOf(t) => t \in {"customer-orders", "customer-total"}
<1> TAKE t
<1>1. "sales.products" \in StepsOf(t) => t = "sales"
  BY DEF StepsOf
<1>2. "sales.revenue" \in StepsOf(t) => t = "sales"
  BY DEF StepsOf
<1>3. "sales.count" \in StepsOf(t) => t = "sales"
  BY DEF StepsOf
<1>4. "sales.categories" \in StepsOf(t) => t = "sales"
  BY DEF StepsOf
<1>5. "sales.statuses" \in StepsOf(t) => t = "sales"
  BY DEF StepsOf
<1>6. "stock.in" \in StepsOf(t) => t = "stock"
  BY DEF StepsOf
<1>7. "stock.out" \in StepsOf(t) => t = "stock"
  BY DEF StepsOf
<1>8. "purchases.count" \in StepsOf(t) => t \in {"purchases", "product-purchases"}
  BY DEF StepsOf
<1>9. "purchases.groups" \in StepsOf(t) => t \in {"purchases", "product-purchases"}
  BY DEF StepsOf
<1>10. "orders.status" \in StepsOf(t) => t = "orders"
  BY DEF StepsOf
<1>11. "report.customer" \in StepsOf(t) => t \in {"customer-purchases", "customer-orders"}
  BY DEF StepsOf
<1>12. "customer.products" \in StepsOf(t) => t \in {"customer-purchases", "customer-products"}
  BY DEF StepsOf
<1>13. "customer.count" \in StepsOf(t) => t \in {"customer-orders", "customer-total"}
  BY DEF StepsOf
<1>14. "customer.sum" \in StepsOf(t) => t \in {"customer-orders", "customer-total"}
  BY DEF StepsOf
<1>15. QED
  BY <1>1, <1>2, <1>3, <1>4, <1>5, <1>6, <1>7, <1>8, <1>9, <1>10, <1>11, <1>12, <1>13, <1>14

LEMMA StepsFollowToo == \A t :
    /\ "top.groups" \in StepsOf(t) => t \in {"top-by-orders", "top-by-purchases"}
    /\ "top.count" \in StepsOf(t) => t \in {"top-by-orders", "top-by-purchases"}
    /\ "conversion.customers" \in StepsOf(t) => t = "conversion"
    /\ "conversion.orders" \in StepsOf(t) => t = "conversion"
    /\ "repeat.returning" \in StepsOf(t) => t = "repeat"
    /\ "repeat.customers" \in StepsOf(t) => t = "repeat"
    /\ "report.admin" \in StepsOf(t) => t \in KnownTypes
    /\ "report.write" \in StepsOf(t) => t \in KnownTypes
    /\ "report.none" \in StepsOf(t) => t \in {"customer_purchases", "customer_orders"}
    /\ "report.access" \in StepsOf(t) => t = "one"
    /\ "report.unlink" \in StepsOf(t) => t = "one"
    /\ "reports.read" \in StepsOf(t) => t = "type"
    /\ "report.neither" \in StepsOf(t) => t = "neither"
<1> TAKE t
<1>1. "top.groups" \in StepsOf(t) => t \in {"top-by-orders", "top-by-purchases"}
  BY DEF StepsOf
<1>2. "top.count" \in StepsOf(t) => t \in {"top-by-orders", "top-by-purchases"}
  BY DEF StepsOf
<1>3. "conversion.customers" \in StepsOf(t) => t = "conversion"
  BY DEF StepsOf
<1>4. "conversion.orders" \in StepsOf(t) => t = "conversion"
  BY DEF StepsOf
<1>5. "repeat.returning" \in StepsOf(t) => t = "repeat"
  BY DEF StepsOf
<1>6. "repeat.customers" \in StepsOf(t) => t = "repeat"
  BY DEF StepsOf
<1>7. "report.admin" \in StepsOf(t) => t \in KnownTypes
  BY DEF StepsOf, KnownTypes
<1>8. "report.write" \in StepsOf(t) => t \in KnownTypes
  BY DEF StepsOf, KnownTypes
<1>9. "report.none" \in StepsOf(t) => t \in {"customer_purchases", "customer_orders"}
  BY DEF StepsOf
<1>10. "report.access" \in StepsOf(t) => t = "one"
  BY DEF StepsOf
<1>11. "report.unlink" \in StepsOf(t) => t = "one"
  BY DEF StepsOf
<1>12. "reports.read" \in StepsOf(t) => t = "type"
  BY DEF StepsOf
<1>13. "report.neither" \in StepsOf(t) => t = "neither"
  BY DEF StepsOf
<1>14. QED
  BY <1>1, <1>2, <1>3, <1>4, <1>5, <1>6, <1>7, <1>8, <1>9, <1>10, <1>11, <1>12, <1>13

LEMMA AnalyticsBegins ==
    ASSUME Slots, NEW r \in Requests, NEW a \in AnalyticsArgs, NEW s \in AnalyticsSteps,
           s \in StepsOf(a.type), Begin(r, a, s)
    PROVE  Slots'
<1>1. AnalyticsSlot(s, a, r \in wrote) /\ answer[r] = 0
  BY SlotAt, BeginMoves DEF AnalyticsSlot
<1>2. QED
  BY <1>1, BeginMoves, SlotMoves DEF Slot

LEMMA FiguresArriveSlots ==
    ASSUME Slots, NEW r \in Requests, FiguresArrive(r) \/ DeletionsArrive(r)
    PROVE  Slots' /\ UNCHANGED analyticsVars
<1>1. ASSUME NEW c \in Buyers, NEW type \in KnownTypes \cup RouteTypes, GenerateReport(r, type, c)
      PROVE  Slots' /\ UNCHANGED analyticsVars
  <2> DEFINE a == Query(type, c)
             s == IF type \in KnownTypes THEN "report.admin" ELSE "report.none"
  <2>1. a \in AnalyticsArgs /\ a.type = type
    BY QueryTyped
  <2>2. s \in AnalyticsSteps /\ s \in StepsOf(type)
    BY DEF AnalyticsSteps, StepsOf, KnownTypes, RouteTypes
  <2>3. Begin(r, a, s) /\ UNCHANGED analyticsVars
    BY <1>1 DEF GenerateReport
  <2> HIDE DEF a, s
  <2>4. QED
    BY <2>1, <2>2, <2>3, AnalyticsBegins
<1>2. ASSUME NEW c \in Buyers, NEW type \in Getters, NEW x \in BOOLEAN,
             Getter(r, type, c, x, FirstStep(type))
      PROVE  Slots' /\ UNCHANGED analyticsVars
  <2> DEFINE a == [Query(type, c) EXCEPT !.filtered = x]
             s == FirstStep(type)
  <2>1. a \in AnalyticsArgs /\ a.type = type
    BY QueryTyped
  <2>2. s \in AnalyticsSteps /\ s \in StepsOf(type)
    BY DEF AnalyticsSteps, FirstStep, StepsOf, Getters
  <2>3. Begin(r, a, s) /\ UNCHANGED analyticsVars
    BY <1>2 DEF Getter
  <2> HIDE DEF a, s
  <2>4. QED
    BY <2>1, <2>2, <2>3, AnalyticsBegins
<1>3. ASSUME NEW deletion \in Deletions, NEW type \in RouteTypes, NEW f \in Files \cup {None},
             DeleteReport(r, deletion, type, f)
      PROVE  Slots' /\ UNCHANGED analyticsVars
  <2> DEFINE a == [Query(deletion, None) EXCEPT !.file = f, !.kind = type]
             s == CASE deletion = "one" -> "report.access"
                    [] deletion = "type" -> "reports.read"
                    [] deletion = "neither" -> "report.neither"
  <2>1. a \in AnalyticsArgs /\ a.type = deletion
    <3>1. /\ deletion \in KnownTypes \cup RouteTypes \cup Getters \cup Deletions
          /\ None \in Buyers \cup {None}
      OBVIOUS
    <3>2. \A g \in Files \cup {None}, k \in RouteTypes :
             /\ [Query(deletion, None) EXCEPT !.file = g, !.kind = k] \in AnalyticsArgs
             /\ [Query(deletion, None) EXCEPT !.file = g, !.kind = k].type = deletion
      BY <3>1, QueryTyped
    <3>3. QED
      BY <3>2
  <2>2. s \in AnalyticsSteps /\ s \in StepsOf(deletion)
    BY DEF AnalyticsSteps, StepsOf, Deletions
  <2>3. Begin(r, a, s) /\ UNCHANGED analyticsVars
    BY <1>3 DEF DeleteReport
  <2> HIDE DEF a, s
  <2>4. QED
    BY <2>1, <2>2, <2>3, AnalyticsBegins
<1>4. CASE FiguresArrive(r)
  <2>1. {"product-purchases", "categories"} \subseteq Getters
    BY DEF Getters
  <2>2. QED
    BY <1>1, <1>2, <1>4, <2>1 DEF FiguresArrive
<1>5. CASE DeletionsArrive(r)
  BY <1>3, <1>5 DEF DeletionsArrive, Deletions, RouteTypes
<1>6. QED
  BY <1>4, <1>5

LEMMA AnalyticsArgAt ==
    ASSUME Slots, NEW r \in Requests, pc[r] \in AnalyticsSteps
    PROVE  /\ arg[r] \in AnalyticsArgs /\ answer[r] = 0 /\ r \notin wrote
           /\ pc[r] \in StepsOf(arg[r].type)
           /\ pc[r] \in Reads /\ pc[r] \in AllSteps
  BY SlotAt DEF AnalyticsSlot, Reads, AllSteps

LEMMA AnalyticsGoes ==
    ASSUME Slots, NEW r \in Requests, pc[r] \in AnalyticsSteps, NEW s \in AnalyticsSteps,
           s \in StepsOf(arg[r].type), Goto(r, s)
    PROVE  Slots'
<1>1. AnalyticsSlot(s, arg[r], r \in wrote) /\ answer[r] = 0
  BY SlotAt DEF AnalyticsSlot
<1>2. QED
  BY <1>1, GotoMoves, SlotMoves DEF Slot

LEMMA AnalyticsLearns ==
    ASSUME Slots, NEW r \in Requests, pc[r] \in AnalyticsSteps, NEW a \in AnalyticsArgs,
           NEW s \in AnalyticsSteps, s \in StepsOf(a.type), Learn(r, a, s)
    PROVE  Slots'
<1>1. AnalyticsSlot(s, a, r \in wrote) /\ answer[r] = 0
  BY SlotAt DEF AnalyticsSlot
<1>2. QED
  BY <1>1, LearnMoves, SlotMoves DEF Slot

LEMMA AnalyticsAnswers ==
    ASSUME Slots, NEW r \in Requests, pc[r] \in AnalyticsSteps, NEW a \in AnalyticsArgs,
           AnswerWith(r, a, Found)
    PROVE  Slots'
<1>1. EndedSlot("answered", a, Found, r \in wrote)
  BY Codes DEF EndedSlot, EndSteps, ShopArgs
<1>2. QED
  BY <1>1, AnswerWithMoves, SlotMoves DEF Slot

LEMMA SalesSlots ==
    ASSUME Slots, AnalyticsOK, NEW r \in Requests,
           \/ SalesProducts(r) \/ SalesRevenue(r) \/ SalesCount(r) \/ SalesCategories(r)
           \/ SalesStatuses(r)
    PROVE  Slots'
<1>1. pc[r] \in AnalyticsSteps
  BY DEF SalesProducts, SalesRevenue, SalesCount, SalesCategories, SalesStatuses, At, AnalyticsSteps
<1>2. arg[r] \in AnalyticsArgs /\ pc[r] \in StepsOf(arg[r].type) /\ pc[r] \in AllSteps
  BY <1>1, AnalyticsArgAt
<1>3. arg[r].type = "sales"
  BY <1>2, StepsFollow
  DEF SalesProducts, SalesRevenue, SalesCount, SalesCategories, SalesStatuses, At
<1>4. \A s \in {"sales.revenue", "sales.count", "sales.categories", "sales.statuses", "report.write"} :
         s \in AnalyticsSteps /\ s \in StepsOf("sales")
  BY DEF AnalyticsSteps, StepsOf
<1>5. \A a \in AnalyticsArgs : a.type = "sales" =>
         \A s \in {"sales.revenue", "sales.count", "sales.categories", "sales.statuses", "report.write"} :
            Learn(r, a, s) => Slots'
  BY <1>1, <1>4, AnalyticsLearns
<1>6. Answer(r, ServerError) => Slots'
  BY <1>2, Fails
<1>7. CASE SalesProducts(r)
  <2> DEFINE a == [arg[r] EXCEPT !.sold = Cardinality(bought)]
  <2>1. a \in AnalyticsArgs /\ a.type = "sales"
    BY <1>2, <1>3, FiguresAreNumbers, ReportLearns
  <2>2. Learn(r, a, "sales.revenue") \/ Answer(r, ServerError)
    BY <1>7 DEF SalesProducts, Sum
  <2> HIDE DEF a
  <2>3. QED
    BY <1>5, <1>6, <2>1, <2>2
<1>8. CASE SalesRevenue(r)
  BY <1>2, <1>3, <1>5, <1>6, <1>8 DEF SalesRevenue, Sum
<1>9. CASE SalesCount(r)
  <2> DEFINE a == [arg[r] EXCEPT !.whole = Cardinality(Placed)]
  <2>1. a \in AnalyticsArgs /\ a.type = "sales"
    BY <1>2, <1>3, FiguresAreNumbers, ReportLearns
  <2>2. Learn(r, a, "sales.categories")
    BY <1>9 DEF SalesCount
  <2> HIDE DEF a
  <2>3. QED
    BY <1>5, <2>1, <2>2
<1>10. CASE SalesCategories(r)
  <2> DEFINE a(page) == [arg[r] EXCEPT !.shared = RevenueOf(page)]
  <2>1. \A page \in SUBSET CategoryGroups : a(page) \in AnalyticsArgs /\ a(page).type = "sales"
    BY <1>2, <1>3, FiguresAreNumbers, ReportLearns
  <2>2. \/ \E page \in SUBSET CategoryGroups : Learn(r, a(page), "sales.statuses")
        \/ Answer(r, ServerError)
    BY <1>10 DEF SalesCategories
  <2> HIDE DEF a
  <2>3. QED
    BY <1>5, <1>6, <2>1, <2>2
<1>11. CASE SalesStatuses(r)
  <2> DEFINE n == arg[r].part + OfStatus(ReportedStatuses[arg[r].next])
             b == [arg[r] EXCEPT !.part = n]
             d == [b EXCEPT !.next = @ + 1]
  <2>1. n \in Nat
    BY <1>2, FiguresAreNumbers, SMTT(60) DEF AnalyticsArgs
  <2>2. b \in AnalyticsArgs /\ b.type = "sales"
    <3> HIDE DEF n
    <3>1. QED
      BY <1>2, <1>3, <2>1, ReportLearns
  <2>3. b.next = arg[r].next
    BY <1>2 DEF AnalyticsArgs
  <2>4. IF arg[r].next = Len(ReportedStatuses)
        THEN Learn(r, b, "report.write") ELSE Learn(r, d, "sales.statuses")
    BY <1>11 DEF SalesStatuses
  <2> HIDE DEF b
  <2>5. arg[r].next # Len(ReportedStatuses) => d \in AnalyticsArgs /\ d.type = "sales"
    <3>1. Len(ReportedStatuses) = 7
      BY DEF ReportedStatuses
    <3>2. b.next \in 1..7
      BY <2>2, <3>1 DEF AnalyticsArgs
    <3>3. QED
      BY <2>2, <2>3, <3>1, <3>2 DEF AnalyticsArgs
  <2> HIDE DEF d
  <2>6. QED
    BY <1>5, <2>2, <2>4, <2>5
<1>12. QED
  BY <1>7, <1>8, <1>9, <1>10, <1>11

(* The other reports, up to the one that is written.                       *)
LEMMA ReportSlots ==
    ASSUME Slots, AnalyticsOK, NEW r \in Requests,
           \/ NoReport(r) \/ GetAdminData(r) \/ StockIn(r) \/ StockOut(r) \/ PurchasesCount(r)
           \/ PurchasesGroups(r) \/ OrdersStatus(r) \/ ReportCustomer(r) \/ CustomerProducts(r)
    PROVE  Slots'
<1>1. pc[r] \in AnalyticsSteps
  BY DEF NoReport, GetAdminData, StockIn, StockOut, PurchasesCount, PurchasesGroups, OrdersStatus,
         ReportCustomer, CustomerProducts, At, AnalyticsSteps
<1>2. /\ arg[r] \in AnalyticsArgs /\ pc[r] \in StepsOf(arg[r].type) /\ pc[r] \in AllSteps
      /\ pc[r] \in Reads /\ answer[r] = 0 /\ r \notin wrote
  BY <1>1, AnalyticsArgAt
<1>3. \A c \in {BadRequest, NotFound, Found, ServerError} : Answer(r, c) => Slots'
  BY <1>2, Refuses, Codes
<1>4. CASE NoReport(r)
  <2>1. Moves(r, "doomed", arg[r], Created, r \in wrote)
    BY <1>4, RespondMoves DEF NoReport
  <2>2. EndedSlot("doomed", arg[r], Created, r \in wrote)
    BY <1>2, Codes DEF EndedSlot, EndSteps, ShopArgs
  <2>3. QED
    BY <2>1, <2>2, SlotMoves DEF Slot
<1>5. CASE GetAdminData(r)
  <2>1. arg[r].type \in KnownTypes
    BY <1>2, <1>5, StepsFollowToo DEF GetAdminData, At
  <2> DEFINE t == arg[r].type
  <2>2. FirstStep(t) \in AnalyticsSteps /\ FirstStep(t) \in StepsOf(t)
    BY <2>1 DEF FirstStep, AnalyticsSteps, StepsOf, KnownTypes
  <2>3. Goto(r, FirstStep(t)) => Slots'
    BY <1>1, <2>2, AnalyticsGoes
  <2>4. QED
    BY <1>3, <1>5, <2>3 DEF GetAdminData
<1>6. CASE StockIn(r) \/ StockOut(r)
  <2>1. arg[r].type = "stock"
    BY <1>2, <1>6, StepsFollow DEF StockIn, StockOut, At
  <2>2. \A a \in AnalyticsArgs, s \in {"stock.out", "report.write"} :
           a.type = "stock" /\ Learn(r, a, s) => Slots'
    <3>1. \A s \in {"stock.out", "report.write"} : s \in AnalyticsSteps /\ s \in StepsOf("stock")
      BY DEF AnalyticsSteps, StepsOf
    <3>2. QED
      BY <1>1, <3>1, AnalyticsLearns
  <2>3. CASE StockIn(r)
    <3> DEFINE a == [arg[r] EXCEPT !.part = Cardinality(stocked)]
    <3>1. a \in AnalyticsArgs /\ a.type = "stock"
      BY <1>2, <2>1, FiguresAreNumbers, ReportLearns
    <3>2. Learn(r, a, "stock.out")
      BY <2>3 DEF StockIn
    <3> HIDE DEF a
    <3>3. QED
      BY <2>2, <3>1, <3>2
  <2>4. CASE StockOut(r)
    <3> DEFINE n == arg[r].part + Cardinality(items \ stocked)
               a == [arg[r] EXCEPT !.part = n]
    <3>1. n \in Nat
      BY <1>2, FiguresAreNumbers, SMTT(60) DEF AnalyticsArgs
    <3>2. Learn(r, a, "report.write")
      BY <2>4 DEF StockOut
    <3> HIDE DEF n
    <3>3. a \in AnalyticsArgs /\ a.type = "stock"
      BY <1>2, <2>1, <3>1, ReportLearns
    <3> HIDE DEF a
    <3>4. QED
      BY <2>2, <3>2, <3>3
  <2>5. QED
    BY <1>6, <2>3, <2>4
<1>7. CASE PurchasesCount(r) \/ PurchasesGroups(r)
  <2>1. arg[r].type \in {"purchases", "product-purchases"}
    BY <1>2, <1>7, StepsFollow DEF PurchasesCount, PurchasesGroups, At
  <2>2. CASE PurchasesCount(r)
    <3> DEFINE a == [arg[r] EXCEPT !.whole = Cardinality(bought)]
    <3>1. a \in AnalyticsArgs /\ a.type = arg[r].type
      BY <1>2, FiguresAreNumbers, ReportLearns
    <3>2. "purchases.groups" \in AnalyticsSteps /\ "purchases.groups" \in StepsOf(arg[r].type)
      BY <2>1 DEF AnalyticsSteps, StepsOf
    <3>3. Learn(r, a, "purchases.groups")
      BY <2>2 DEF PurchasesCount
    <3> HIDE DEF a
    <3>4. QED
      BY <1>1, <3>1, <3>2, <3>3, AnalyticsLearns
  <2>3. CASE PurchasesGroups(r)
    <3> DEFINE groups == Cardinality(SoldItems)
               n == IF groups <= arg[r].whole THEN groups ELSE arg[r].whole
               a == [arg[r] EXCEPT !.part = n]
    <3>1. n \in Nat
      BY <1>2, FiguresAreNumbers DEF AnalyticsArgs
    <3>2. \/ Answer(r, ServerError) \/ Answer(r, Found)
          \/ arg[r].type = "purchases" /\ Learn(r, a, "report.write")
      BY <2>3 DEF PurchasesGroups
    <3> HIDE DEF n
    <3>3. a \in AnalyticsArgs /\ a.type = arg[r].type
      BY <1>2, <3>1, ReportLearns
    <3>4. "report.write" \in AnalyticsSteps /\ "report.write" \in StepsOf("purchases")
      BY DEF AnalyticsSteps, StepsOf
    <3> HIDE DEF a
    <3>5. QED
      BY <1>1, <1>3, <3>2, <3>3, <3>4, AnalyticsLearns
  <2>4. QED
    BY <1>7, <2>2, <2>3
<1>8. CASE OrdersStatus(r)
  <2>1. arg[r].type = "orders"
    BY <1>2, <1>8, StepsFollow DEF OrdersStatus, At
  <2>2. "report.write" \in AnalyticsSteps /\ "report.write" \in StepsOf("orders")
    BY DEF AnalyticsSteps, StepsOf
  <2>3. QED
    BY <1>1, <1>8, <2>1, <2>2, AnalyticsGoes DEF OrdersStatus
<1>9. CASE ReportCustomer(r)
  <2>1. arg[r].type \in {"customer-purchases", "customer-orders"}
    BY <1>2, <1>9, StepsFollow DEF ReportCustomer, At
  <2> DEFINE s == IF arg[r].type = "customer-purchases" THEN "customer.products" ELSE "customer.count"
  <2>2. s \in AnalyticsSteps /\ s \in StepsOf(arg[r].type)
    BY <2>1 DEF AnalyticsSteps, StepsOf
  <2>3. Answer(r, NotFound) \/ Goto(r, s)
    BY <1>9 DEF ReportCustomer
  <2> HIDE DEF s
  <2>4. QED
    BY <1>1, <1>3, <2>2, <2>3, AnalyticsGoes
<1>10. CASE CustomerProducts(r)
  <2>1. "report.write" \in AnalyticsSteps /\ "report.write" \in StepsOf("customer-purchases")
    BY DEF AnalyticsSteps, StepsOf
  <2>2. QED
    BY <1>1, <1>3, <1>10, <2>1, AnalyticsGoes DEF CustomerProducts
<1>11. QED
  BY <1>4, <1>5, <1>6, <1>7, <1>8, <1>9, <1>10

(* The figures that are asked for, and those of customers.                 *)
LEMMA FigureSlots ==
    ASSUME Slots, AnalyticsOK, NEW r \in Requests,
           \/ CustomerCount(r) \/ CustomerSum(r) \/ Figure(r) \/ TopGroups(r) \/ TopCount(r)
           \/ ConversionCustomers(r) \/ ConversionOrders(r)
           \/ RepeatReturning(r) \/ RepeatCustomers(r)
    PROVE  Slots'
<1>1. pc[r] \in AnalyticsSteps
  BY DEF CustomerCount, CustomerSum, Figure, TopGroups, TopCount, ConversionCustomers,
         ConversionOrders, RepeatReturning, RepeatCustomers, At, AnalyticsSteps
<1>2. /\ arg[r] \in AnalyticsArgs /\ pc[r] \in StepsOf(arg[r].type) /\ pc[r] \in AllSteps
      /\ pc[r] \in Reads /\ answer[r] = 0 /\ r \notin wrote
  BY <1>1, AnalyticsArgAt
<1>3. CASE CustomerCount(r)
  <2> DEFINE n == Cardinality(OrdersOf(arg[r].customer))
             a == [arg[r] EXCEPT !.whole = n]
  <2>1. n \in Nat
    BY FiguresAreNumbers
  <2>2. arg[r].type \in {"customer-orders", "customer-total"}
    BY <1>2, <1>3, StepsFollow DEF CustomerCount, At
  <2>3. "customer.sum" \in AnalyticsSteps /\ "customer.sum" \in StepsOf(arg[r].type)
    BY <2>2 DEF AnalyticsSteps, StepsOf
  <2>4. Learn(r, a, "customer.sum")
    BY <1>3 DEF CustomerCount
  <2> HIDE DEF n
  <2>5. a \in AnalyticsArgs /\ a.type = arg[r].type
    BY <1>2, <2>1, ReportLearns
  <2> HIDE DEF a
  <2>6. QED
    BY <1>1, <2>3, <2>4, <2>5, AnalyticsLearns
<1>4. CASE CustomerSum(r)
  <2> DEFINE n == Cardinality(OrdersOf(arg[r].customer))
             a == [arg[r] EXCEPT !.part = n]
  <2>1. n \in Nat
    BY FiguresAreNumbers
  <2>2. IF a.type = "customer-orders" THEN Learn(r, a, "report.write") ELSE AnswerWith(r, a, Found)
    BY <1>4 DEF CustomerSum
  <2> HIDE DEF n
  <2>3. a \in AnalyticsArgs /\ a.type = arg[r].type
    BY <1>2, <2>1, ReportLearns
  <2>4. "report.write" \in AnalyticsSteps /\ "report.write" \in StepsOf("customer-orders")
    BY DEF AnalyticsSteps, StepsOf
  <2> HIDE DEF a
  <2>5. QED
    BY <1>1, <2>2, <2>3, <2>4, AnalyticsLearns, AnalyticsAnswers
<1>5. CASE Figure(r)
  <2>1. PICK c \in FigureAnswers(arg[r]) : Answer(r, c)
    BY <1>5 DEF Figure
  <2>2. FigureAnswers(arg[r]) \subseteq {Found, NotFound, ServerError}
    <3>1. arg[r].type \in {"products-revenue", "revenue", "average", "abandonment", "carts",
             "acquisition", "category", "customer-category", "add-to-cart", "categories"}
      <4>1. "figure" \in StepsOf(arg[r].type)
        BY <1>2, <1>5 DEF Figure, At
      <4>2. arg[r].type \in KnownTypes \cup RouteTypes \cup Getters \cup Deletions
        BY <1>2 DEF AnalyticsArgs
      <4>3. QED
        BY <4>1, <4>2 DEF StepsOf, KnownTypes, RouteTypes, Getters, Deletions
    <3>2. QED
      BY <3>1 DEF FigureAnswers, TotalProductsRevenue, TotalRevenue, SumAnswers, Always,
         CategoryWithMostPurchases, CategoryWithMostPurchasesByCustomer, AddToCartRate,
         PurchasesPerCategory
  <2>3. QED
    BY <1>2, <2>1, <2>2, Refuses, Codes
<1>6. CASE TopGroups(r)
  <2> DEFINE n == FirstPage(Cardinality(TopCustomers(arg[r].type)))
             a == [arg[r] EXCEPT !.part = n]
  <2>1. n \in Nat
    BY FiguresAreNumbers DEF FirstPage, PageSize
  <2>2. arg[r].type \in {"top-by-orders", "top-by-purchases"}
    BY <1>2, <1>6, StepsFollowToo DEF TopGroups, At
  <2>3. "top.count" \in AnalyticsSteps /\ "top.count" \in StepsOf(arg[r].type)
    BY <2>2 DEF AnalyticsSteps, StepsOf
  <2>4. Learn(r, a, "top.count")
    BY <1>6 DEF TopGroups
  <2> HIDE DEF n
  <2>5. a \in AnalyticsArgs /\ a.type = arg[r].type
    BY <1>2, <2>1, ReportLearns
  <2> HIDE DEF a
  <2>6. QED
    BY <1>1, <2>3, <2>4, <2>5, AnalyticsLearns
<1>7. CASE TopCount(r) \/ RepeatCustomers(r) \/ ConversionOrders(r)
  <2>1. \A n \in Nat : /\ [arg[r] EXCEPT !.whole = n] \in AnalyticsArgs
                       /\ [arg[r] EXCEPT !.part = n] \in AnalyticsArgs
    BY <1>2, ReportLearns
  <2>2. CASE TopCount(r)
    <3> DEFINE a == [arg[r] EXCEPT !.whole = Cardinality(TopCustomers(arg[r].type))]
    <3>1. a \in AnalyticsArgs
      BY <2>1, FiguresAreNumbers
    <3>2. AnswerWith(r, a, Found)
      BY <2>2 DEF TopCount
    <3> HIDE DEF a
    <3>3. QED
      BY <1>1, <3>1, <3>2, AnalyticsAnswers
  <2>3. CASE RepeatCustomers(r)
    <3> DEFINE a == [arg[r] EXCEPT !.whole = Cardinality(customers)]
    <3>1. a \in AnalyticsArgs
      BY <2>1, FiguresAreNumbers
    <3>2. AnswerWith(r, a, Found)
      BY <2>3 DEF RepeatCustomers
    <3> HIDE DEF a
    <3>3. QED
      BY <1>1, <3>1, <3>2, AnalyticsAnswers
  <2>4. CASE ConversionOrders(r)
    <3> DEFINE n == Cardinality(CustomersOf(Placed) \cap arg[r].among)
               a == [arg[r] EXCEPT !.part = n]
    <3>1. n \in Nat
      BY FiguresAreNumbers
    <3>2. AnswerWith(r, a, Found)
      BY <2>4 DEF ConversionOrders
    <3> HIDE DEF n
    <3>3. a \in AnalyticsArgs
      BY <2>1, <3>1
    <3> HIDE DEF a
    <3>4. QED
      BY <1>1, <3>2, <3>3, AnalyticsAnswers
  <2>5. QED
    BY <1>7, <2>2, <2>3, <2>4
<1>8. CASE ConversionCustomers(r)
  <2> DEFINE n == Cardinality(customers)
             a == [arg[r] EXCEPT !.whole = n, !.among = customers]
  <2>1. n \in Nat /\ customers \subseteq Buyers
    BY FiguresAreNumbers DEF AnalyticsOK
  <2>2. arg[r].type = "conversion"
    BY <1>2, <1>8, StepsFollowToo DEF ConversionCustomers, At
  <2>3. "conversion.orders" \in AnalyticsSteps /\ "conversion.orders" \in StepsOf("conversion")
    BY DEF AnalyticsSteps, StepsOf
  <2>4. Learn(r, a, "conversion.orders")
    BY <1>8 DEF ConversionCustomers
  <2> HIDE DEF n
  <2>5. a \in AnalyticsArgs /\ a.type = "conversion"
    BY <1>2, <2>1, <2>2 DEF AnalyticsArgs
  <2> HIDE DEF a
  <2>6. QED
    BY <1>1, <2>3, <2>4, <2>5, AnalyticsLearns
<1>9. CASE RepeatReturning(r)
  <2> DEFINE a == [arg[r] EXCEPT !.part = Cardinality(Returning)]
  <2>1. a \in AnalyticsArgs /\ a.type = arg[r].type
    BY <1>2, FiguresAreNumbers, ReportLearns
  <2>2. arg[r].type = "repeat"
    BY <1>2, <1>9, StepsFollowToo DEF RepeatReturning, At
  <2>3. "repeat.customers" \in AnalyticsSteps /\ "repeat.customers" \in StepsOf("repeat")
    BY DEF AnalyticsSteps, StepsOf
  <2>4. Learn(r, a, "repeat.customers")
    BY <1>9 DEF RepeatReturning
  <2> HIDE DEF a
  <2>5. QED
    BY <1>1, <2>1, <2>2, <2>3, <2>4, AnalyticsLearns
<1>10. QED
  BY <1>3, <1>4, <1>5, <1>6, <1>7, <1>8, <1>9

LEMMA AnalyticsSlots ==
    ASSUME Slots, AnalyticsOK, NEW r \in Requests, AnalyticsContinue(r)
    PROVE  Slots'
<1>1. CASE \/ InitializeReportPDF(r) \/ ReportAccess(r) \/ ReportUnlink(r) \/ ReportsRead(r)
           \/ NeitherNameNorType(r)
  <2>1. pc[r] \in AnalyticsSteps
    BY <1>1 DEF InitializeReportPDF, ReportAccess, ReportUnlink, ReportsRead, NeitherNameNorType,
       At, AnalyticsSteps
  <2>2. /\ arg[r] \in AnalyticsArgs /\ pc[r] \in StepsOf(arg[r].type) /\ pc[r] \in AllSteps
        /\ pc[r] \in Reads /\ answer[r] = 0 /\ r \notin wrote
    BY <2>1, AnalyticsArgAt
  <2>3. CASE NeitherNameNorType(r)
    <3>1. Moves(r, "doomed", arg[r], BadRequest, r \in wrote)
      BY <2>3, RespondMoves DEF NeitherNameNorType
    <3>2. EndedSlot("doomed", arg[r], BadRequest, r \in wrote)
      BY <2>2, Codes DEF EndedSlot, EndSteps, ShopArgs
    <3>3. QED
      BY <3>1, <3>2, SlotMoves DEF Slot
  <2>4. CASE ReportAccess(r)
    <3>1. arg[r].type = "one"
      BY <2>2, <2>4, StepsFollowToo DEF ReportAccess, At
    <3>2. "report.unlink" \in AnalyticsSteps /\ "report.unlink" \in StepsOf("one")
      BY DEF AnalyticsSteps, StepsOf
    <3>3. Answer(r, NotFound) \/ Goto(r, "report.unlink")
      BY <2>4 DEF ReportAccess
    <3>4. QED
      BY <2>1, <2>2, <3>1, <3>2, <3>3, Refuses, AnalyticsGoes, Codes
  <2>5. \A c \in {Created, Deleted} : WriteAnswerLog(r, c) => Slots'
    BY <2>2, Succeeds, Codes
  <2>6. \A c \in {NotFound, ServerError} : Answer(r, c) => Slots'
    BY <2>2, Refuses, Codes
  <2>7. CASE InitializeReportPDF(r) \/ ReportUnlink(r) \/ ReportsRead(r)
    BY <2>5, <2>6, <2>7 DEF InitializeReportPDF, ReportUnlink, ReportsRead
  <2>8. QED
    BY <1>1, <2>3, <2>4, <2>7
<1>2. QED
  BY <1>1, SalesSlots, ReportSlots, FigureSlots DEF AnalyticsContinue

(* The tables of sales, and the files.                                     *)
FileRows == {NoFile} \cup [type : KnownTypes, state : FileStates]

LEMMA FileRow ==
    /\ \A x \in FileRows, s \in FileStates :
          x.state \in FileStates => [x EXCEPT !.state = s] \in FileRows
    /\ \A t \in KnownTypes, s \in FileStates : [type |-> t, state |-> s] \in FileRows
    /\ NoFile.state \notin FileStates
<1>1. NoFile.state \notin FileStates
  BY DEF NoFile, FileStates
<1>2. \A t \in KnownTypes, s \in FileStates : [type |-> t, state |-> s] \in FileRows
  BY DEF FileRows
<1>3. ASSUME NEW x \in FileRows, NEW s \in FileStates, x.state \in FileStates
      PROVE  [x EXCEPT !.state = s] \in FileRows
  BY <1>1, <1>3 DEF FileRows
<1>4. QED
  BY <1>1, <1>2, <1>3

LEMMA FilesTyped ==
    ASSUME Slots, AnalyticsOK, NEW r \in Requests, AnalyticsContinue(r)
    PROVE  AnalyticsOK'
<1>1. file \in [Files -> FileRows]
  BY DEF AnalyticsOK, FileRows
<1>2. {"opening", "there", "unlinking", "deleted"} \subseteq FileStates
  BY DEF FileStates
<1>3. CASE UNCHANGED salesVars /\ overwritten' \in [Requests -> SUBSET Orders]
  <2>1. SUFFICES file' \in [Files -> FileRows]
    BY <1>3 DEF AnalyticsOK, salesVars, FileRows, Placed
  <2>2. CASE UNCHANGED file
    BY <1>1, <2>2
  <2>3. CASE InitializeReportPDF(r)
    <3>1. pc[r] = "report.write" /\ pc[r] \in AnalyticsSteps
      BY <2>3 DEF InitializeReportPDF, At, AnalyticsSteps
    <3>2. arg[r].type \in KnownTypes
      BY <3>1, AnalyticsArgAt, StepsFollowToo
    <3> DEFINE new == [type |-> arg[r].type, state |-> "opening"]
    <3>3. new \in FileRows
      BY <1>2, <3>2, FileRow
    <3>4. \E f \in Files : file' = [file EXCEPT ![f] = new]
      BY <2>3 DEF InitializeReportPDF
    <3> HIDE DEF new
    <3>5. QED
      BY <1>1, <3>3, <3>4
  <2>4. CASE ReportUnlink(r)
    <3> DEFINE f == arg[r].file
               new == [file[f] EXCEPT !.state = "deleted"]
    <3>1. CASE f \in Files /\ IsThere(f)
      <4>1. new \in FileRows
        BY <1>1, <1>2, <3>1, FileRow DEF IsThere
      <4>2. file' = file \/ file' = [file EXCEPT ![f] = new]
        BY <2>4 DEF ReportUnlink
      <4> HIDE DEF new
      <4>3. QED
        BY <1>1, <3>1, <4>1, <4>2
    <3>2. CASE f \notin Files \/ ~IsThere(f)
      BY <1>1, <2>4, <3>2 DEF ReportUnlink
    <3>3. QED
      BY <3>1, <3>2
  <2>5. CASE ReportsRead(r)
    <3> DEFINE found == {f \in Files : IsThere(f) /\ file[f].type \in Includes(arg[r].kind)}
               new(f) == [file[f] EXCEPT !.state = "unlinking"]
    <3>1. \A f \in found : new(f) \in FileRows
      BY <1>1, <1>2, FileRow DEF IsThere
    <3>2. UNCHANGED file \/ file' = [f \in Files |-> IF f \in found THEN new(f) ELSE file[f]]
      BY <2>5 DEF ReportsRead
    <3> HIDE DEF found, new
    <3>3. QED
      BY <1>1, <3>1, <3>2
  <2>6. QED
    BY <2>2, <2>3, <2>4, <2>5
    DEF AnalyticsContinue, analyticsVars, NoReport, GetAdminData, SalesProducts, SalesRevenue,
        SalesCount, SalesCategories, SalesStatuses, StockIn, StockOut, PurchasesCount,
        PurchasesGroups, OrdersStatus, ReportCustomer, CustomerProducts, CustomerCount, CustomerSum,
        Figure, TopGroups, TopCount, ConversionCustomers, ConversionOrders, RepeatReturning,
        RepeatCustomers, ReportAccess, NeitherNameNorType
<1>4. UNCHANGED salesVars /\ overwritten' \in [Requests -> SUBSET Orders]
  BY DEF AnalyticsOK, AnalyticsContinue, analyticsVars, NoReport, GetAdminData, SalesProducts, SalesRevenue,
         SalesCount, SalesCategories, SalesStatuses, StockIn, StockOut, PurchasesCount,
         PurchasesGroups, OrdersStatus, ReportCustomer, CustomerProducts, CustomerCount, CustomerSum,
         Figure, TopGroups, TopCount, ConversionCustomers, ConversionOrders, RepeatReturning,
         RepeatCustomers, ReportAccess, NeitherNameNorType, InitializeReportPDF, ReportUnlink,
         ReportsRead
<1>5. QED
  BY <1>3, <1>4

(* The statuses of orders are the reported ones, in their order.           *)
OrderStatuses == {ReportedStatuses[k] : k \in DOMAIN ReportedStatuses} \cup {"absent"}

LEMMA StatusesAre ==
    /\ DOMAIN ReportedStatuses = 1..7 /\ Len(ReportedStatuses) = 7
    /\ ReportedStatuses[1] = "pending" /\ ReportedStatuses[2] = "shipped"
    /\ ReportedStatuses[3] = "awaiting-pickup" /\ ReportedStatuses[4] = "delivered"
    /\ ReportedStatuses[5] = "refunded" /\ ReportedStatuses[6] = "partially-refunded"
    /\ ReportedStatuses[7] = "uncollected"
    /\ "absent" \in OrderStatuses
    /\ {"pending", "shipped", "awaiting-pickup", "delivered", "refunded", "partially-refunded",
        "uncollected"} \subseteq OrderStatuses
<1>1. /\ DOMAIN ReportedStatuses = 1..7 /\ Len(ReportedStatuses) = 7
      /\ ReportedStatuses[1] = "pending" /\ ReportedStatuses[2] = "shipped"
      /\ ReportedStatuses[3] = "awaiting-pickup" /\ ReportedStatuses[4] = "delivered"
      /\ ReportedStatuses[5] = "refunded" /\ ReportedStatuses[6] = "partially-refunded"
      /\ ReportedStatuses[7] = "uncollected"
  BY DEF ReportedStatuses
<1>2. \A k \in 1..7 : ReportedStatuses[k] \in OrderStatuses
  BY <1>1 DEF OrderStatuses
<1>3. 1 \in 1..7 /\ 2 \in 1..7 /\ 3 \in 1..7 /\ 4 \in 1..7 /\ 5 \in 1..7 /\ 6 \in 1..7 /\ 7 \in 1..7
  OBVIOUS
<1>4. {"pending", "shipped", "awaiting-pickup", "delivered", "refunded", "partially-refunded",
       "uncollected"} \subseteq OrderStatuses
  BY <1>1, <1>2, <1>3
<1>5. QED
  BY <1>1, <1>4 DEF OrderStatuses

(* An order moves on to another status, and stays placed.                  *)
LEMMA OrdersMove ==
    ASSUME AnalyticsOK, NEW o \in Orders, NEW to \in OrderStatuses \ {"absent"},
           status' = [status EXCEPT ![o] = to]
    PROVE  status' \in [Orders -> OrderStatuses] /\ Placed \subseteq Placed' /\ o \in Placed'
  BY DEF AnalyticsOK, OrderStatuses, Placed

LEMMA OrderPlacedTyped ==
    ASSUME AnalyticsOK, OrderPlaced
    PROVE  AnalyticsOK'
<1>1. PICK o \in Orders, c \in customers, some \in (SUBSET items) \ {{}} :
         /\ Life!Place(o)
         /\ buyer' = [buyer EXCEPT ![o] = c]
         /\ bought' = bought \cup {o} \X some
  BY DEF OrderPlaced
<1>2. /\ status' \in [Orders -> OrderStatuses] /\ Placed \subseteq Placed' /\ o \in Placed'
      /\ safeShipping' \in [Orders -> BOOLEAN]
  BY <1>1, OrdersMove, StatusesAre DEF Life!Place, AnalyticsOK
<1>3. buyer' \in [Orders -> Buyers \cup {None}]
      /\ {buyer'[x] : x \in Orders} \subseteq customers \cup {None}
  BY <1>1 DEF AnalyticsOK
<1>4. some \subseteq Items
  BY <1>1 DEF AnalyticsOK
<1>5. bought \subseteq Placed \X Items
  BY DEF AnalyticsOK
<1>6. \A b \in bought' : b \in Placed' \X Items
  BY <1>1, <1>2, <1>4, <1>5
<1>7. UNCHANGED <<customers, items, stocked, file, overwritten>>
  BY DEF OrderPlaced
<1>8. QED
  BY <1>2, <1>3, <1>6, <1>7 DEF AnalyticsOK, OrderStatuses

(* The life of an order, as far as a report is concerned: from one status  *)
(* to a later one of those it reads.                                       *)
LEMMA OrdersMoveOn ==
    ASSUME OrderMoved \/ OrderRefunded
    PROVE  \E o \in Orders, k \in 1..7, m \in 1..7 :
              /\ k < m /\ status[o] = ReportedStatuses[k]
              /\ status' = [status EXCEPT ![o] = ReportedStatuses[m]]
              /\ safeShipping' = safeShipping
              /\ bought' \subseteq bought
              /\ OrderMoved => bought' = bought
<1>1. CASE OrderMoved
  <2>1. PICK o \in Orders : \/ Life!Move(o, "pending", "shipped")
                            \/ Life!Move(o, "shipped", "awaiting-pickup")
                            \/ Life!Move(o, "shipped", "delivered")
                            \/ Life!Move(o, "awaiting-pickup", "delivered")
                            \/ Life!Move(o, "awaiting-pickup", "uncollected")
    BY <1>1 DEF OrderMoved, Life!Ship, Life!AwaitPickup, Life!HandOver, Life!PickUp, Life!GiveUp
  <2>2. bought' = bought
    BY <1>1 DEF OrderMoved
  <2>3. ASSUME NEW k \in 1..7, NEW m \in 1..7, k < m,
               Life!Move(o, ReportedStatuses[k], ReportedStatuses[m])
        PROVE  \E x \in Orders, i \in 1..7, j \in 1..7 :
                  /\ i < j /\ status[x] = ReportedStatuses[i]
                  /\ status' = [status EXCEPT ![x] = ReportedStatuses[j]]
                  /\ safeShipping' = safeShipping
                  /\ bought' \subseteq bought
                  /\ OrderMoved => bought' = bought
    BY <2>2, <2>3 DEF Life!Move
  <2>4. QED
    BY <2>1, <2>3, StatusesAre, SMTT(60)
<1>2. CASE OrderRefunded
  <2>1. PICK o \in Orders :
           /\ Life!Refund(o)
           /\ \E lost \in SUBSET PurchasesOf(o) : bought' = bought \ lost
    BY <1>2 DEF OrderRefunded
  <2>2. PICK from \in {"pending", "delivered"}, to \in {"refunded", "partially-refunded"} :
           Life!Move(o, from, to)
    BY <2>1 DEF Life!Refund
  <2>3. bought' \subseteq bought /\ (OrderMoved => bought' = bought)
    BY <2>1 DEF OrderMoved
  <2>4. ASSUME NEW k \in 1..7, NEW m \in 1..7, k < m,
               Life!Move(o, ReportedStatuses[k], ReportedStatuses[m])
        PROVE  \E x \in Orders, i \in 1..7, j \in 1..7 :
                  /\ i < j /\ status[x] = ReportedStatuses[i]
                  /\ status' = [status EXCEPT ![x] = ReportedStatuses[j]]
                  /\ safeShipping' = safeShipping
                  /\ bought' \subseteq bought
                  /\ OrderMoved => bought' = bought
    BY <2>3, <2>4 DEF Life!Move
  <2>5. QED
    BY <2>2, <2>4, StatusesAre, SMTT(60)
<1>3. QED
  BY <1>1, <1>2

(* ... but for one that is overwritten: from one decision to any other.    *)
LEMMA OrdersMoveBack ==
    ASSUME AnalyticsOK, OrderOverwritten
    PROVE  \E o \in Orders, k \in 1..7, m \in 1..7 :
              /\ status[o] = ReportedStatuses[k]
              /\ status' = [status EXCEPT ![o] = ReportedStatuses[m]]
              /\ safeShipping' = safeShipping
              /\ bought' \subseteq bought
              /\ \A r \in Requests : o \in overwritten'[r] /\ overwritten[r] \subseteq overwritten'[r]
              /\ overwritten' \in [Requests -> SUBSET Orders]
<1>1. PICK o \in Orders, s \in Decided :
         /\ status[o] \in Decided
         /\ status' = [status EXCEPT ![o] = s]
         /\ bought' \subseteq bought
         /\ overwritten' = [r \in Requests |-> overwritten[r] \cup {o}]
  BY DEF OrderOverwritten
<1>2. \A d \in Decided : \E k \in 1..7 : d = ReportedStatuses[k]
  BY StatusesAre DEF Decided, Refunded
<1>3. safeShipping' = safeShipping
  BY DEF OrderOverwritten
<1>4. overwritten' \in [Requests -> SUBSET Orders]
  BY <1>1 DEF AnalyticsOK
<1>5. \A r \in Requests : o \in overwritten'[r] /\ overwritten[r] \subseteq overwritten'[r]
  BY <1>1
<1>6. QED
  BY <1>1, <1>2, <1>3, <1>4, <1>5

LEMMA SalesOutsideTyped ==
    ASSUME AnalyticsOK, AnalyticsOutside
    PROVE  AnalyticsOK'
<1>1. CASE OrderPlaced
  BY <1>1, OrderPlacedTyped
<1>2. CASE OrderMoved \/ OrderRefunded \/ OrderOverwritten
  <2>1. PICK o \in Orders, m \in 1..7 :
           /\ status' = [status EXCEPT ![o] = ReportedStatuses[m]]
           /\ safeShipping' = safeShipping
           /\ bought' \subseteq bought
    BY <1>2, OrdersMoveOn, OrdersMoveBack
  <2>2. ReportedStatuses[m] \in OrderStatuses \ {"absent"}
    BY StatusesAre
  <2>3. status' \in [Orders -> OrderStatuses] /\ Placed \subseteq Placed'
    BY <2>1, <2>2, OrdersMove
  <2>4. UNCHANGED <<buyer, customers, items, stocked, file>>
        /\ overwritten' \in [Requests -> SUBSET Orders]
    BY <1>2, OrdersMoveBack DEF OrderMoved, OrderRefunded, OrderOverwritten, AnalyticsOK
  <2>5. bought \subseteq Placed \X Items /\ \A b \in bought' : b \in Placed' \X Items
    BY <2>1, <2>3, <2>4 DEF AnalyticsOK
  <2>6. QED
    BY <2>1, <2>3, <2>4, <2>5 DEF AnalyticsOK, OrderStatuses
<1>3. CASE CustomerDeleted
  BY <1>3 DEF CustomerDeleted, AnalyticsOK, Placed
<1>4. CASE ItemChanged
  BY <1>4 DEF ItemChanged, AnalyticsOK, Placed
<1>5. CASE FileDone
  <2>1. file' \in [Files -> FileRows]
    <3>1. file \in [Files -> FileRows]
      BY DEF AnalyticsOK, FileRows
    <3>2. PICK f \in Files, s \in {"there", "deleted"} :
             file[f].state \in FileStates /\ file' = [file EXCEPT ![f].state = s]
      BY <1>5 DEF FileDone, FileStates
    <3> DEFINE new == [file[f] EXCEPT !.state = s]
    <3>3. new \in FileRows
      BY <3>1, <3>2, FileRow DEF FileStates
    <3>4. file' = [file EXCEPT ![f] = new]
      BY <3>2
    <3> HIDE DEF new
    <3>5. QED
      BY <3>1, <3>3, <3>4
  <2>2. UNCHANGED <<salesVars, overwritten>>
    BY <1>5 DEF FileDone
  <2>3. QED
    BY <2>1, <2>2 DEF AnalyticsOK, salesVars, FileRows, Placed
<1>6. QED
  BY <1>1, <1>2, <1>3, <1>4, <1>5 DEF AnalyticsOutside

-----------------------------------------------------------------------------
(* A step of one handler is nobody else's.                                 *)
Alone(r) ==
    /\ deaths' = deaths
    /\ \A q \in Requests \ {r} :
          /\ pc'[q] = pc[q] /\ arg'[q] = arg[q] /\ answer'[q] = answer[q]
          /\ q \in wrote' <=> q \in wrote

LEMMA AloneMoves ==
    ASSUME Slots, NEW r \in Requests
    PROVE  /\ \A a, s : /\ Begin(r, a, s) => Alone(r) /\ pc[r] = "idle"
                        /\ Learn(r, a, s) => Alone(r)
                        /\ WriteLearn(r, a, s) => Alone(r)
                        /\ AnswerWith(r, a, s) => Alone(r)
           /\ \A s : Goto(r, s) => Alone(r)
           /\ \A s : WriteGoto(r, s) => Alone(r)
           /\ \A c : Answer(r, c) => Alone(r)
           /\ \A c : AnswerLog(r, c) => Alone(r)
           /\ \A c : WriteAnswer(r, c) => Alone(r)
           /\ \A c : WriteAnswerLog(r, c) => Alone(r)
           /\ \A c, s : Respond(r, c, s) /\ UNCHANGED wrote => Alone(r)
           /\ Finish(r) => Alone(r)
<1>1. \A s, a, c, w : Moves(r, s, a, c, w) => Alone(r)
  BY DEF Moves, Alone
<1>2. \A a, s : /\ Begin(r, a, s) => Alone(r) /\ pc[r] = "idle"
                /\ Learn(r, a, s) => Alone(r)
                /\ WriteLearn(r, a, s) => Alone(r)
                /\ AnswerWith(r, a, s) => Alone(r)
  BY <1>1, BeginMoves, LearnMoves, WriteLearnMoves, AnswerWithMoves
<1>3. \A s : (Goto(r, s) => Alone(r)) /\ (WriteGoto(r, s) => Alone(r))
  BY <1>1, GotoMoves, WriteGotoMoves
<1>4. \A c : /\ Answer(r, c) => Alone(r)
             /\ AnswerLog(r, c) => Alone(r)
             /\ WriteAnswer(r, c) => Alone(r)
             /\ WriteAnswerLog(r, c) => Alone(r)
  BY <1>1, AnswerMoves
<1>5. (\A c, s : Respond(r, c, s) /\ UNCHANGED wrote => Alone(r)) /\ (Finish(r) => Alone(r))
  BY <1>1, RespondMoves, FinishMoves
<1>6. QED
  BY <1>2, <1>3, <1>4, <1>5

LEMMA CatalogAlone ==
    ASSUME Slots, NEW r \in Requests, CatalogArrive(r) \/ CatalogContinue(r)
    PROVE  Alone(r)
<1>1. CASE CatalogArrive(r)
  BY <1>1, AloneMoves
  DEF CatalogArrive, AddCategory, DeleteCategory, UpdateCategory, AddProduct, View, DeleteProduct,
      Discount, UpdateProduct
<1>2. CASE \/ AddCategoryFind(r) \/ AddCategoryInsert(r)
           \/ AddProductCategory(r) \/ AddProductNames(r) \/ AddProductCreate(r)
           \/ AddProductJob(r) \/ AddProductRecord(r)
  BY <1>2, AloneMoves
  DEF AddCategoryFind, AddCategoryInsert, AddProductCategory, AddProductNames, AddProductCreate,
      AddProductJob, AddProductRecord
<1>3. CASE \/ PromoSadd(r) \/ PromoCount(r) \/ PromoMembers(r)
           \/ ViewFind(r) \/ ViewSave(r)
           \/ UpdateCategoryFind(r) \/ UpdateCategorySave(r) \/ DiscountFind(r) \/ DiscountSave(r)
  BY <1>3, AloneMoves
  DEF PromoSadd, PromoCount, PromoMembers, ViewFind, ViewSave, UpdateCategoryFind,
      UpdateCategorySave, DiscountFind, DiscountSave
<1>4. CASE \/ UpdateFind(r) \/ UpdateSave(r)
           \/ DeleteCategoryFind(r) \/ DeleteCategoryDestroy(r)
           \/ DeleteProductFind(r) \/ DeleteProductDestroy(r)
  BY <1>4, AloneMoves
  DEF UpdateFind, UpdateSave, DeleteCategoryFind, DeleteCategoryDestroy, DeleteProductFind, DeleteProductDestroy
<1>5. QED
  BY <1>1, <1>2, <1>3, <1>4 DEF CatalogContinue

LEMMA RatingsAlone ==
    ASSUME Slots, NEW r \in Requests, RatingsArrive(r) \/ RatingsContinue(r)
    PROVE  Alone(r)
<1>1. CASE RatingsArrive(r)
  BY <1>1, AloneMoves DEF RatingsArrive, Rate, List, Own, Notice
<1>2. CASE RatingsContinue(r)
  BY <1>2, AloneMoves
  DEF RatingsContinue, RateFind, RateCreate, ListFind, ListAnswer, UpdateOwn, DeleteOwn, DeleteAny,
      NoticeAll, NoticeNone, MarkFind, MarkSave, RemoveNotification
<1>3. QED
  BY <1>1, <1>2

LEMMA ShippingAlone ==
    ASSUME Slots, NEW r \in Requests, ShippingArrive(r) \/ ShippingContinue(r)
    PROVE  Alone(r)
<1>1. CASE ShippingArrive(r)
  BY <1>1, AloneMoves
  DEF ShippingArrive, AddCountry, DeleteCountry, ListCities, AddCity, UpdateCountry, Calculate,
      DeleteCity, UpdateCity, ChangeMethod, ChangeWeight, WeighCart
<1>2. CASE \/ AddCountryFind(r) \/ AddCountryInsert(r)
           \/ AddCityCountry(r) \/ AddCityFind(r) \/ AddCityInsert(r) \/ ListCitiesAnswer(r)
           \/ UpdateCountryFind(r) \/ UpdateCountrySave(r) \/ UpdateCityFind(r) \/ UpdateCitySave(r)
  BY <1>2, AloneMoves
  DEF AddCountryFind, AddCountryInsert, AddCityCountry, AddCityFind, AddCityInsert,
      ListCitiesAnswer, UpdateCountryFind, UpdateCountrySave, UpdateCityFind, UpdateCitySave
<1>3. CASE \/ DeleteCountryDestroy(r) \/ DeleteCityDestroy(r)
           \/ ChangeMethodFind(r) \/ ChangeMethodSave(r) \/ ChangeWeightFind(r)
           \/ ChangeWeightSave(r)
           \/ WeighCartFind(r) \/ CostCountry(r) \/ CostSafe(r) \/ CostWeight(r)
  BY <1>3, AloneMoves
  DEF DeleteCountryDestroy, DeleteCityDestroy, ChangeMethodFind, ChangeMethodSave, ChangeWeightFind,
      ChangeWeightSave, WeighCartFind, CostCountry, CostSafe, CostWeight
<1>4. QED
  BY <1>1, <1>2, <1>3 DEF ShippingContinue

LEMMA AnalyticsAlone ==
    ASSUME Slots, NEW r \in Requests,
           FiguresArrive(r) \/ DeletionsArrive(r) \/ AnalyticsContinue(r)
    PROVE  Alone(r)
<1>1. CASE FiguresArrive(r) \/ DeletionsArrive(r)
  BY <1>1, AloneMoves DEF FiguresArrive, DeletionsArrive, GenerateReport, Getter, DeleteReport
<1>2. CASE \/ NoReport(r) \/ GetAdminData(r) \/ InitializeReportPDF(r) \/ SalesProducts(r)
           \/ SalesRevenue(r) \/ SalesCount(r) \/ SalesCategories(r) \/ SalesStatuses(r)
           \/ StockIn(r) \/ StockOut(r) \/ PurchasesCount(r) \/ PurchasesGroups(r)
           \/ OrdersStatus(r)
  BY <1>2, AloneMoves
  DEF NoReport, GetAdminData, InitializeReportPDF, SalesProducts, SalesRevenue, SalesCount,
      SalesCategories, SalesStatuses, StockIn, StockOut, PurchasesCount, PurchasesGroups,
      OrdersStatus, Sum
<1>3. CASE \/ ReportCustomer(r) \/ CustomerProducts(r) \/ CustomerCount(r) \/ CustomerSum(r)
           \/ Figure(r) \/ TopGroups(r) \/ TopCount(r)
           \/ ConversionCustomers(r) \/ ConversionOrders(r)
           \/ RepeatReturning(r) \/ RepeatCustomers(r)
           \/ ReportAccess(r) \/ ReportUnlink(r) \/ ReportsRead(r) \/ NeitherNameNorType(r)
  BY <1>3, AloneMoves
  DEF ReportCustomer, CustomerProducts, CustomerCount, CustomerSum, Figure, TopGroups, TopCount,
      ConversionCustomers, ConversionOrders, RepeatReturning, RepeatCustomers, ReportAccess,
      ReportUnlink, ReportsRead, NeitherNameNorType
<1>4. QED
  BY <1>1, <1>2, <1>3 DEF AnalyticsContinue

-----------------------------------------------------------------------------
(* The whole.                                                              *)
LEMMA TypedParts ==
    TypeOK <=> /\ RequestsOK(AllSteps, ShopArgs)
               /\ CatalogOK /\ RatingsOK /\ ShippingOK /\ AnalyticsOK
  BY DEF TypeOK, AllSteps, ShopArgs

HandlersOK == RequestsOK(AllSteps, ShopArgs)
HistoryOK == alone \in BOOLEAN /\ deaths \in 0..Deaths

LEMMA SlotsAreTyped == Slots /\ HistoryOK => HandlersOK
  BY SlotsTyped DEF HandlersOK, HistoryOK

LEMMA InitialRows ==
    /\ CatalogInit => CatalogOK /\ JobsAreOfProducts
    /\ RatingsInit => RatingsOK
    /\ ShippingInit => ShippingOK
    /\ AnalyticsInit => AnalyticsOK
<1>1. CatalogInit => CatalogOK /\ JobsAreOfProducts
  <2>1. NoCategory \in CategoryRows /\ NoProduct \in ProductRows /\ NoJob \in JobRows
    BY CatalogAssumption
    DEF NoCategory, NoProduct, NoJob, CategoryRows, ProductRows, JobRows, JobStates, States, Moments,
        NoMoment
  <2>2. NoJob.state \notin {"delayed", "active"}
    BY DEF NoJob
  <2>3. 0 \in 0..Horizon /\ 0 \in 0..MaxViews
    BY CatalogAssumption
  <2>4. CatalogInit => CatalogOK
    <3> SUFFICES ASSUME CatalogInit PROVE CatalogOK
      OBVIOUS
    <3>1. now \in 0..Horizon /\ viewings \in [Products -> 0..MaxViews]
      BY <2>3 DEF CatalogInit
    <3>2. category \in [Categories -> CategoryRows] /\ product \in [Products -> ProductRows]
      BY <2>1 DEF CatalogInit
    <3>3. job \in [Jobs -> JobRows] /\ entry \in [Products -> Jobs \cup {None}]
      BY <2>1 DEF CatalogInit
    <3>4. /\ promo \in [Kinds -> SUBSET Products]
          /\ renamed \in BOOLEAN /\ early \in SUBSET Products
      BY DEF CatalogInit
    <3>5. QED
      BY <3>1, <3>2, <3>3, <3>4 DEF CatalogOK
  <2>5. CatalogInit => JobsAreOfProducts
    BY <2>2 DEF CatalogInit, JobsAreOfProducts
  <2>6. QED
    BY <2>4, <2>5
<1>2. RatingsInit => RatingsOK
  BY DEF RatingsInit, RatingsOK
<1>3. ShippingInit => ShippingOK
  <2>1. NoCity.state # "live"
    BY DEF NoCity
  <2>2. 1 \in Rates
    BY ShippingAssumption DEF Rates
  <2>3. QED
    BY <2>1, <2>2 DEF ShippingInit, ShippingOK
<1>4. AnalyticsInit => AnalyticsOK
  BY StatusesAre DEF AnalyticsInit, AnalyticsOK, Life!Init, OrderStatuses, Placed
<1>5. QED
  BY <1>1, <1>2, <1>3, <1>4

LEMMA InitInvariant == Init => IInv
<1> SUFFICES ASSUME Init PROVE IInv
  OBVIOUS
<1>1. CatalogOK /\ JobsAreOfProducts /\ RatingsOK /\ ShippingOK /\ AnalyticsOK
  BY InitialRows DEF Init
<1>2. Slots
  BY DEF Init, RequestsInit, Slots, Slot
<1>3. alone \in BOOLEAN /\ deaths \in 0..Deaths
  BY RequestsAssumption DEF Init, RequestsInit
<1>4. QED
  BY <1>1, <1>2, <1>3, SlotsTyped, TypedParts DEF IInv

LEMMA Kept ==
    /\ CatalogOK /\ JobsAreOfProducts /\ UNCHANGED catalogVars => CatalogOK' /\ JobsAreOfProducts'
    /\ RatingsOK /\ UNCHANGED ratingVars => RatingsOK'
    /\ ShippingOK /\ UNCHANGED shippingVars => ShippingOK'
    /\ AnalyticsOK /\ UNCHANGED analyticsVars => AnalyticsOK'
<1>1. CatalogOK /\ JobsAreOfProducts /\ UNCHANGED catalogVars => CatalogOK' /\ JobsAreOfProducts'
  BY CatalogKept
<1>2. RatingsOK /\ UNCHANGED ratingVars => RatingsOK'
  BY DEF RatingsOK, ratingVars
<1>3. ShippingOK /\ UNCHANGED shippingVars => ShippingOK'
  BY DEF ShippingOK, shippingVars
<1>4. AnalyticsOK /\ UNCHANGED analyticsVars => AnalyticsOK'
  BY DEF AnalyticsOK, analyticsVars, salesVars, Placed
<1>5. QED
  BY <1>1, <1>2, <1>3, <1>4

LEMMA CatalogNextTyped ==
    ASSUME IInv, CatalogNext
    PROVE  /\ Slots' /\ CatalogOK' /\ JobsAreOfProducts' /\ RatingsOK' /\ ShippingOK' /\ AnalyticsOK'
           /\ alone' \in BOOLEAN /\ deaths' = deaths
<1>1. /\ Slots /\ CatalogOK /\ JobsAreOfProducts /\ RatingsOK /\ ShippingOK /\ AnalyticsOK
  BY TypedParts DEF IInv
<1>2. RatingsOK' /\ ShippingOK' /\ AnalyticsOK'
  BY <1>1, Kept DEF CatalogNext
<1>3. alone' \in BOOLEAN
  BY DEF CatalogNext, HandlerStep, OutsideStep
<1>4. ASSUME NEW r \in Requests, CatalogArrive(r) \/ CatalogContinue(r)
      PROVE  Slots' /\ CatalogOK' /\ JobsAreOfProducts' /\ deaths' = deaths
  BY <1>1, <1>4, CatalogArriveSlots, CatalogContinues, CatalogKept, CatalogAlone DEF Alone
<1>5. ASSUME CatalogWorker \/ Tick
      PROVE  Slots' /\ CatalogOK' /\ JobsAreOfProducts' /\ deaths' = deaths
  BY <1>1, <1>5, WorkerTyped DEF CatalogWorker, RemovalFind, RemovalDestroy, Tick, requestVars
<1>6. QED
  BY <1>2, <1>3, <1>4, <1>5 DEF CatalogNext

LEMMA RatingsNextTyped ==
    ASSUME IInv, RatingsNext
    PROVE  /\ Slots' /\ CatalogOK' /\ JobsAreOfProducts' /\ RatingsOK' /\ ShippingOK' /\ AnalyticsOK'
           /\ alone' \in BOOLEAN /\ deaths' = deaths
<1>1. /\ Slots /\ CatalogOK /\ JobsAreOfProducts /\ RatingsOK /\ ShippingOK /\ AnalyticsOK
  BY TypedParts DEF IInv
<1>2. CatalogOK' /\ JobsAreOfProducts' /\ ShippingOK' /\ AnalyticsOK'
  BY <1>1, Kept DEF RatingsNext
<1>3. alone' \in BOOLEAN
  BY DEF RatingsNext, HandlerStep, OutsideStep
<1>4. ASSUME NEW r \in Requests, RatingsArrive(r) \/ RatingsContinue(r)
      PROVE  Slots' /\ RatingsOK' /\ deaths' = deaths
  BY <1>1, <1>4, RatingsArriveSlots, RatingSlots, RatingsTyped, Kept, RatingsAlone DEF Alone
<1>5. ASSUME RatingsOutside
      PROVE  Slots' /\ RatingsOK' /\ deaths' = deaths
  BY <1>1, <1>5, RatingsOutsideTyped DEF RatingsOutside, Gone, SendNotification, requestVars
<1>6. QED
  BY <1>2, <1>3, <1>4, <1>5 DEF RatingsNext

LEMMA ShippingNextTyped ==
    ASSUME IInv, ShippingNext
    PROVE  /\ Slots' /\ CatalogOK' /\ JobsAreOfProducts' /\ RatingsOK' /\ ShippingOK' /\ AnalyticsOK'
           /\ alone' \in BOOLEAN /\ deaths' = deaths
<1>1. /\ Slots /\ CatalogOK /\ JobsAreOfProducts /\ RatingsOK /\ ShippingOK /\ AnalyticsOK
  BY TypedParts DEF IInv
<1>2. CatalogOK' /\ JobsAreOfProducts' /\ RatingsOK' /\ AnalyticsOK'
  BY <1>1, Kept DEF ShippingNext
<1>3. alone' \in BOOLEAN
  BY DEF ShippingNext, HandlerStep
<1>4. ASSUME NEW r \in Requests, ShippingArrive(r) \/ ShippingContinue(r)
      PROVE  Slots' /\ ShippingOK' /\ deaths' = deaths
  BY <1>1, <1>4, ShippingArriveSlots, ShippingSlots, ShippingTyped, Kept, ShippingAlone DEF Alone
<1>5. QED
  BY <1>2, <1>3, <1>4 DEF ShippingNext

LEMMA AnalyticsNextTyped ==
    ASSUME IInv, AnalyticsNext
    PROVE  /\ Slots' /\ CatalogOK' /\ JobsAreOfProducts' /\ RatingsOK' /\ ShippingOK' /\ AnalyticsOK'
           /\ alone' \in BOOLEAN /\ deaths' = deaths
<1>1. /\ Slots /\ CatalogOK /\ JobsAreOfProducts /\ RatingsOK /\ ShippingOK /\ AnalyticsOK
  BY TypedParts DEF IInv
<1>2. CatalogOK' /\ JobsAreOfProducts' /\ RatingsOK' /\ ShippingOK'
  BY <1>1, Kept DEF AnalyticsNext
<1>3. alone' \in BOOLEAN
  BY DEF AnalyticsNext, HandlerStep, OutsideStep
<1>4. ASSUME NEW r \in Requests, FiguresArrive(r) \/ DeletionsArrive(r) \/ AnalyticsContinue(r)
      PROVE  Slots' /\ AnalyticsOK' /\ deaths' = deaths
  BY <1>1, <1>4, FiguresArriveSlots, AnalyticsSlots, FilesTyped, Kept, AnalyticsAlone DEF Alone
<1>5. ASSUME AnalyticsOutside
      PROVE  Slots' /\ AnalyticsOK' /\ deaths' = deaths
  <2>1. UNCHANGED requestVars
    BY <1>5 DEF AnalyticsOutside, OrderPlaced, OrderMoved, OrderRefunded, OrderOverwritten,
       CustomerDeleted, ItemChanged, FileDone
  <2>2. QED
    BY <1>1, <1>5, <2>1, SalesOutsideTyped, SlotsKept DEF requestVars
<1>6. QED
  BY <1>2, <1>3, <1>4, <1>5 DEF AnalyticsNext

(* A handler that has answered is done; or it answers twice, and all die.  *)
LEMMA HandlersEndTyped ==
    ASSUME IInv, HandlersEnd
    PROVE  /\ Slots' /\ CatalogOK' /\ JobsAreOfProducts' /\ RatingsOK' /\ ShippingOK' /\ AnalyticsOK'
           /\ alone' \in BOOLEAN /\ deaths' \in 0..Deaths
<1>1. /\ Slots /\ CatalogOK /\ JobsAreOfProducts /\ RatingsOK /\ ShippingOK /\ AnalyticsOK
      /\ alone \in BOOLEAN /\ deaths \in 0..Deaths
  BY TypedParts DEF IInv, RequestsOK
<1>2. RatingsOK' /\ ShippingOK' /\ AnalyticsOK' /\ alone' \in BOOLEAN
  BY <1>1, Kept DEF HandlersEnd
<1>3. ASSUME NEW r \in Requests, Finish(r), UNCHANGED catalogVars
      PROVE  Slots' /\ CatalogOK' /\ JobsAreOfProducts' /\ deaths' = deaths
  <2>1. Slot("idle", None, 0, FALSE)
    BY DEF Slot
  <2>2. Moves(r, "idle", None, 0, FALSE)
    BY <1>1, <1>3, FinishMoves
  <2>3. QED
    BY <1>1, <1>3, <2>1, <2>2, SlotMoves, CatalogKept DEF Moves
<1>4. ASSUME Die, Stalled,
             UNCHANGED <<alone, now, category, product, entry, promo, viewings, renamed, early>>
      PROVE  Slots' /\ CatalogOK' /\ JobsAreOfProducts' /\ deaths' \in 0..Deaths
  <2>1. Slots'
    BY <1>4 DEF Die, Slots, Slot
  <2>2. CatalogOK' /\ JobsAreOfProducts'
    BY <1>1, <1>4, StalledTyped
  <2>3. deaths' \in 0..Deaths
    BY <1>1, <1>4, RequestsAssumption DEF Die
  <2>4. QED
    BY <2>1, <2>2, <2>3
<1>5. Slots' /\ CatalogOK' /\ JobsAreOfProducts' /\ deaths' \in 0..Deaths
  BY <1>1, <1>3, <1>4 DEF HandlersEnd, Answered, LogOperation, AnswerTwice
<1>6. QED
  BY <1>2, <1>5

LEMMA NextInvariant == IInv /\ [Next]_vars => IInv'
<1> SUFFICES ASSUME IInv, [Next]_vars PROVE IInv'
  OBVIOUS
<1>1. alone \in BOOLEAN /\ deaths \in 0..Deaths
  BY TypedParts DEF IInv, RequestsOK
<1>2. CASE UNCHANGED vars
  <2>1. Slots'
    BY <1>2, SlotsKept DEF IInv, vars
  <2>2. /\ CatalogOK' /\ JobsAreOfProducts' /\ RatingsOK' /\ ShippingOK' /\ AnalyticsOK'
        /\ alone' \in BOOLEAN /\ deaths' \in 0..Deaths
    BY <1>1, <1>2, TypedParts, Kept DEF IInv, vars, requestVars
  <2>3. HistoryOK'
    BY <2>2 DEF HistoryOK
  <2>4. HandlersOK'
    BY <2>1, <2>3, SlotsAreTyped, PTL
  <2>5. TypeOK'
    BY <2>2, <2>4, TypedParts, PTL DEF HandlersOK
  <2>6. QED
    BY <2>1, <2>2, <2>5 DEF IInv
<1>3. CASE Next
  <2>1. /\ Slots' /\ CatalogOK' /\ JobsAreOfProducts' /\ RatingsOK' /\ ShippingOK' /\ AnalyticsOK'
        /\ alone' \in BOOLEAN /\ deaths' \in 0..Deaths
    BY <1>1, <1>3, CatalogNextTyped, RatingsNextTyped, ShippingNextTyped, AnalyticsNextTyped,
       HandlersEndTyped DEF Next
  <2>2. HistoryOK'
    BY <2>1 DEF HistoryOK
  <2>3. HandlersOK'
    BY <2>1, <2>2, SlotsAreTyped, PTL
  <2>4. TypeOK'
    BY <2>1, <2>3, TypedParts, PTL DEF HandlersOK
  <2>5. QED
    BY <2>1, <2>4 DEF IInv
<1>4. QED
  BY <1>2, <1>3

(* However handlers interleave, what each knows is what its next step      *)
(* needs, and the tables keep their types.                                 *)
THEOREM Invariance == Spec => []IInv
<1>1. Init => IInv
  BY InitInvariant
<1>2. IInv /\ [Next]_vars => IInv'
  BY NextInvariant
<1>3. QED
  BY <1>1, <1>2, PTL DEF Spec

(* The types of every variable of the shop.                                *)
THEOREM TypeCorrect == Spec => []TypeOK
<1>1. IInv => TypeOK
  BY DEF IInv
<1>2. QED
  BY <1>1, Invariance, PTL

-----------------------------------------------------------------------------
(* What the figures count.                                                 *)
LEMMA StatusesDiffer == \A i \in 1..7, j \in 1..7 : ReportedStatuses[i] = ReportedStatuses[j] => i = j
<1> SUFFICES ASSUME NEW i \in 1..7, NEW j \in 1..7, ReportedStatuses[i] = ReportedStatuses[j]
             PROVE  i = j
  OBVIOUS
<1>1. i \in {1, 2, 3, 4, 5, 6, 7} /\ j \in {1, 2, 3, 4, 5, 6, 7}
  OBVIOUS
<1>2. QED
  BY <1>1, StatusesAre

LEMMA UnreadIs ==
    ASSUME AnalyticsOK
    PROVE  /\ Unread(1) = Placed
           /\ Unread(7) = OrdersWith(ReportedStatuses[7])
           /\ \A k \in 1..6 : /\ Unread(k) = OrdersWith(ReportedStatuses[k]) \cup Unread(k + 1)
                              /\ OrdersWith(ReportedStatuses[k]) \cap Unread(k + 1) = {}
<1>1. Unread(1) = Placed
  <2>1. \A m \in 1..7 : ReportedStatuses[m] # "absent"
    <3> TAKE m \in 1..7
    <3>1. m \in {1, 2, 3, 4, 5, 6, 7}
      OBVIOUS
    <3>2. QED
      BY <3>1, StatusesAre
  <2>2. \A o \in Orders : status[o] # "absent" => \E m \in 1..7 : status[o] = ReportedStatuses[m]
    BY StatusesAre DEF AnalyticsOK
  <2>3. QED
    BY <2>1, <2>2, StatusesAre DEF Unread, Placed
<1>2. Unread(7) = OrdersWith(ReportedStatuses[7])
  <2>1. 7..7 = {7}
    OBVIOUS
  <2>2. QED
    BY <2>1, StatusesAre DEF Unread, OrdersWith
<1>3. ASSUME NEW k \in 1..6
      PROVE  /\ Unread(k) = OrdersWith(ReportedStatuses[k]) \cup Unread(k + 1)
             /\ OrdersWith(ReportedStatuses[k]) \cap Unread(k + 1) = {}
  <2>1. k..7 = {k} \cup (k + 1)..7 /\ k \notin (k + 1)..7 /\ k \in 1..7 /\ (k + 1)..7 \subseteq 1..7
    OBVIOUS
  <2>2. Unread(k) = OrdersWith(ReportedStatuses[k]) \cup Unread(k + 1)
    BY <2>1, StatusesAre DEF Unread, OrdersWith
  <2>3. OrdersWith(ReportedStatuses[k]) \cap Unread(k + 1) = {}
    BY <2>1, StatusesAre, StatusesDiffer DEF Unread, OrdersWith
  <2>4. QED
    BY <2>2, <2>3
<1>4. QED
  BY <1>1, <1>2, <1>3

LEMMA CountedIs ==
    ASSUME AnalyticsOK
    PROVE  /\ Counted(1) = {} /\ Counted(8) = Placed
           /\ \A k \in 1..7 : /\ Counted(k + 1) = OrdersWith(ReportedStatuses[k]) \cup Counted(k)
                              /\ OrdersWith(ReportedStatuses[k]) \cap Counted(k) = {}
<1>1. Counted(1) = {}
  <2>1. 1..1 - 1 = {}
    OBVIOUS
  <2>2. QED
    BY <2>1 DEF Counted
<1>2. Counted(8) = Placed
  <2>1. 8 - 1 = 7
    OBVIOUS
  <2>2. Counted(8) = Unread(1)
    BY <2>1, StatusesAre DEF Counted, Unread
  <2>3. QED
    BY <2>2, UnreadIs
<1>3. ASSUME NEW k \in 1..7
      PROVE  /\ Counted(k + 1) = OrdersWith(ReportedStatuses[k]) \cup Counted(k)
             /\ OrdersWith(ReportedStatuses[k]) \cap Counted(k) = {}
  <2>1. /\ 1..(k + 1) - 1 = {k} \cup 1..k - 1 /\ k \notin 1..k - 1 /\ 1..k - 1 \subseteq 1..7
    OBVIOUS
  <2>2. Counted(k + 1) = OrdersWith(ReportedStatuses[k]) \cup Counted(k)
    BY <2>1 DEF Counted, OrdersWith
  <2>3. OrdersWith(ReportedStatuses[k]) \cap Counted(k) = {}
    BY <2>1, StatusesDiffer DEF Counted, OrdersWith
  <2>4. QED
    BY <2>2, <2>3
<1>4. QED
  BY <1>1, <1>2, <1>3

LEMMA ReadOneByOne ==
    ASSUME AnalyticsOK
    PROVE  /\ \A k \in 1..8 : Cardinality(Unread(k)) \in Nat /\ Cardinality(Counted(k)) \in Nat
           /\ \A k \in 1..6 : Cardinality(Unread(k)) =
                 OfStatus(ReportedStatuses[k]) + Cardinality(Unread(k + 1))
           /\ Cardinality(Unread(7)) = OfStatus(ReportedStatuses[7])
           /\ \A k \in 1..7 : Cardinality(Counted(k + 1)) =
                 OfStatus(ReportedStatuses[k]) + Cardinality(Counted(k))
<1>1. \A k \in 1..8 : Unread(k) \subseteq Orders /\ Counted(k) \subseteq Orders
  BY DEF Unread, Counted
<1>2. \A k \in 1..8 : IsFiniteSet(Unread(k)) /\ IsFiniteSet(Counted(k))
  BY <1>1, AnalyticsAssumption, FS_Subset
<1>3. \A s : IsFiniteSet(OrdersWith(s)) /\ Cardinality(OrdersWith(s)) = OfStatus(s)
  BY SalesAreFinite DEF OfStatus, OrdersWith
<1>4. \A k \in 1..8 : Cardinality(Unread(k)) \in Nat /\ Cardinality(Counted(k)) \in Nat
  BY <1>2, FS_CardinalityType
<1>5. \A s : OfStatus(s) \in Nat
  BY FiguresAreNumbers
<1>6. ASSUME NEW k \in 1..6
      PROVE  Cardinality(Unread(k)) = OfStatus(ReportedStatuses[k]) + Cardinality(Unread(k + 1))
  <2> DEFINE x == OrdersWith(ReportedStatuses[k])
             y == Unread(k + 1)
  <2>1. Unread(k) = x \cup y /\ x \cap y = {}
    BY UnreadIs
  <2>2. k + 1 \in 1..8
    OBVIOUS
  <2>3. IsFiniteSet(x) /\ IsFiniteSet(y) /\ Cardinality(x) = OfStatus(ReportedStatuses[k])
        /\ Cardinality(x) \in Nat /\ Cardinality(y) \in Nat
    BY <1>2, <1>3, <1>4, <1>5, <2>2
  <2> HIDE DEF x, y
  <2>4. Cardinality(x \cup y) = Cardinality(x) + Cardinality(y) - Cardinality(x \cap y)
    BY <2>3, FS_Union
  <2>5. Cardinality(x \cap y) = 0
    BY <2>1, FS_EmptySet
  <2>6. Cardinality(x \cup y) = Cardinality(x) + Cardinality(y)
    BY <2>3, <2>4, <2>5
  <2>7. QED
    BY <2>1, <2>3, <2>6 DEF y
<1>7. ASSUME NEW k \in 1..7
      PROVE  Cardinality(Counted(k + 1)) = OfStatus(ReportedStatuses[k]) + Cardinality(Counted(k))
  <2> DEFINE x == OrdersWith(ReportedStatuses[k])
             y == Counted(k)
  <2>1. Counted(k + 1) = x \cup y /\ x \cap y = {}
    BY CountedIs
  <2>2. k \in 1..8
    OBVIOUS
  <2>3. IsFiniteSet(x) /\ IsFiniteSet(y) /\ Cardinality(x) = OfStatus(ReportedStatuses[k])
        /\ Cardinality(x) \in Nat /\ Cardinality(y) \in Nat
    BY <1>2, <1>3, <1>4, <1>5, <2>2
  <2> HIDE DEF x, y
  <2>4. Cardinality(x \cup y) = Cardinality(x) + Cardinality(y) - Cardinality(x \cap y)
    BY <2>3, FS_Union
  <2>5. Cardinality(x \cap y) = 0
    BY <2>1, FS_EmptySet
  <2>6. Cardinality(x \cup y) = Cardinality(x) + Cardinality(y)
    BY <2>3, <2>4, <2>5
  <2>7. QED
    BY <2>1, <2>3, <2>6 DEF y
<1>8. Cardinality(Unread(7)) = OfStatus(ReportedStatuses[7])
  BY <1>3, UnreadIs
<1>9. QED
  BY <1>4, <1>6, <1>7, <1>8

LEMMA UnionIsAtMost ==
    ASSUME NEW x, NEW y, IsFiniteSet(x), IsFiniteSet(y)
    PROVE  Cardinality(x \cup y) <= Cardinality(x) + Cardinality(y)
<1>1. Cardinality(x) \in Nat /\ Cardinality(y) \in Nat
  BY FS_CardinalityType
<1>2. IsFiniteSet(x \cap y)
  BY FS_Intersection
<1>3. Cardinality(x \cap y) \in Nat
  BY <1>2, FS_CardinalityType
<1>4. Cardinality(x \cup y) = Cardinality(x) + Cardinality(y) - Cardinality(x \cap y)
  BY FS_Union
<1>5. QED
  BY <1>1, <1>3, <1>4

(* With the orders that were overwritten, what is yet to be read shrinks   *)
(* by no more than what is read.                                           *)
LEMMA ReadWithLost ==
    ASSUME AnalyticsOK, NEW lost \in SUBSET Orders
    PROVE  /\ Cardinality(lost) \in Nat
           /\ \A k \in 1..8 : Cardinality(Unread(k) \cup lost) \in Nat
           /\ \A k \in 1..6 : Cardinality(Unread(k) \cup lost) <=
                 OfStatus(ReportedStatuses[k]) + Cardinality(Unread(k + 1) \cup lost)
           /\ Cardinality(Unread(7) \cup lost) <= OfStatus(ReportedStatuses[7]) + Cardinality(lost)
<1>1. IsFiniteSet(lost) /\ \A k \in 1..8 : IsFiniteSet(Unread(k) \cup lost)
  <2>1. lost \subseteq Orders /\ \A k \in 1..8 : Unread(k) \cup lost \subseteq Orders
    BY DEF Unread
  <2>2. QED
    BY <2>1, AnalyticsAssumption, FS_Subset
<1>2. Cardinality(lost) \in Nat /\ \A k \in 1..8 : Cardinality(Unread(k) \cup lost) \in Nat
  BY <1>1, FS_CardinalityType
<1>3. \A s : IsFiniteSet(OrdersWith(s)) /\ Cardinality(OrdersWith(s)) = OfStatus(s)
  BY SalesAreFinite DEF OfStatus, OrdersWith
<1>4. ASSUME NEW k \in 1..6
      PROVE  Cardinality(Unread(k) \cup lost) <=
                OfStatus(ReportedStatuses[k]) + Cardinality(Unread(k + 1) \cup lost)
  <2> DEFINE x == OrdersWith(ReportedStatuses[k])
             y == Unread(k + 1) \cup lost
  <2>1. Unread(k) \cup lost = x \cup y
    BY UnreadIs
  <2>2. k + 1 \in 1..8
    OBVIOUS
  <2>3. IsFiniteSet(x) /\ IsFiniteSet(y)
    BY <1>1, <1>3, <2>2
  <2>4. Cardinality(x \cup y) <= Cardinality(x) + Cardinality(y)
    BY <2>3, UnionIsAtMost
  <2>5. QED
    BY <1>3, <2>1, <2>4
<1>5. Cardinality(Unread(7) \cup lost) <= OfStatus(ReportedStatuses[7]) + Cardinality(lost)
  <2> DEFINE x == OrdersWith(ReportedStatuses[7])
  <2>1. Unread(7) = x
    BY UnreadIs
  <2>2. IsFiniteSet(x) /\ Cardinality(x) = OfStatus(ReportedStatuses[7])
    BY <1>3
  <2>3. Cardinality(x \cup lost) <= Cardinality(x) + Cardinality(lost)
    BY <1>1, <2>2, UnionIsAtMost
  <2>4. QED
    BY <2>1, <2>2, <2>3
<1>6. QED
  BY <1>2, <1>4, <1>5

(* Stock is what is in stock and what is not.                              *)
LEMMA StockAddsUp ==
    ASSUME AnalyticsOK
    PROVE  Cardinality(stocked) + Cardinality(items \ stocked) = Cardinality(items)
<1>1. IsFiniteSet(items) /\ items \cap stocked = stocked
  BY SalesAreFinite DEF AnalyticsOK
<1>2. Cardinality(items \ stocked) = Cardinality(items) - Cardinality(items \cap stocked)
  BY <1>1, FS_Difference
<1>3. Cardinality(items) \in Nat /\ Cardinality(stocked) \in Nat
  BY SalesAreFinite, FS_CardinalityType
<1>4. QED
  BY <1>1, <1>2, <1>3

(* No more items are sold than purchases are made.                         *)
LEMMA SoldItemsAreFew ==
    ASSUME AnalyticsOK
    PROVE  Cardinality(SoldItems) <= Cardinality(bought)
<1> DEFINE f == [b \in bought |-> b[2]]
<1>1. f \in Surjection(bought, SoldItems)
  BY DEF Surjection, SoldItems
<1>2. QED
  BY <1>1, SalesAreFinite, FS_Surjection

(* Every purchase is in the group of one category, be its product          *)
(* destroyed or not: no page has more revenue than there is, and one that  *)
(* holds all groups has all of it.                                         *)
LEMMA GroupsShareRevenue ==
    ASSUME AnalyticsOK, NEW page \in SUBSET CategoryGroups
    PROVE  /\ RevenueOf(page) <= Cardinality(bought)
           /\ page = CategoryGroups => RevenueOf(page) = Cardinality(bought)
<1> DEFINE rows == {row \in page \X bought : GroupOf(row[2][2]) = row[1]}
           f == [row \in rows |-> row[2]]
<1>1. \A row \in rows : row[2] \in bought /\ row[1] = GroupOf(row[2][2]) /\ row = <<row[1], row[2]>>
  OBVIOUS
<1>2. ASSUME page = CategoryGroups, NEW b \in bought
      PROVE  \E row \in rows : row[2] = b
  <2> DEFINE row == <<GroupOf(b[2]), b>>
  <2>1. GroupOf(b[2]) \in CategoryGroups
    BY DEF CategoryGroups, SoldItems
  <2>2. row \in rows /\ row[2] = b
    BY <1>2, <2>1
  <2>3. QED
    BY <2>2
<1>3. f \in [rows -> bought]
  BY <1>1
<1>4. page = CategoryGroups => f \in Surjection(rows, bought)
  <2> SUFFICES ASSUME page = CategoryGroups PROVE f \in Surjection(rows, bought)
    OBVIOUS
  <2>1. \A b \in bought : \E row \in rows : f[row] = b
    BY <1>2
  <2>2. QED
    BY <1>3, <2>1 DEF Surjection
<1>5. f \in Injection(rows, bought)
  <2>1. \A x \in rows, y \in rows : f[x] = f[y] => x = y
    BY <1>1
  <2>2. QED
    BY <1>3, <2>1 DEF Injection, IsInjective
<1>6. IsFiniteSet(rows) /\ IsFiniteSet(bought) /\ Cardinality(rows) = RevenueOf(page)
  BY GroupsAreFinite, SalesAreFinite DEF RevenueOf
<1> HIDE DEF f, rows
<1>7. Cardinality(rows) <= Cardinality(bought)
  BY <1>5, <1>6, FS_Injection
<1>8. page = CategoryGroups => Cardinality(rows) = Cardinality(bought)
  BY <1>4, <1>5, <1>6, FS_Injection
<1>9. QED
  BY <1>6, <1>7, <1>8

(* A page holds all groups when they fit on one.                           *)
LEMMA PagesHoldAll ==
    ASSUME AnalyticsOK, NEW page, IsPage(page), Cardinality(CategoryGroups) <= CategoryPage
    PROVE  page = CategoryGroups
<1>1. page \in SUBSET CategoryGroups /\ (page # CategoryGroups => Cardinality(page) = CategoryPage)
  BY DEF IsPage
<1>2. IsFiniteSet(CategoryGroups) /\ Cardinality(CategoryGroups) \in Nat
  BY GroupsAreFinite, FS_CardinalityType
<1>3. /\ Cardinality(page) \in Nat /\ Cardinality(page) <= Cardinality(CategoryGroups)
      /\ Cardinality(CategoryGroups) = Cardinality(page) => CategoryGroups = page
  BY <1>1, <1>2, FS_Subset, FS_CardinalityType
<1>4. CategoryPage \in Nat
  BY AnalyticsAssumption
<1>5. QED
  BY <1>1, <1>2, <1>3, <1>4

-----------------------------------------------------------------------------
(* What handlers know of different components is told apart.               *)
LEMMA ArgsDiffer ==
    /\ AnalyticsArgs \cap (CatalogArgs \cup RatingArgs \cup ShippingArgs) = {}
    /\ ShippingArgs \cap (CatalogArgs \cup RatingArgs \cup AnalyticsArgs) = {}
    /\ RatingArgs \cap (CatalogArgs \cup ShippingArgs \cup AnalyticsArgs) = {}
    /\ \A a \in AnalyticsArgs : "among" \in DOMAIN a
    /\ \A a \in ShippingArgs : "among" \notin DOMAIN a /\ "which" \notin DOMAIN a
    /\ \A a \in RatingArgs : "among" \notin DOMAIN a /\ "which" \in DOMAIN a
<1>1. \A a \in AnalyticsArgs : "among" \in DOMAIN a
  BY DEF AnalyticsArgs
<1>2. \A a \in ShippingArgs : "quote" \in DOMAIN a /\ "among" \notin DOMAIN a
  BY DEF ShippingArgs
<1>3. \A a \in CatalogArgs : "among" \notin DOMAIN a /\ "quote" \notin DOMAIN a
  BY DEF CatalogArgs
<1>4. \A a \in RatingArgs : "among" \notin DOMAIN a /\ "quote" \notin DOMAIN a
  BY DEF RatingArgs
<1>5. \A a \in AnalyticsArgs : "quote" \notin DOMAIN a
  BY DEF AnalyticsArgs
<1>6. \A a \in RatingArgs : "which" \in DOMAIN a
  BY DEF RatingArgs
<1>7. \A a \in CatalogArgs \cup ShippingArgs \cup AnalyticsArgs : "which" \notin DOMAIN a
  BY DEF CatalogArgs, ShippingArgs, AnalyticsArgs
<1>8. QED
  BY <1>1, <1>2, <1>3, <1>4, <1>5, <1>6, <1>7

(* Where a step leaves its handler, and what it has learnt.                *)
LEMMA StayMoves ==
    ASSUME Slots, NEW r \in Requests
    PROVE  /\ \A a, s : /\ Begin(r, a, s) => pc'[r] = s /\ arg'[r] = a /\ pc[r] = "idle"
                        /\ Learn(r, a, s) => pc'[r] = s /\ arg'[r] = a
                        /\ WriteLearn(r, a, s) => pc'[r] = s /\ arg'[r] = a
                        /\ AnswerWith(r, a, s) => pc'[r] \in EndSteps /\ arg'[r] = a
           /\ \A s : Goto(r, s) => pc'[r] = s /\ arg'[r] = arg[r]
           /\ \A s : WriteGoto(r, s) => pc'[r] = s /\ arg'[r] = arg[r]
           /\ \A c : Answer(r, c) => pc'[r] \in EndSteps /\ arg'[r] = arg[r]
           /\ \A c : AnswerLog(r, c) => pc'[r] \in EndSteps /\ arg'[r] = arg[r]
           /\ \A c : WriteAnswer(r, c) => pc'[r] \in EndSteps /\ arg'[r] = arg[r]
           /\ \A c : WriteAnswerLog(r, c) => pc'[r] \in EndSteps /\ arg'[r] = arg[r]
<1>1. \A s, a, c, w : Moves(r, s, a, c, w) => pc'[r] = s /\ arg'[r] = a
  BY DEF Moves
<1>2. "log" \in EndSteps /\ "answered" \in EndSteps
  BY DEF EndSteps
<1>3. \A a, s : /\ Begin(r, a, s) => pc'[r] = s /\ arg'[r] = a /\ pc[r] = "idle"
                /\ Learn(r, a, s) => pc'[r] = s /\ arg'[r] = a
                /\ WriteLearn(r, a, s) => pc'[r] = s /\ arg'[r] = a
                /\ AnswerWith(r, a, s) => pc'[r] \in EndSteps /\ arg'[r] = a
  <2>1. \A a, s : Begin(r, a, s) => pc'[r] = s /\ arg'[r] = a /\ pc[r] = "idle"
    BY DEF Slots, Begin
  <2>2. \A a, s : /\ Learn(r, a, s) => pc'[r] = s /\ arg'[r] = a
                  /\ WriteLearn(r, a, s) => pc'[r] = s /\ arg'[r] = a
    BY DEF Slots, Learn, WriteLearn
  <2>3. \A a, s : AnswerWith(r, a, s) => pc'[r] \in EndSteps /\ arg'[r] = a
    BY <1>2 DEF Slots, AnswerWith
  <2>4. QED
    BY <2>1, <2>2, <2>3
<1>4. \A s : /\ Goto(r, s) => pc'[r] = s /\ arg'[r] = arg[r]
             /\ WriteGoto(r, s) => pc'[r] = s /\ arg'[r] = arg[r]
  BY <1>1, GotoMoves, WriteGotoMoves
<1>5. \A c : /\ Answer(r, c) => pc'[r] \in EndSteps /\ arg'[r] = arg[r]
             /\ AnswerLog(r, c) => pc'[r] \in EndSteps /\ arg'[r] = arg[r]
             /\ WriteAnswer(r, c) => pc'[r] \in EndSteps /\ arg'[r] = arg[r]
             /\ WriteAnswerLog(r, c) => pc'[r] \in EndSteps /\ arg'[r] = arg[r]
  BY <1>1, <1>2, AnswerMoves
<1>6. QED
  BY <1>3, <1>4, <1>5

LEMMA CatalogArrives ==
    ASSUME Slots, NEW r \in Requests, CatalogArrive(r)
    PROVE  pc[r] = "idle" /\ pc'[r] \in CatalogSteps
<1> USE DEF CatalogSteps
<1>1. ASSUME NEW n \in Names, AddCategory(r, n)
      PROVE  pc[r] = "idle" /\ pc'[r] \in CatalogSteps
  BY <1>1, StayMoves DEF AddCategory
<1>2. ASSUME NEW c \in Categories, DeleteCategory(r, c)
      PROVE  pc[r] = "idle" /\ pc'[r] \in CatalogSteps
  BY <1>2, StayMoves DEF DeleteCategory
<1>3. ASSUME NEW c \in Categories, NEW n \in Names, UpdateCategory(r, c, n)
      PROVE  pc[r] = "idle" /\ pc'[r] \in CatalogSteps
  BY <1>3, StayMoves DEF UpdateCategory
<1>4. ASSUME NEW c \in Categories, NEW n \in Names, NEW due \in 0..Horizon, NEW x \in BOOLEAN,
             AddProduct(r, c, n, due, x)
      PROVE  pc[r] = "idle" /\ pc'[r] \in CatalogSteps
  BY <1>4, StayMoves DEF AddProduct
<1>5. ASSUME NEW p \in Products, View(r, p) \/ DeleteProduct(r, p)
      PROVE  pc[r] = "idle" /\ pc'[r] \in CatalogSteps
  BY <1>5, StayMoves DEF View, DeleteProduct
<1>6. ASSUME NEW p \in Products, NEW x \in BOOLEAN, Discount(r, p, x)
      PROVE  pc[r] = "idle" /\ pc'[r] \in CatalogSteps
  BY <1>6, StayMoves DEF Discount
<1>7. ASSUME NEW p \in Products, NEW n \in Names, UpdateProduct(r, p, n)
      PROVE  pc[r] = "idle" /\ pc'[r] \in CatalogSteps
  BY <1>7, StayMoves DEF UpdateProduct
<1>8. QED
  BY <1>1, <1>2, <1>3, <1>4, <1>5, <1>6, <1>7 DEF CatalogArrive

LEMMA CatalogStays ==
    ASSUME Slots, NEW r \in Requests, CatalogContinue(r)
    PROVE  /\ pc[r] \in CatalogSteps
           /\ pc'[r] \in CatalogSteps \/ (pc'[r] \in EndSteps /\ arg'[r] = arg[r])
<1> USE DEF CatalogSteps
<1>1. CASE \/ AddCategoryFind(r) \/ AddCategoryInsert(r)
           \/ AddProductCategory(r) \/ AddProductNames(r) \/ AddProductCreate(r)
           \/ AddProductJob(r) \/ AddProductRecord(r)
  BY <1>1, StayMoves
  DEF AddCategoryFind, AddCategoryInsert, AddProductCategory, AddProductNames, AddProductCreate,
      AddProductJob, AddProductRecord, At
<1>2. CASE \/ PromoSadd(r) \/ PromoCount(r) \/ PromoMembers(r)
           \/ ViewFind(r) \/ ViewSave(r)
           \/ UpdateCategoryFind(r) \/ UpdateCategorySave(r) \/ DiscountFind(r) \/ DiscountSave(r)
  BY <1>2, StayMoves
  DEF PromoSadd, PromoCount, PromoMembers, ViewFind, ViewSave, UpdateCategoryFind,
      UpdateCategorySave, DiscountFind, DiscountSave, At
<1>3. CASE UpdateFind(r) \/ UpdateSave(r)
  BY <1>3, StayMoves DEF UpdateFind, UpdateSave, At
<1>4. CASE \/ DeleteCategoryFind(r) \/ DeleteCategoryDestroy(r)
           \/ DeleteProductFind(r) \/ DeleteProductDestroy(r)
  BY <1>4, StayMoves
  DEF DeleteCategoryFind, DeleteCategoryDestroy, DeleteProductFind, DeleteProductDestroy, At
<1>5. QED
  BY <1>1, <1>2, <1>3, <1>4 DEF CatalogContinue

LEMMA RatingsStay ==
    ASSUME Slots, NEW r \in Requests
    PROVE  /\ RatingsArrive(r) => pc[r] = "idle" /\ pc'[r] \in RatingSteps
           /\ RatingsContinue(r) =>
                 /\ pc[r] \in RatingSteps
                 /\ pc'[r] \in RatingSteps \/ (pc'[r] \in EndSteps /\ arg'[r] = arg[r])
<1>1. RatingsArrive(r) => pc[r] = "idle" /\ pc'[r] \in RatingSteps
  BY StayMoves DEF RatingsArrive, Rate, List, Own, Notice, RatingSteps
<1>2. RatingsContinue(r) =>
         /\ pc[r] \in RatingSteps
         /\ pc'[r] \in RatingSteps \/ (pc'[r] \in EndSteps /\ arg'[r] = arg[r])
  BY StayMoves
  DEF RatingsContinue, RateFind, RateCreate, ListFind, ListAnswer, UpdateOwn, DeleteOwn, DeleteAny,
      NoticeAll, NoticeNone, MarkFind, MarkSave, RemoveNotification, RatingSteps, At
<1>3. QED
  BY <1>1, <1>2

LEMMA ShippingArrives ==
    ASSUME Slots, NEW r \in Requests, ShippingArrive(r)
    PROVE  /\ pc[r] = "idle" /\ pc'[r] \in ShippingSteps \ {"cost.safe", "cost.weight"}
           /\ arg'[r].quote = FALSE
<1> DEFINE Good == /\ pc[r] = "idle" /\ pc'[r] \in ShippingSteps \ {"cost.safe", "cost.weight"}
                   /\ arg'[r].quote = FALSE
<1>1. ASSUME NEW a, a.quote = FALSE, NEW s \in ShippingSteps \ {"cost.safe", "cost.weight"}, Begin(r, a, s)
      PROVE  Good
  BY <1>1, StayMoves
<1>2. Blank.quote = FALSE
  BY DEF Blank
<1>3. /\ \A n, x : [Blank EXCEPT !.name = n, !.rate = x].quote = FALSE
      /\ \A c, n : [Blank EXCEPT !.country = c, !.name = n].quote = FALSE
      /\ \A c, n, x : [Blank EXCEPT !.country = c, !.name = n, !.rate = x].quote = FALSE
      /\ \A c : [Blank EXCEPT !.country = c].quote = FALSE
      /\ \A t : [Blank EXCEPT !.city = t].quote = FALSE
      /\ \A t, n : [Blank EXCEPT !.city = t, !.name = n].quote = FALSE
      /\ \A s, x : [Blank EXCEPT !.safe = s, !.rate = x].quote = FALSE
      /\ \A w, x : [Blank EXCEPT !.weight = w, !.rate = x].quote = FALSE
      /\ \A c, w, s : [Blank EXCEPT !.country = c, !.weight = w, !.safe = s].quote = FALSE
  BY DEF Blank
<1>4. {"country.find", "city.country", "cities.list", "country.get", "city.get", "country.destroy",
       "city.destroy", "method.find", "weight.find", "cart.find", "cost.country"}
         \subseteq ShippingSteps \ {"cost.safe", "cost.weight"}
  BY DEF ShippingSteps
<1> HIDE DEF Good
<1>5. ASSUME NEW n \in Places, NEW x \in Rates, AddCountry(r, n, x)
      PROVE  Good
  BY <1>1, <1>3, <1>4, <1>5 DEF AddCountry
<1>6. ASSUME NEW c \in Countries, DeleteCountry(r, c) \/ ListCities(r, c)
      PROVE  Good
  BY <1>1, <1>3, <1>4, <1>6 DEF DeleteCountry, ListCities
<1>7. ASSUME NEW c \in Countries, NEW n \in Places, AddCity(r, c, n)
      PROVE  Good
  BY <1>1, <1>3, <1>4, <1>7 DEF AddCity
<1>8. ASSUME NEW c \in Countries, NEW n \in Places, NEW x \in Rates, UpdateCountry(r, c, n, x)
      PROVE  Good
  BY <1>1, <1>3, <1>4, <1>8 DEF UpdateCountry
<1>9. ASSUME NEW c \in Countries, NEW load \in Loads, NEW s \in BOOLEAN, Calculate(r, c, load, s)
      PROVE  Good
  <2> DEFINE a == [Blank EXCEPT !.country = c, !.weight = WeightCategory(load), !.safe = s]
  <2>1. a.quote = FALSE
    BY DEF Blank
  <2>2. Begin(r, a, "cost.country")
    BY <1>9 DEF Calculate
  <2> HIDE DEF a
  <2>3. QED
    BY <1>1, <1>4, <2>1, <2>2
<1>10. ASSUME NEW t \in Cities, DeleteCity(r, t)
       PROVE  Good
  BY <1>1, <1>3, <1>4, <1>10 DEF DeleteCity
<1>11. ASSUME NEW t \in Cities, NEW n \in Places, UpdateCity(r, t, n)
       PROVE  Good
  BY <1>1, <1>3, <1>4, <1>11 DEF UpdateCity
<1>12. ASSUME NEW x \in Rates, NEW s \in BOOLEAN, ChangeMethod(r, s, x)
       PROVE  Good
  BY <1>1, <1>3, <1>4, <1>12 DEF ChangeMethod
<1>13. ASSUME NEW x \in Rates, NEW w \in WeightCategories, ChangeWeight(r, w, x)
       PROVE  Good
  BY <1>1, <1>3, <1>4, <1>13 DEF ChangeWeight
<1>14. ASSUME WeighCart(r)
       PROVE  Good
  BY <1>1, <1>2, <1>4, <1>14 DEF WeighCart
<1>15. Good
  BY <1>5, <1>6, <1>7, <1>8, <1>9, <1>10, <1>11, <1>12, <1>13, <1>14 DEF ShippingArrive
<1>16. QED
  BY <1>15 DEF Good

LEMMA ShippingStays ==
    ASSUME Slots, NEW r \in Requests, ShippingContinue(r)
    PROVE  /\ pc[r] \in ShippingSteps
           /\ \/ CostCountry(r) \/ CostSafe(r) \/ CostWeight(r)
              \/ /\ pc'[r] \in (ShippingSteps \ {"cost.safe", "cost.weight"}) \cup EndSteps
                 /\ arg'[r] = arg[r]
<1> USE DEF ShippingSteps
<1>1. CASE \/ AddCountryFind(r) \/ AddCountryInsert(r)
           \/ AddCityCountry(r) \/ AddCityFind(r) \/ AddCityInsert(r) \/ ListCitiesAnswer(r)
  BY <1>1, StayMoves
  DEF AddCountryFind, AddCountryInsert, AddCityCountry, AddCityFind, AddCityInsert,
      ListCitiesAnswer, At
<1>2. CASE \/ UpdateCountryFind(r) \/ UpdateCountrySave(r) \/ UpdateCityFind(r) \/ UpdateCitySave(r)
           \/ DeleteCountryDestroy(r) \/ DeleteCityDestroy(r)
  BY <1>2, StayMoves
  DEF UpdateCountryFind, UpdateCountrySave, UpdateCityFind, UpdateCitySave, DeleteCountryDestroy,
      DeleteCityDestroy, At
<1>3. CASE \/ ChangeMethodFind(r) \/ ChangeMethodSave(r) \/ ChangeWeightFind(r)
           \/ ChangeWeightSave(r) \/ WeighCartFind(r)
  BY <1>3, StayMoves
  DEF ChangeMethodFind, ChangeMethodSave, ChangeWeightFind, ChangeWeightSave, WeighCartFind, At
<1>4. CASE CostCountry(r) \/ CostSafe(r) \/ CostWeight(r)
  BY <1>4 DEF CostCountry, CostSafe, CostWeight, At
<1>5. QED
  BY <1>1, <1>2, <1>3, <1>4 DEF ShippingContinue

(* The cost of shipping adds up.                                           *)
LEMMA CostAddsUp ==
    ASSUME Slots, ShippingOK, NEW r \in Requests, CostCountry(r) \/ CostSafe(r) \/ CostWeight(r),
           CostSlot(pc[r], arg[r], answer[r])
    PROVE  CostSlot(pc[r], arg[r], answer[r])' /\ DOMAIN arg'[r] = DOMAIN arg[r]
<1>1. pc[r] \in ShippingSteps /\ UNCHANGED shippingVars
  BY DEF CostCountry, CostSafe, CostWeight, At, ShippingSteps
<1>2. arg[r] \in ShippingArgs /\ answer[r] = 0 /\ ~arg[r].quote
  BY <1>1, ShippingArgAt DEF CostSlot
<1>3. 0 \notin Successes
  BY Codes
<1>4. methodRate \in Int /\ safeRate \in Int /\ \A w \in RatedCategories : weightRate[w] \in Int
  BY DEF ShippingOK, Rates
<1>5. \A c : LiveCountry(c) /\ c \in Countries => country[c].rate \in Int
  <2>1. country \in [Countries -> CountryRows]
    BY ShippingParts
  <2>2. \A x \in [state : {"live"}, name : Places, rate : Rates] : x.rate \in Int
    BY DEF Rates
  <2>3. QED
    BY <2>1, <2>2, CountryRow DEF LiveCountry
<1>6. CASE Answer(r, NotFound) /\ (CostCountry(r) \/ CostWeight(r))
  <2>1. pc'[r] \in EndSteps /\ arg'[r] = arg[r]
    BY <1>6, StayMoves
  <2>2. QED
    BY <1>2, <2>1, StepsDiffer DEF CostSlot, CostIsExact, EndSteps, AllSteps
<1>7. CASE CostCountry(r) /\ ~Answer(r, NotFound)
  <2> DEFINE a == [arg[r] EXCEPT !.rate = country[arg[r].country].rate + methodRate]
             s == IF arg[r].safe THEN "cost.safe" ELSE "cost.weight"
  <2>1. LiveCountry(arg[r].country) /\ Learn(r, a, s)
    BY <1>7 DEF CostCountry
  <2>2. pc'[r] = s /\ arg'[r] = a /\ answer'[r] = 0
    BY <1>2, <2>1, LearnMoves DEF Moves
  <2>3. a.rate = country[a.country].rate + methodRate /\ LiveCountry(a.country)
        /\ a.country \in Countries /\ ~a.quote
        /\ a.safe = arg[r].safe /\ a.country = arg[r].country /\ DOMAIN a = DOMAIN arg[r]
    <3>1. pc[r] \in ForCountry
      BY <1>7 DEF CostCountry, At, ForCountry
    <3>2. arg[r].country \in Countries
      BY <1>1, <3>1, ShippingArgAt
    <3>3. QED
      BY <1>2, <2>1, <3>2 DEF ShippingArgs
  <2>4. pc[r] \in ForCountry
    BY <1>7 DEF CostCountry, At, ForCountry
  <2>5. country[a.country].rate + methodRate + 0 = country[a.country].rate + methodRate
    BY <1>1, <1>4, <1>5, <2>3, <2>4, ShippingArgAt
  <2>6. s \in ShippingSteps /\ (s = "cost.safe" => a.safe) /\ (s = "cost.weight" => ~a.safe)
        /\ s \in {"cost.safe", "cost.weight"}
    BY <2>3 DEF ShippingSteps
  <2> HIDE DEF a, s
  <2>7. QED
    BY <1>1, <1>3, <2>2, <2>3, <2>5, <2>6 DEF CostSlot, shippingVars, LiveCountry
<1>8. CASE CostSafe(r)
  <2> DEFINE a == [arg[r] EXCEPT !.rate = @ + safeRate]
  <2>1. Learn(r, a, "cost.weight") /\ pc[r] = "cost.safe"
    BY <1>8 DEF CostSafe, At
  <2>2. pc'[r] = "cost.weight" /\ arg'[r] = a /\ answer'[r] = 0
    BY <1>2, <2>1, LearnMoves DEF Moves
  <2>3. a.rate = country[a.country].rate + methodRate + safeRate /\ LiveCountry(a.country)
        /\ a.country \in Countries /\ ~a.quote /\ a.safe /\ DOMAIN a = DOMAIN arg[r]
    BY <1>2, <2>1 DEF ShippingArgs, CostSlot
  <2> HIDE DEF a
  <2>4. QED
    BY <1>1, <1>3, <2>2, <2>3 DEF CostSlot, shippingVars, LiveCountry
<1>9. CASE CostWeight(r) /\ ~Answer(r, NotFound)
  <2> DEFINE w == arg[r].weight
             a == [arg[r] EXCEPT !.rate = @ + weightRate[w], !.quote = TRUE]
  <2>1. AnswerWith(r, a, Found) /\ pc[r] = "cost.weight" /\ w \in RatedCategories
    BY <1>9 DEF CostWeight, At
  <2>2. pc'[r] \in EndSteps /\ arg'[r] = a
    BY <2>1, StayMoves
  <2>3. /\ LiveCountry(arg[r].country)
        /\ arg[r].rate = country[arg[r].country].rate + methodRate
                            + (IF arg[r].safe THEN safeRate ELSE 0)
    BY <2>1 DEF CostSlot
  <2>4. /\ a.rate = arg[r].rate + weightRate[w] /\ a.weight = w /\ a.country = arg[r].country
        /\ a.safe = arg[r].safe /\ DOMAIN a = DOMAIN arg[r] /\ a.safe \in BOOLEAN
    BY <1>2 DEF ShippingArgs
  <2>5. arg[r].country \in Countries
    BY <2>1 DEF CostSlot
  <2> HIDE DEF a
  <2>6. a.rate = Cost(a.country, a.weight, a.safe)
    <3>1. country[arg[r].country].rate \in Int /\ weightRate[w] \in Int
      BY <1>4, <1>5, <2>1, <2>3, <2>5
    <3>2. QED
      BY <1>4, <2>1, <2>3, <2>4, <3>1 DEF Cost
  <2>7. PICK b : b = a
    OBVIOUS
  <2>8. (b.rate = Cost(b.country, b.weight, b.safe))'
    BY <1>1, <2>6, <2>7 DEF Cost, LiveCountry, shippingVars
  <2>9. QED
    BY <2>2, <2>4, <2>7, <2>8, StepsDiffer DEF CostSlot, CostIsExact, EndSteps, AllSteps
<1>10. QED
  BY <1>6, <1>7, <1>8, <1>9

(* What a figure is sound or exact about does not change with a handler.   *)
LEMMA FigureMoves ==
    ASSUME NEW r \in Requests, NEW s, NEW a, NEW c, NEW w, Moves(r, s, a, c, w), UNCHANGED salesVars
    PROVE  /\ SoundSlot(s, a, c, overwritten'[r]) => SoundSlot(pc[r], arg[r], answer[r], overwritten[r])'
           /\ ExactSlot(s, a, c) => ExactSlot(pc[r], arg[r], answer[r])'
<1>1. pc'[r] = s /\ arg'[r] = a /\ answer'[r] = c
  BY DEF Moves
<1>2. SoundSlot(s, a, c, overwritten'[r]) => SoundSlot(pc[r], arg[r], answer[r], overwritten[r])'
  BY <1>1 DEF SoundSlot, IsFigure, FigureIsSound, Unread, salesVars
<1>3. ExactSlot(s, a, c) => ExactSlot(pc[r], arg[r], answer[r])'
  BY <1>1
  DEF ExactSlot, IsFigure, FigureIsExact, Counted, salesVars, Placed, OrdersOf, TopCustomers,
      CustomersOf, SoldItems, CategoryGroups, GroupOf
<1>4. QED
  BY <1>2, <1>3

(* A handler of another component has no figures, and one that shipping    *)
(* costs do not concern has no cost.                                       *)
LEMMA NoFigures ==
    ASSUME NEW r \in Requests, pc'[r] \notin AnalyticsSteps,
           arg'[r] \notin AnalyticsArgs \/ answer'[r] \notin Successes
    PROVE  SoundSlot(pc[r], arg[r], answer[r], overwritten[r])' /\ ExactSlot(pc[r], arg[r], answer[r])'
<1>1. {"report.admin", "sales.products", "sales.revenue", "sales.count", "sales.categories",
       "sales.statuses", "conversion.orders", "report.write", "stock.out", "purchases.groups",
       "customer.sum", "top.count"} \subseteq AnalyticsSteps
  BY DEF AnalyticsSteps
<1>2. ~IsFigure(pc[r], arg[r], answer[r])'
  BY <1>1 DEF IsFigure
<1>3. QED
  BY <1>1, <1>2 DEF SoundSlot, ExactSlot

LEMMA NoCost ==
    ASSUME NEW r \in Requests, pc'[r] \notin ShippingSteps,
           arg'[r] \notin ShippingArgs \/ answer'[r] \notin Successes
    PROVE  CostSlot(pc[r], arg[r], answer[r])'
<1>1. {"cost.safe", "cost.weight"} \subseteq ShippingSteps
  BY DEF ShippingSteps
<1>2. QED
  BY <1>1 DEF CostSlot

(* A report or a figure that is refused, or fails, says nothing.           *)
LEMMA RefusedSlot ==
    ASSUME NEW s \in EndSteps, NEW a, NEW c, NEW lost, c \notin Successes
    PROVE  SoundSlot(s, a, c, lost) /\ ExactSlot(s, a, c)
  BY DEF SoundSlot, ExactSlot, IsFigure, EndSteps

(* An answer that holds no two figures that should agree.                  *)
LEMMA OtherSlot ==
    ASSUME NEW s \in EndSteps \cup {"report.write"}, NEW a, NEW c, NEW lost,
           a.type \notin {"sales", "conversion", "stock", "purchases", "customer-total",
                          "customer-orders", "top-by-orders"}
    PROVE  SoundSlot(s, a, c, lost) /\ ExactSlot(s, a, c)
  BY DEF SoundSlot, ExactSlot, IsFigure, EndSteps, FigureIsSound, FigureIsExact

(* Steps before which nothing has been read.                               *)
LEMMA FirstSlots ==
    ASSUME NEW a, NEW c, NEW lost, c \notin Successes,
           NEW s \in AnalyticsSteps \ {"report.admin", "sales.products", "sales.revenue", "sales.count",
                                       "sales.categories", "sales.statuses", "conversion.orders",
                                       "stock.out", "purchases.groups", "customer.sum", "top.count",
                                       "report.write"}
    PROVE  SoundSlot(s, a, c, lost) /\ ExactSlot(s, a, c)
  BY DEF SoundSlot, ExactSlot, IsFigure

(* A handler keeps what its figures are sound and exact about.             *)
FigureKept(r) ==
    /\ SoundSlot(pc[r], arg[r], answer[r], overwritten[r])'
    /\ ExactSlot(pc[r], arg[r], answer[r]) => ExactSlot(pc[r], arg[r], answer[r])'

LEMMA FigureLearns ==
    ASSUME Slots, NEW r \in Requests, pc[r] \in AnalyticsSteps, UNCHANGED salesVars,
           NEW a, NEW s, Learn(r, a, s), SoundSlot(s, a, 0, overwritten'[r]),
           ExactSlot(pc[r], arg[r], answer[r]) => ExactSlot(s, a, 0)
    PROVE  FigureKept(r)
<1>1. Moves(r, s, a, 0, r \in wrote)
  BY LearnMoves, AnalyticsArgAt
<1>2. QED
  BY <1>1, FigureMoves DEF FigureKept

LEMMA FigureGoes ==
    ASSUME Slots, NEW r \in Requests, pc[r] \in AnalyticsSteps, UNCHANGED salesVars,
           NEW s, Goto(r, s), SoundSlot(s, arg[r], 0, overwritten'[r]),
           ExactSlot(pc[r], arg[r], answer[r]) => ExactSlot(s, arg[r], 0)
    PROVE  FigureKept(r)
<1>1. Moves(r, s, arg[r], 0, r \in wrote)
  BY GotoMoves, AnalyticsArgAt
<1>2. QED
  BY <1>1, FigureMoves DEF FigureKept

LEMMA FigureEnds ==
    ASSUME Slots, NEW r \in Requests, UNCHANGED salesVars,
           NEW a, NEW c, NEW s \in EndSteps, NEW w, Moves(r, s, a, c, w), SoundSlot(s, a, c, overwritten'[r]),
           ExactSlot(pc[r], arg[r], answer[r]) => ExactSlot(s, a, c)
    PROVE  FigureKept(r)
  BY FigureMoves DEF FigureKept

LEMMA FigureRefuses ==
    ASSUME Slots, NEW r \in Requests, UNCHANGED salesVars, NEW c, c \notin Successes, Answer(r, c)
    PROVE  FigureKept(r)
<1>1. Moves(r, "answered", arg[r], c, r \in wrote) /\ "answered" \in EndSteps
  BY AnswerMoves DEF EndSteps
<1>2. QED
  BY <1>1, FigureEnds, RefusedSlot

LEMMA SalesFigures ==
    ASSUME Slots, AnalyticsOK, NEW r \in Requests,
           \/ SalesProducts(r) \/ SalesRevenue(r) \/ SalesCount(r) \/ SalesCategories(r),
           SoundSlot(pc[r], arg[r], answer[r], overwritten[r])
    PROVE  FigureKept(r)
<1>1. pc[r] \in AnalyticsSteps /\ UNCHANGED salesVars
  BY DEF SalesProducts, SalesRevenue, SalesCount, SalesCategories, At, AnalyticsSteps, analyticsVars,
     salesVars
<1>2. arg[r] \in AnalyticsArgs /\ answer[r] = 0
  BY <1>1, AnalyticsArgAt
<1>3. arg[r].part = 0 /\ arg[r].next = 1
  BY DEF SalesProducts, SalesRevenue, SalesCount, SalesCategories, At, SoundSlot
<1>4. 0 \notin Successes /\ ServerError \notin Successes
  BY Codes
<1>5. Answer(r, ServerError) => FigureKept(r)
  BY <1>1, <1>4, FigureRefuses
<1>6. CASE SalesProducts(r)
  <2> DEFINE a == [arg[r] EXCEPT !.sold = Cardinality(bought)]
  <2>1. a.part = 0 /\ a.next = 1 /\ a.sold = Cardinality(bought)
    BY <1>2, <1>3 DEF AnalyticsArgs
  <2>2. Learn(r, a, "sales.revenue") \/ Answer(r, ServerError)
    BY <1>6 DEF SalesProducts, Sum
  <2> HIDE DEF a
  <2>3. SoundSlot("sales.revenue", a, 0, overwritten'[r]) /\ ExactSlot("sales.revenue", a, 0)
    BY <1>4, <2>1 DEF SoundSlot, ExactSlot, IsFigure
  <2>4. QED
    BY <1>1, <1>5, <2>2, <2>3, FigureLearns
<1>7. CASE SalesRevenue(r)
  <2>1. Learn(r, arg[r], "sales.count") \/ Answer(r, ServerError)
    BY <1>7 DEF SalesRevenue, Sum
  <2>2. SoundSlot("sales.count", arg[r], 0, overwritten'[r])
    BY <1>3, <1>4 DEF SoundSlot, IsFigure
  <2>3. pc[r] = "sales.revenue"
    BY <1>7 DEF SalesRevenue, At
  <2>4. ExactSlot(pc[r], arg[r], answer[r]) => ExactSlot("sales.count", arg[r], 0)
    BY <1>4, <2>3 DEF ExactSlot, IsFigure
  <2>5. QED
    BY <1>1, <1>5, <2>1, <2>2, <2>4, FigureLearns
<1>8. CASE SalesCount(r)
  <2> DEFINE a == [arg[r] EXCEPT !.whole = Cardinality(Placed)]
  <2>1. a.part = 0 /\ a.next = 1 /\ a.sold = arg[r].sold /\ a.whole = Cardinality(Placed)
    BY <1>2, <1>3 DEF AnalyticsArgs
  <2>2. Learn(r, a, "sales.categories") /\ pc[r] = "sales.count"
    BY <1>8 DEF SalesCount, At
  <2> HIDE DEF a
  <2>3. overwritten'[r] = {}
    BY <1>8 DEF SalesCount, AnalyticsOK
  <2>4. a.part + Cardinality(Unread(a.next) \cup overwritten'[r]) >= a.whole
    BY <2>1, <2>3, UnreadIs, FiguresAreNumbers
  <2>5. SoundSlot("sales.categories", a, 0, overwritten'[r])
    BY <1>4, <2>1, <2>4 DEF SoundSlot, IsFigure
  <2>6. ExactSlot(pc[r], arg[r], answer[r]) => ExactSlot("sales.categories", a, 0)
    BY <1>4, <2>1, <2>2 DEF ExactSlot, IsFigure
  <2>7. QED
    BY <1>1, <2>2, <2>5, <2>6, FigureLearns
<1>9. CASE SalesCategories(r)
  <2>1. pc[r] = "sales.categories" /\ overwritten' = overwritten
    BY <1>9 DEF SalesCategories, At, analyticsVars
  <2>2. CASE ~Answer(r, ServerError)
    <3>1. PICK page \in SUBSET CategoryGroups :
             /\ IsPage(page)
             /\ Learn(r, [arg[r] EXCEPT !.shared = RevenueOf(page)], "sales.statuses")
      BY <1>9, <2>2 DEF SalesCategories
    <3> DEFINE n == RevenueOf(page)
               a == [arg[r] EXCEPT !.shared = n]
    <3>2. /\ a.part = 0 /\ a.next = 1 /\ a.sold = arg[r].sold /\ a.whole = arg[r].whole
          /\ a.shared = n
      BY <1>2, <1>3 DEF AnalyticsArgs
    <3>3. /\ n <= Cardinality(bought)
          /\ Cardinality(CategoryGroups) <= CategoryPage => n = Cardinality(bought)
      BY <3>1, GroupsShareRevenue, PagesHoldAll
    <3>4. Learn(r, a, "sales.statuses")
      BY <3>1
    <3> HIDE DEF a, n
    <3>5. a.part + Cardinality(Unread(a.next) \cup overwritten'[r]) >= a.whole
      BY <1>3, <2>1, <3>2 DEF SoundSlot
    <3>6. SoundSlot("sales.statuses", a, 0, overwritten'[r])
      BY <1>4, <3>2, <3>5 DEF SoundSlot, IsFigure
    <3>7. a.part = Cardinality(Counted(a.next))
      BY <3>2, CountedIs, FS_EmptySet
    <3>8. ExactSlot(pc[r], arg[r], answer[r]) => ExactSlot("sales.statuses", a, 0)
      BY <1>4, <2>1, <3>2, <3>3, <3>7 DEF ExactSlot, IsFigure
    <3>9. QED
      BY <1>1, <3>4, <3>6, <3>8, FigureLearns
  <2>3. QED
    BY <1>5, <2>2
<1>10. QED
  BY <1>6, <1>7, <1>8, <1>9

(* One status after the other: an order that was not read yet is not lost, *)
(* though it may be read again with a later status.                        *)
LEMMA StatusFigures ==
    ASSUME Slots, AnalyticsOK, NEW r \in Requests, SalesStatuses(r),
           SoundSlot(pc[r], arg[r], answer[r], overwritten[r])
    PROVE  FigureKept(r)
<1>1. /\ pc[r] = "sales.statuses" /\ pc[r] \in AnalyticsSteps
      /\ UNCHANGED salesVars /\ overwritten' = overwritten
  BY DEF SalesStatuses, At, AnalyticsSteps, analyticsVars
<1>2. arg[r] \in AnalyticsArgs /\ answer[r] = 0 /\ pc[r] \in StepsOf(arg[r].type)
  BY <1>1, AnalyticsArgAt
<1>3. arg[r].type = "sales"
  BY <1>1, <1>2, StepsFollow
<1>4. 0 \notin Successes
  BY Codes
<1> DEFINE k == arg[r].next
           seen == OfStatus(ReportedStatuses[k])
           n == arg[r].part + seen
           b == [arg[r] EXCEPT !.part = n]
           d == [b EXCEPT !.next = @ + 1]
<1>5. k \in 1..7 /\ seen \in Nat /\ arg[r].part \in Nat /\ arg[r].whole \in Nat
  BY <1>2, FiguresAreNumbers, StatusesAre DEF AnalyticsArgs
<1> DEFINE lost == overwritten[r]
<1>6. arg[r].part + Cardinality(Unread(k) \cup lost) >= arg[r].whole /\ lost \in SUBSET Orders
  BY <1>1 DEF SoundSlot, AnalyticsOK
<1>7. /\ b.part = n /\ b.next = k /\ b.type = "sales" /\ b.whole = arg[r].whole
      /\ b.sold = arg[r].sold /\ b.shared = arg[r].shared
  BY <1>2, <1>3 DEF AnalyticsArgs
<1>8. /\ d.part = n /\ d.next = k + 1 /\ d.type = "sales" /\ d.whole = arg[r].whole
      /\ d.sold = arg[r].sold /\ d.shared = arg[r].shared
  BY <1>2, <1>3 DEF AnalyticsArgs
<1>9. IF k = 7 THEN Learn(r, b, "report.write") ELSE Learn(r, d, "sales.statuses")
  BY StatusesAre DEF SalesStatuses
<1> HIDE DEF b, d
<1>10. n = arg[r].part + seen /\ n \in Nat
  BY <1>5
<1> HIDE DEF n, seen
<1>11. ExactSlot(pc[r], arg[r], answer[r]) =>
          /\ arg[r].sold = Cardinality(bought) /\ arg[r].whole = Cardinality(Placed)
          /\ arg[r].shared <= Cardinality(bought)
          /\ Cardinality(CategoryGroups) <= CategoryPage => arg[r].shared = Cardinality(bought)
          /\ arg[r].part = Cardinality(Counted(k))
  BY <1>1 DEF ExactSlot
<1>12. Cardinality(Counted(k + 1)) = seen + Cardinality(Counted(k))
       /\ Cardinality(Counted(k)) \in Nat
  BY <1>5, ReadOneByOne DEF seen
<1>13. CASE k = 7
  <2>1. n + Cardinality(lost) >= arg[r].whole
    <3>1. 7 \in 1..8 /\ seen = OfStatus(ReportedStatuses[7])
          /\ arg[r].part + Cardinality(Unread(7) \cup lost) >= arg[r].whole
      BY <1>6, <1>13 DEF seen
    <3> HIDE DEF k, lost
    <3>2. /\ Cardinality(lost) \in Nat /\ Cardinality(Unread(7) \cup lost) \in Nat
          /\ Cardinality(Unread(7) \cup lost) <= seen + Cardinality(lost)
      BY <1>6, <3>1, ReadWithLost
    <3>3. QED
      BY <1>5, <1>10, <3>1, <3>2
  <2>2. SoundSlot("report.write", b, 0, overwritten'[r])
    BY <1>1, <1>7, <2>1 DEF SoundSlot, IsFigure, FigureIsSound
  <2>3. Counted(8) = Placed /\ k + 1 = 8
    BY <1>13, CountedIs
  <2>4. ExactSlot(pc[r], arg[r], answer[r]) => n = Cardinality(Placed)
    BY <1>5, <1>10, <1>11, <1>12, <2>3
  <2>5. ExactSlot(pc[r], arg[r], answer[r]) => ExactSlot("report.write", b, 0)
    BY <1>7, <1>11, <2>4 DEF ExactSlot, IsFigure, FigureIsExact
  <2>6. QED
    BY <1>1, <1>9, <1>13, <2>2, <2>5, FigureLearns
<1>14. CASE k # 7
  <2>1. k \in 1..6 /\ k \in 1..8 /\ k + 1 \in 1..8
    BY <1>5, <1>14
  <2>2. /\ Cardinality(Unread(k) \cup lost) <= seen + Cardinality(Unread(k + 1) \cup lost)
        /\ Cardinality(Unread(k) \cup lost) \in Nat
        /\ Cardinality(Unread(k + 1) \cup lost) \in Nat
    BY <1>6, <2>1, ReadWithLost DEF seen
  <2>3. n + Cardinality(Unread(k + 1) \cup lost) >= arg[r].whole
    BY <1>5, <1>6, <1>10, <2>2
  <2>4. SoundSlot("sales.statuses", d, 0, overwritten'[r])
    BY <1>1, <1>4, <1>8, <2>3 DEF SoundSlot, IsFigure
  <2>5. ExactSlot(pc[r], arg[r], answer[r]) => n = Cardinality(Counted(k + 1))
    BY <1>5, <1>10, <1>11, <1>12
  <2>6. ExactSlot(pc[r], arg[r], answer[r]) => ExactSlot("sales.statuses", d, 0)
    BY <1>4, <1>8, <1>11, <2>5 DEF ExactSlot, IsFigure
  <2>7. QED
    BY <1>1, <1>9, <1>14, <2>4, <2>6, FigureLearns
<1>15. QED
  BY <1>13, <1>14

LEMMA SalesKept ==
    ASSUME NEW r \in Requests, AnalyticsContinue(r)
    PROVE  /\ UNCHANGED salesVars
           /\ overwritten' = overwritten \/ overwritten' = [overwritten EXCEPT ![r] = {}]
           /\ InitializeReportPDF(r) => overwritten' = overwritten
  BY DEF AnalyticsContinue, analyticsVars, NoReport, GetAdminData, SalesProducts, SalesRevenue,
         SalesCount, SalesCategories, SalesStatuses, StockIn, StockOut, PurchasesCount,
         PurchasesGroups, OrdersStatus, ReportCustomer, CustomerProducts, CustomerCount, CustomerSum,
         Figure, TopGroups, TopCount, ConversionCustomers, ConversionOrders, RepeatReturning,
         RepeatCustomers, ReportAccess, NeitherNameNorType, InitializeReportPDF, ReportUnlink,
         ReportsRead

LEMMA ReportFigures ==
    ASSUME Slots, AnalyticsOK, NEW r \in Requests, UNCHANGED salesVars,
           NoReport(r) \/ GetAdminData(r) \/ InitializeReportPDF(r),
           InitializeReportPDF(r) => overwritten' = overwritten,
           SoundSlot(pc[r], arg[r], answer[r], overwritten[r])
    PROVE  FigureKept(r)
<1>1. pc[r] \in AnalyticsSteps
  BY DEF NoReport, GetAdminData, InitializeReportPDF, At, AnalyticsSteps
<1>2. arg[r] \in AnalyticsArgs /\ answer[r] = 0 /\ pc[r] \in StepsOf(arg[r].type)
  BY <1>1, AnalyticsArgAt
<1>3. 0 \notin Successes /\ BadRequest \notin Successes /\ NotFound \notin Successes
      /\ Created \in Successes
  BY Codes DEF BadRequest, NotFound, Successes, Created, Found, Deleted
<1>4. CASE NoReport(r)
  <2>1. arg[r].type \in {"customer_purchases", "customer_orders"}
    BY <1>2, <1>4, StepsFollowToo DEF NoReport, At
  <2>2. Moves(r, "doomed", arg[r], Created, r \in wrote) /\ "doomed" \in EndSteps
    BY <1>4, RespondMoves DEF NoReport, EndSteps
  <2>3. SoundSlot("doomed", arg[r], Created, overwritten'[r]) /\ ExactSlot("doomed", arg[r], Created)
    BY <2>1, <2>2, OtherSlot
  <2>4. QED
    BY <2>2, <2>3, FigureEnds
<1>5. CASE GetAdminData(r)
  <2> DEFINE s == FirstStep(arg[r].type)
  <2>1. pc[r] = "report.admin" /\ arg[r].part = 0 /\ arg[r].next = 1
    BY <1>5 DEF GetAdminData, At, SoundSlot
  <2>2. Answer(r, BadRequest) \/ Answer(r, NotFound) \/ Goto(r, s)
    BY <1>5 DEF GetAdminData
  <2>3. arg[r].type \in KnownTypes
    BY <1>2, <2>1, StepsFollowToo
  <2>4. s \in {"sales.products", "stock.in", "purchases.count", "orders.status", "report.customer"}
    BY <2>3 DEF FirstStep, KnownTypes
  <2> HIDE DEF s
  <2>5. SoundSlot(s, arg[r], 0, overwritten'[r]) /\ ExactSlot(s, arg[r], 0)
    BY <1>3, <2>1, <2>4 DEF SoundSlot, ExactSlot, IsFigure
  <2>6. QED
    BY <1>1, <1>3, <2>2, <2>5, FigureGoes, FigureRefuses
<1>6. CASE InitializeReportPDF(r)
  <2>1. Moves(r, "log", arg[r], Created, TRUE) /\ "log" \in EndSteps
    BY <1>6, AnswerMoves DEF InitializeReportPDF, EndSteps
  <2>2. pc[r] = "report.write"
    BY <1>6 DEF InitializeReportPDF, At
  <2>3. SoundSlot("log", arg[r], Created, overwritten'[r])
    BY <1>6, <2>2 DEF SoundSlot, IsFigure
  <2>4. ExactSlot(pc[r], arg[r], answer[r]) => ExactSlot("log", arg[r], Created)
    BY <2>2 DEF ExactSlot, IsFigure
  <2>5. QED
    BY <2>1, <2>3, <2>4, FigureEnds
<1>7. QED
  BY <1>4, <1>5, <1>6

LEMMA StockFigures ==
    ASSUME Slots, AnalyticsOK, NEW r \in Requests, UNCHANGED salesVars,
           StockIn(r) \/ StockOut(r) \/ PurchasesCount(r) \/ PurchasesGroups(r)
    PROVE  FigureKept(r)
<1>1. pc[r] \in AnalyticsSteps
  BY DEF StockIn, StockOut, PurchasesCount, PurchasesGroups, At, AnalyticsSteps
<1>2. arg[r] \in AnalyticsArgs /\ answer[r] = 0 /\ pc[r] \in StepsOf(arg[r].type)
  BY <1>1, AnalyticsArgAt
<1>3. 0 \notin Successes /\ ServerError \notin Successes /\ Found \in Successes
  BY Codes
<1>4. CASE StockIn(r)
  <2> DEFINE a == [arg[r] EXCEPT !.part = Cardinality(stocked)]
  <2>1. a.part = Cardinality(stocked)
    BY <1>2 DEF AnalyticsArgs
  <2>2. Learn(r, a, "stock.out")
    BY <1>4 DEF StockIn
  <2> HIDE DEF a
  <2>3. SoundSlot("stock.out", a, 0, overwritten'[r]) /\ ExactSlot("stock.out", a, 0)
    BY <1>3, <2>1 DEF SoundSlot, ExactSlot, IsFigure
  <2>4. QED
    BY <1>1, <2>2, <2>3, FigureLearns
<1>5. CASE StockOut(r)
  <2> DEFINE n == arg[r].part + Cardinality(items \ stocked)
             a == [arg[r] EXCEPT !.part = n]
  <2>1. pc[r] = "stock.out" /\ Learn(r, a, "report.write")
    BY <1>5 DEF StockOut, At
  <2>2. arg[r].type = "stock"
    BY <1>2, <2>1, StepsFollow
  <2>3. a.part = n /\ a.type = "stock"
    BY <1>2, <2>2 DEF AnalyticsArgs
  <2>4. n = arg[r].part + Cardinality(items \ stocked)
    OBVIOUS
  <2> HIDE DEF a, n
  <2>5. SoundSlot("report.write", a, 0, overwritten'[r])
    BY <2>3 DEF SoundSlot, IsFigure, FigureIsSound
  <2>6. arg[r].part = Cardinality(stocked) => n = Cardinality(items)
    BY <2>4, StockAddsUp
  <2>7. ExactSlot(pc[r], arg[r], answer[r]) => ExactSlot("report.write", a, 0)
    BY <2>1, <2>3, <2>6 DEF ExactSlot, IsFigure, FigureIsExact
  <2>8. QED
    BY <1>1, <2>1, <2>5, <2>7, FigureLearns
<1>6. CASE PurchasesCount(r)
  <2> DEFINE a == [arg[r] EXCEPT !.whole = Cardinality(bought)]
  <2>1. a.whole = Cardinality(bought)
    BY <1>2 DEF AnalyticsArgs
  <2>2. Learn(r, a, "purchases.groups")
    BY <1>6 DEF PurchasesCount
  <2> HIDE DEF a
  <2>3. SoundSlot("purchases.groups", a, 0, overwritten'[r]) /\ ExactSlot("purchases.groups", a, 0)
    BY <1>3, <2>1 DEF SoundSlot, ExactSlot, IsFigure
  <2>4. QED
    BY <1>1, <2>2, <2>3, FigureLearns
<1>7. CASE PurchasesGroups(r)
  <2> DEFINE groups == Cardinality(SoldItems)
             n == IF groups <= arg[r].whole THEN groups ELSE arg[r].whole
             a == [arg[r] EXCEPT !.part = n]
  <2>1. /\ pc[r] = "purchases.groups"
        /\ \/ Answer(r, ServerError)
           \/ arg[r].type = "purchases" /\ Learn(r, a, "report.write")
           \/ arg[r].type = "product-purchases" /\ Answer(r, Found)
    BY <1>7 DEF PurchasesGroups, At
  <2>2. arg[r].whole = Cardinality(bought) => n = groups
    BY SoldItemsAreFew
  <2>3. a.part = n /\ a.type = arg[r].type
    BY <1>2 DEF AnalyticsArgs
  <2> HIDE DEF a, n
  <2>4. CASE arg[r].type = "purchases" /\ Learn(r, a, "report.write")
    <3>1. SoundSlot("report.write", a, 0, overwritten'[r])
      BY <2>3, <2>4 DEF SoundSlot, IsFigure, FigureIsSound
    <3>2. ExactSlot(pc[r], arg[r], answer[r]) => ExactSlot("report.write", a, 0)
      BY <2>1, <2>2, <2>3, <2>4 DEF ExactSlot, IsFigure, FigureIsExact
    <3>3. QED
      BY <1>1, <2>4, <3>1, <3>2, FigureLearns
  <2>5. CASE arg[r].type = "product-purchases" /\ Answer(r, Found)
    <3>1. Moves(r, "answered", arg[r], Found, r \in wrote) /\ "answered" \in EndSteps
      BY <2>5, AnswerMoves DEF EndSteps
    <3>2. SoundSlot("answered", arg[r], Found, overwritten'[r]) /\ ExactSlot("answered", arg[r], Found)
      BY <2>5, <3>1, OtherSlot
    <3>3. QED
      BY <3>1, <3>2, FigureEnds
  <2>6. QED
    BY <1>3, <2>1, <2>4, <2>5, FigureRefuses
<1>8. QED
  BY <1>4, <1>5, <1>6, <1>7

LEMMA CustomerFigures ==
    ASSUME Slots, AnalyticsOK, NEW r \in Requests, UNCHANGED salesVars,
           \/ OrdersStatus(r) \/ ReportCustomer(r) \/ CustomerProducts(r) \/ CustomerCount(r)
           \/ CustomerSum(r)
    PROVE  FigureKept(r)
<1>1. pc[r] \in AnalyticsSteps
  BY DEF OrdersStatus, ReportCustomer, CustomerProducts, CustomerCount, CustomerSum, At, AnalyticsSteps
<1>2. arg[r] \in AnalyticsArgs /\ answer[r] = 0 /\ pc[r] \in StepsOf(arg[r].type)
  BY <1>1, AnalyticsArgAt
<1>3. 0 \notin Successes /\ NotFound \notin Successes /\ Found \in Successes
  BY Codes DEF NotFound, Successes, Created, Found, Deleted
<1>4. CASE OrdersStatus(r)
  <2>1. pc[r] = "orders.status" /\ Goto(r, "report.write")
    BY <1>4 DEF OrdersStatus, At
  <2>2. arg[r].type = "orders"
    BY <1>2, <2>1, StepsFollow
  <2>3. SoundSlot("report.write", arg[r], 0, overwritten'[r]) /\ ExactSlot("report.write", arg[r], 0)
    BY <2>2, OtherSlot
  <2>4. QED
    BY <1>1, <2>1, <2>3, FigureGoes
<1>5. CASE ReportCustomer(r)
  <2>1. \/ Answer(r, NotFound) \/ Goto(r, "customer.products") \/ Goto(r, "customer.count")
    BY <1>5 DEF ReportCustomer
  <2>2. /\ SoundSlot("customer.products", arg[r], 0, overwritten'[r])
        /\ ExactSlot("customer.products", arg[r], 0)
        /\ SoundSlot("customer.count", arg[r], 0, overwritten'[r]) /\ ExactSlot("customer.count", arg[r], 0)
    BY <1>3 DEF SoundSlot, ExactSlot, IsFigure
  <2>3. QED
    BY <1>1, <1>3, <2>1, <2>2, FigureGoes, FigureRefuses
<1>6. CASE CustomerProducts(r)
  <2>1. /\ pc[r] = "customer.products"
        /\ Goto(r, "report.write") \/ Answer(r, Found)
    BY <1>6 DEF CustomerProducts, At
  <2>2. arg[r].type \in {"customer-purchases", "customer-products"}
    BY <1>2, <2>1, StepsFollow
  <2>3. CASE Goto(r, "report.write")
    <3>1. SoundSlot("report.write", arg[r], 0, overwritten'[r]) /\ ExactSlot("report.write", arg[r], 0)
      BY <2>2, OtherSlot
    <3>2. QED
      BY <1>1, <2>3, <3>1, FigureGoes
  <2>4. CASE Answer(r, Found)
    <3>1. Moves(r, "answered", arg[r], Found, r \in wrote) /\ "answered" \in EndSteps
      BY <2>4, AnswerMoves DEF EndSteps
    <3>2. SoundSlot("answered", arg[r], Found, overwritten'[r]) /\ ExactSlot("answered", arg[r], Found)
      BY <2>2, <3>1, OtherSlot
    <3>3. QED
      BY <3>1, <3>2, FigureEnds
  <2>5. QED
    BY <2>1, <2>3, <2>4
<1>7. CASE CustomerCount(r)
  <2> DEFINE a == [arg[r] EXCEPT !.whole = Cardinality(OrdersOf(arg[r].customer))]
  <2>1. a.whole = Cardinality(OrdersOf(a.customer))
    BY <1>2 DEF AnalyticsArgs
  <2>2. Learn(r, a, "customer.sum")
    BY <1>7 DEF CustomerCount
  <2> HIDE DEF a
  <2>3. SoundSlot("customer.sum", a, 0, overwritten'[r]) /\ ExactSlot("customer.sum", a, 0)
    BY <1>3, <2>1 DEF SoundSlot, ExactSlot, IsFigure
  <2>4. QED
    BY <1>1, <2>2, <2>3, FigureLearns
<1>8. CASE CustomerSum(r)
  <2> DEFINE n == Cardinality(OrdersOf(arg[r].customer))
             a == [arg[r] EXCEPT !.part = n]
  <2>1. pc[r] = "customer.sum" /\ (Learn(r, a, "report.write") \/ AnswerWith(r, a, Found))
    BY <1>8 DEF CustomerSum, At
  <2>2. arg[r].type \in {"customer-orders", "customer-total"}
    BY <1>2, <2>1, StepsFollow
  <2>3. a.type = arg[r].type /\ a.part = n /\ a.whole = arg[r].whole
    BY <1>2 DEF AnalyticsArgs
  <2>4. ExactSlot(pc[r], arg[r], answer[r]) => arg[r].whole = n
    BY <2>1 DEF ExactSlot
  <2> HIDE DEF a, n
  <2>5. \A s \in EndSteps \cup {"report.write"} : \A c :
           /\ SoundSlot(s, a, c, overwritten'[r])
           /\ ExactSlot(pc[r], arg[r], answer[r]) => ExactSlot(s, a, c)
    BY <2>2, <2>3, <2>4 DEF SoundSlot, ExactSlot, IsFigure, FigureIsSound, FigureIsExact, EndSteps
  <2>6. CASE Learn(r, a, "report.write")
    BY <1>1, <2>5, <2>6, FigureLearns
  <2>7. CASE AnswerWith(r, a, Found)
    <3>1. Moves(r, "answered", a, Found, r \in wrote) /\ "answered" \in EndSteps
      BY <2>7, AnswerWithMoves DEF EndSteps
    <3>2. QED
      BY <2>5, <3>1, FigureEnds
  <2>8. QED
    BY <2>1, <2>6, <2>7
<1>9. QED
  BY <1>4, <1>5, <1>6, <1>7, <1>8

LEMMA OtherAnswers ==
    ASSUME Slots, NEW r \in Requests, UNCHANGED salesVars,
           arg[r].type \notin {"sales", "conversion", "stock", "purchases", "customer-total",
                               "customer-orders", "top-by-orders"},
           NEW c
    PROVE  /\ Answer(r, c) => FigureKept(r)
           /\ WriteAnswerLog(r, c) => FigureKept(r)
           /\ \A s \in EndSteps : Respond(r, c, s) /\ UNCHANGED wrote => FigureKept(r)
<1>1. \A s \in EndSteps : SoundSlot(s, arg[r], c, overwritten'[r]) /\ ExactSlot(s, arg[r], c)
  BY OtherSlot
<1>2. \A s \in EndSteps : \A w : Moves(r, s, arg[r], c, w) => FigureKept(r)
  BY <1>1, FigureEnds
<1>3. "log" \in EndSteps /\ "answered" \in EndSteps
  BY DEF EndSteps
<1>4. QED
  BY <1>2, <1>3, AnswerMoves, RespondMoves

LEMMA GetterFigures ==
    ASSUME Slots, AnalyticsOK, NEW r \in Requests, UNCHANGED salesVars,
           \/ Figure(r) \/ TopGroups(r) \/ TopCount(r) \/ ConversionCustomers(r)
           \/ ConversionOrders(r) \/ RepeatReturning(r) \/ RepeatCustomers(r),
           SoundSlot(pc[r], arg[r], answer[r], overwritten[r])
    PROVE  FigureKept(r)
<1>1. pc[r] \in AnalyticsSteps
  BY DEF Figure, TopGroups, TopCount, ConversionCustomers, ConversionOrders, RepeatReturning,
     RepeatCustomers, At, AnalyticsSteps
<1>2. arg[r] \in AnalyticsArgs /\ answer[r] = 0 /\ pc[r] \in StepsOf(arg[r].type)
  BY <1>1, AnalyticsArgAt
<1>3. 0 \notin Successes /\ Found \in Successes
  BY Codes
<1>4. CASE Figure(r)
  <2>1. pc[r] = "figure" /\ \E c : Answer(r, c)
    BY <1>4 DEF Figure, At
  <2>2. arg[r].type \notin {"sales", "conversion", "stock", "purchases", "customer-total",
                            "customer-orders", "top-by-orders"}
    BY <1>2, <2>1 DEF StepsOf
  <2>3. QED
    BY <2>1, <2>2, OtherAnswers
<1>5. CASE TopGroups(r)
  <2> DEFINE n == FirstPage(Cardinality(TopCustomers(arg[r].type)))
             a == [arg[r] EXCEPT !.part = n]
  <2>1. a.part = FirstPage(Cardinality(TopCustomers(a.type)))
    BY <1>2 DEF AnalyticsArgs
  <2>2. Learn(r, a, "top.count")
    BY <1>5 DEF TopGroups
  <2> HIDE DEF a
  <2>3. SoundSlot("top.count", a, 0, overwritten'[r]) /\ ExactSlot("top.count", a, 0)
    BY <1>3, <2>1 DEF SoundSlot, ExactSlot, IsFigure
  <2>4. QED
    BY <1>1, <2>2, <2>3, FigureLearns
<1>6. CASE TopCount(r)
  <2> DEFINE n == Cardinality(TopCustomers(arg[r].type))
             a == [arg[r] EXCEPT !.whole = n]
  <2>1. pc[r] = "top.count" /\ AnswerWith(r, a, Found)
    BY <1>6 DEF TopCount, At
  <2>2. arg[r].type \in {"top-by-orders", "top-by-purchases"}
    BY <1>2, <2>1, StepsFollowToo
  <2>3. a.whole = n /\ a.type = arg[r].type /\ a.part = arg[r].part
    BY <1>2 DEF AnalyticsArgs
  <2>4. ExactSlot(pc[r], arg[r], answer[r]) => arg[r].part = FirstPage(n)
    BY <2>1 DEF ExactSlot
  <2> HIDE DEF a, n
  <2>5. Moves(r, "answered", a, Found, r \in wrote) /\ "answered" \in EndSteps
    BY <2>1, AnswerWithMoves DEF EndSteps
  <2>6. SoundSlot("answered", a, Found, overwritten'[r])
    BY <2>2, <2>3 DEF SoundSlot, IsFigure, FigureIsSound
  <2>7. ExactSlot(pc[r], arg[r], answer[r]) => ExactSlot("answered", a, Found)
    BY <2>2, <2>3, <2>4 DEF ExactSlot, IsFigure, FigureIsExact
  <2>8. QED
    BY <2>5, <2>6, <2>7, FigureEnds
<1>7. CASE ConversionCustomers(r)
  <2> DEFINE a == [arg[r] EXCEPT !.whole = Cardinality(customers), !.among = customers]
  <2>1. a.whole = Cardinality(a.among)
    BY <1>2 DEF AnalyticsArgs
  <2>2. Learn(r, a, "conversion.orders")
    BY <1>7 DEF ConversionCustomers
  <2> HIDE DEF a
  <2>3. SoundSlot("conversion.orders", a, 0, overwritten'[r]) /\ ExactSlot("conversion.orders", a, 0)
    BY <1>3, <2>1 DEF SoundSlot, ExactSlot, IsFigure
  <2>4. QED
    BY <1>1, <2>2, <2>3, FigureLearns
<1>8. CASE ConversionOrders(r)
  <2> DEFINE n == Cardinality(CustomersOf(Placed) \cap arg[r].among)
             a == [arg[r] EXCEPT !.part = n]
  <2>1. pc[r] = "conversion.orders" /\ AnswerWith(r, a, Found)
    BY <1>8 DEF ConversionOrders, At
  <2>2. arg[r].type = "conversion" /\ arg[r].whole = Cardinality(arg[r].among)
    BY <1>2, <2>1, StepsFollowToo DEF SoundSlot
  <2>3. a.part = n /\ a.type = "conversion" /\ a.whole = arg[r].whole
    BY <1>2, <2>2 DEF AnalyticsArgs
  <2>4. n <= Cardinality(arg[r].among)
    <3>1. arg[r].among \subseteq Buyers /\ IsFiniteSet(Buyers)
      BY <1>2, AnalyticsAssumption DEF AnalyticsArgs
    <3>2. IsFiniteSet(arg[r].among)
      BY <3>1, FS_Subset
    <3>3. CustomersOf(Placed) \cap arg[r].among \subseteq arg[r].among
      OBVIOUS
    <3>4. QED
      BY <3>2, <3>3, FS_Subset
  <2> HIDE DEF a, n
  <2>5. Moves(r, "answered", a, Found, r \in wrote) /\ "answered" \in EndSteps
    BY <2>1, AnswerWithMoves DEF EndSteps
  <2>6. SoundSlot("answered", a, Found, overwritten'[r]) /\ ExactSlot("answered", a, Found)
    BY <2>2, <2>3, <2>4 DEF SoundSlot, ExactSlot, IsFigure, FigureIsSound, FigureIsExact
  <2>7. QED
    BY <2>5, <2>6, FigureEnds
<1>9. CASE RepeatReturning(r)
  <2> DEFINE a == [arg[r] EXCEPT !.part = Cardinality(Returning)]
  <2>1. Learn(r, a, "repeat.customers")
    BY <1>9 DEF RepeatReturning
  <2> HIDE DEF a
  <2>2. SoundSlot("repeat.customers", a, 0, overwritten'[r]) /\ ExactSlot("repeat.customers", a, 0)
    BY <1>3 DEF SoundSlot, ExactSlot, IsFigure
  <2>3. QED
    BY <1>1, <2>1, <2>2, FigureLearns
<1>10. CASE RepeatCustomers(r)
  <2> DEFINE a == [arg[r] EXCEPT !.whole = Cardinality(customers)]
  <2>1. pc[r] = "repeat.customers" /\ AnswerWith(r, a, Found)
    BY <1>10 DEF RepeatCustomers, At
  <2>2. a.type = "repeat"
    BY <1>2, <2>1, StepsFollowToo DEF AnalyticsArgs
  <2> HIDE DEF a
  <2>3. Moves(r, "answered", a, Found, r \in wrote) /\ "answered" \in EndSteps
    BY <2>1, AnswerWithMoves DEF EndSteps
  <2>4. SoundSlot("answered", a, Found, overwritten'[r]) /\ ExactSlot("answered", a, Found)
    BY <2>2, <2>3, OtherSlot
  <2>5. QED
    BY <2>3, <2>4, FigureEnds
<1>11. QED
  BY <1>4, <1>5, <1>6, <1>7, <1>8, <1>9, <1>10

LEMMA FileFigures ==
    ASSUME Slots, NEW r \in Requests, UNCHANGED salesVars,
           ReportAccess(r) \/ ReportUnlink(r) \/ ReportsRead(r) \/ NeitherNameNorType(r)
    PROVE  FigureKept(r)
<1>1. pc[r] \in AnalyticsSteps
  BY DEF ReportAccess, ReportUnlink, ReportsRead, NeitherNameNorType, At, AnalyticsSteps
<1>2. arg[r] \in AnalyticsArgs /\ answer[r] = 0 /\ pc[r] \in StepsOf(arg[r].type)
  BY <1>1, AnalyticsArgAt
<1>3. arg[r].type \in {"one", "type", "neither"}
  BY <1>2, StepsFollowToo DEF ReportAccess, ReportUnlink, ReportsRead, NeitherNameNorType, At
<1>4. "doomed" \in EndSteps
  BY DEF EndSteps
<1>5. 0 \notin Successes
  BY Codes
<1>6. SoundSlot("report.unlink", arg[r], 0, overwritten'[r]) /\ ExactSlot("report.unlink", arg[r], 0)
  BY <1>5 DEF SoundSlot, ExactSlot, IsFigure
<1>7. CASE ReportAccess(r)
  BY <1>1, <1>3, <1>6, <1>7, OtherAnswers, FigureGoes DEF ReportAccess
<1>8. CASE ReportUnlink(r) \/ ReportsRead(r)
  BY <1>3, <1>8, OtherAnswers DEF ReportUnlink, ReportsRead
<1>9. CASE NeitherNameNorType(r)
  BY <1>3, <1>4, <1>9, OtherAnswers DEF NeitherNameNorType
<1>10. QED
  BY <1>7, <1>8, <1>9

(* Whatever analytics does next.                                           *)
LEMMA FiguresKept ==
    ASSUME Slots, AnalyticsOK, NEW r \in Requests, AnalyticsContinue(r),
           SoundSlot(pc[r], arg[r], answer[r], overwritten[r])
    PROVE  FigureKept(r)
<1>1. UNCHANGED salesVars /\ (InitializeReportPDF(r) => overwritten' = overwritten)
  BY SalesKept
<1>2. QED
  BY <1>1, ReportFigures, SalesFigures, StatusFigures, StockFigures, CustomerFigures, GetterFigures,
     FileFigures DEF AnalyticsContinue

(* The steps of analytics know nothing of the cost of shipping.            *)
NoQuote(r) ==
    /\ pc'[r] \in AnalyticsSteps \cup EndSteps /\ "among" \in DOMAIN arg'[r]
    /\ CostSlot(pc[r], arg[r], answer[r])'

LEMMA QuotesNothing ==
    ASSUME Slots, NEW r \in Requests, pc[r] \in AnalyticsSteps
    PROVE  /\ \A a, s : /\ Learn(r, a, s) /\ s \in AnalyticsSteps /\ "among" \in DOMAIN a => NoQuote(r)
                        /\ AnswerWith(r, a, s) /\ "among" \in DOMAIN a => NoQuote(r)
           /\ \A s \in AnalyticsSteps : Goto(r, s) => NoQuote(r)
           /\ \A c : Answer(r, c) => NoQuote(r)
           /\ \A c : WriteAnswerLog(r, c) => NoQuote(r)
           /\ \A s \in EndSteps : \A c : Respond(r, c, s) /\ UNCHANGED wrote => NoQuote(r)
<1>1. "among" \in DOMAIN arg[r]
  BY AnalyticsArgAt, ArgsDiffer
<1>2. ASSUME NEW s \in AnalyticsSteps \cup EndSteps, NEW a, NEW c, NEW w, Moves(r, s, a, c, w),
             "among" \in DOMAIN a
      PROVE  NoQuote(r)
  <2>1. pc'[r] = s /\ arg'[r] = a
    BY <1>2 DEF Moves
  <2>2. s \notin ShippingSteps /\ a \notin ShippingArgs
    BY <1>2, StepsDiffer, ArgsDiffer DEF AllSteps
  <2>3. QED
    BY <1>2, <2>1, <2>2, NoCost DEF NoQuote
<1>3. "log" \in EndSteps /\ "answered" \in EndSteps
  BY DEF EndSteps
<1>4. \A a, s : /\ Learn(r, a, s) /\ s \in AnalyticsSteps /\ "among" \in DOMAIN a => NoQuote(r)
                /\ AnswerWith(r, a, s) /\ "among" \in DOMAIN a => NoQuote(r)
  BY <1>2, <1>3, LearnMoves, AnswerWithMoves
<1>5. \A s \in AnalyticsSteps : Goto(r, s) => NoQuote(r)
  BY <1>1, <1>2, GotoMoves
<1>6. \A c : (Answer(r, c) => NoQuote(r)) /\ (WriteAnswerLog(r, c) => NoQuote(r))
  BY <1>1, <1>2, <1>3, AnswerMoves
<1>7. \A s \in EndSteps : \A c : Respond(r, c, s) /\ UNCHANGED wrote => NoQuote(r)
  BY <1>1, <1>2, RespondMoves
<1>8. QED
  BY <1>4, <1>5, <1>6, <1>7

LEMMA LearntFields ==
    ASSUME NEW a, "among" \in DOMAIN a
    PROVE  /\ \A n : "among" \in DOMAIN [a EXCEPT !.sold = n]
           /\ \A n : "among" \in DOMAIN [a EXCEPT !.shared = n]
           /\ \A n : "among" \in DOMAIN [a EXCEPT !.whole = n]
           /\ \A n : "among" \in DOMAIN [a EXCEPT !.part = n]
           /\ \A n : "among" \in DOMAIN [a EXCEPT !.next = n]
           /\ \A n, x : "among" \in DOMAIN [a EXCEPT !.whole = n, !.among = x]
  OBVIOUS

LEMMA AnalyticsQuotes ==
    ASSUME Slots, NEW r \in Requests, AnalyticsContinue(r)
    PROVE  pc[r] \in AnalyticsSteps /\ NoQuote(r)
<1>1. pc[r] \in AnalyticsSteps
  <2>1. CASE \/ NoReport(r) \/ GetAdminData(r) \/ InitializeReportPDF(r)
             \/ SalesProducts(r) \/ SalesRevenue(r) \/ SalesCount(r) \/ SalesCategories(r)
             \/ SalesStatuses(r) \/ StockIn(r) \/ StockOut(r) \/ PurchasesCount(r)
             \/ PurchasesGroups(r) \/ OrdersStatus(r)
    BY <2>1 DEF NoReport, GetAdminData, InitializeReportPDF, SalesProducts, SalesRevenue, SalesCount,
       SalesCategories, SalesStatuses, StockIn, StockOut, PurchasesCount, PurchasesGroups,
       OrdersStatus, At, AnalyticsSteps
  <2>2. CASE \/ ReportCustomer(r) \/ CustomerProducts(r) \/ CustomerCount(r) \/ CustomerSum(r)
             \/ Figure(r) \/ TopGroups(r) \/ TopCount(r) \/ ConversionCustomers(r)
             \/ ConversionOrders(r) \/ RepeatReturning(r) \/ RepeatCustomers(r)
             \/ ReportAccess(r) \/ ReportUnlink(r) \/ ReportsRead(r) \/ NeitherNameNorType(r)
    BY <2>2 DEF ReportCustomer, CustomerProducts, CustomerCount, CustomerSum, Figure, TopGroups,
       TopCount, ConversionCustomers, ConversionOrders, RepeatReturning, RepeatCustomers,
       ReportAccess, ReportUnlink, ReportsRead, NeitherNameNorType, At, AnalyticsSteps
  <2>3. QED
    BY <2>1, <2>2 DEF AnalyticsContinue
<1>2. "among" \in DOMAIN arg[r]
  BY <1>1, AnalyticsArgAt, ArgsDiffer
<1> DEFINE Good == NoQuote(r)
<1>3. /\ \A a, s : /\ Learn(r, a, s) /\ s \in AnalyticsSteps /\ "among" \in DOMAIN a => Good
                   /\ AnswerWith(r, a, s) /\ "among" \in DOMAIN a => Good
      /\ \A s \in AnalyticsSteps : Goto(r, s) => Good
      /\ \A c : Answer(r, c) => Good
      /\ \A c : WriteAnswerLog(r, c) => Good
      /\ \A s \in EndSteps : \A c : Respond(r, c, s) /\ UNCHANGED wrote => Good
  BY <1>1, QuotesNothing
<1> SUFFICES Good
  BY <1>1
<1> HIDE DEF Good
<1>4. CASE \/ SalesProducts(r) \/ SalesRevenue(r) \/ SalesCount(r) \/ SalesCategories(r)
  BY <1>2, <1>3, <1>4, LearntFields
  DEF SalesProducts, SalesRevenue, SalesCount, SalesCategories, Sum, AnalyticsSteps
<1>5. CASE SalesStatuses(r)
  <2> DEFINE b == [arg[r] EXCEPT !.part = @ + OfStatus(ReportedStatuses[arg[r].next])]
             d == [b EXCEPT !.next = @ + 1]
  <2>1. "among" \in DOMAIN b /\ "among" \in DOMAIN d
    BY <1>2
  <2>2. Learn(r, b, "report.write") \/ Learn(r, d, "sales.statuses")
    BY <1>5 DEF SalesStatuses
  <2> HIDE DEF b, d
  <2>3. QED
    BY <1>3, <2>1, <2>2 DEF AnalyticsSteps
<1>6. CASE StockIn(r) \/ StockOut(r) \/ PurchasesCount(r) \/ PurchasesGroups(r)
  BY <1>2, <1>3, <1>6, LearntFields
  DEF StockIn, StockOut, PurchasesCount, PurchasesGroups, AnalyticsSteps
<1>7. CASE \/ NoReport(r) \/ InitializeReportPDF(r) \/ OrdersStatus(r) \/ ReportCustomer(r)
           \/ CustomerProducts(r) \/ Figure(r)
           \/ ReportAccess(r) \/ ReportUnlink(r) \/ ReportsRead(r) \/ NeitherNameNorType(r)
  BY <1>3, <1>7
  DEF NoReport, InitializeReportPDF, OrdersStatus, ReportCustomer, CustomerProducts, Figure,
      ReportAccess, ReportUnlink, ReportsRead, NeitherNameNorType, AnalyticsSteps, EndSteps
<1>8. CASE GetAdminData(r)
  <2>1. \A t : FirstStep(t) \in AnalyticsSteps
    BY DEF FirstStep, AnalyticsSteps
  <2>2. QED
    BY <1>3, <1>8, <2>1 DEF GetAdminData
<1>9. CASE CustomerCount(r) \/ CustomerSum(r) \/ TopGroups(r) \/ TopCount(r)
  BY <1>2, <1>3, <1>9, LearntFields DEF CustomerCount, CustomerSum, TopGroups, TopCount, AnalyticsSteps
<1>10. CASE \/ ConversionCustomers(r) \/ ConversionOrders(r)
            \/ RepeatReturning(r) \/ RepeatCustomers(r)
  BY <1>2, <1>3, <1>10, LearntFields
  DEF ConversionCustomers, ConversionOrders, RepeatReturning, RepeatCustomers, AnalyticsSteps
<1>11. QED
  BY <1>4, <1>5, <1>6, <1>7, <1>8, <1>9, <1>10 DEF AnalyticsContinue

(* A report or a figure begins with nothing read.                          *)
LEMMA FiguresBegin ==
    ASSUME Slots, NEW r \in Requests, FiguresArrive(r) \/ DeletionsArrive(r)
    PROVE  pc[r] = "idle" /\ pc'[r] \in AnalyticsSteps /\ FigureSlot(r)'
<1> DEFINE Plain == AnalyticsSteps \ {"report.admin", "sales.products", "sales.revenue", "sales.count",
                                      "sales.categories", "sales.statuses", "conversion.orders",
                                      "stock.out", "purchases.groups", "customer.sum", "top.count",
                                      "report.write"}
<1>1. 0 \notin Successes
  BY Codes
<1>2. ASSUME NEW a, NEW s, Begin(r, a, s), UNCHANGED salesVars, "among" \in DOMAIN a,
             s \in Plain \/ (s = "report.admin" /\ a.part = 0 /\ a.next = 1)
      PROVE  pc[r] = "idle" /\ pc'[r] \in AnalyticsSteps /\ FigureSlot(r)'
  <2>1. pc[r] = "idle" /\ Moves(r, s, a, 0, r \in wrote)
    BY <1>2, BeginMoves, SlotAt
  <2>2. SoundSlot(s, a, 0, overwritten'[r]) /\ ExactSlot(s, a, 0)
    <3>1. CASE s \in Plain
      BY <1>1, <3>1, FirstSlots
    <3>2. CASE s = "report.admin" /\ a.part = 0 /\ a.next = 1
      BY <1>1, <3>2 DEF SoundSlot, ExactSlot, IsFigure
    <3>3. QED
      BY <1>2, <3>1, <3>2
  <2>3. s \in AnalyticsSteps /\ s \notin ShippingSteps /\ a \notin ShippingArgs
    BY <1>2, StepsDiffer, ArgsDiffer DEF AnalyticsSteps
  <2>4. pc'[r] \notin ShippingSteps /\ arg'[r] \notin ShippingArgs
    BY <2>1, <2>3 DEF Moves
  <2>5. FigureSlot(r)'
    BY <1>2, <2>1, <2>2, <2>4, FigureMoves, NoCost DEF FigureSlot
  <2>6. pc'[r] \in AnalyticsSteps
    BY <2>1, <2>3 DEF Moves
  <2>7. QED
    BY <2>1, <2>5, <2>6
<1>3. \A t, c : /\ "among" \in DOMAIN Query(t, c) /\ Query(t, c).part = 0 /\ Query(t, c).next = 1
                /\ \A x : "among" \in DOMAIN [Query(t, c) EXCEPT !.filtered = x]
                /\ \A f, k : "among" \in DOMAIN [Query(t, c) EXCEPT !.file = f, !.kind = k]
  BY DEF Query
<1>4. {"report.none", "report.access", "reports.read", "report.neither"} \subseteq Plain
  BY DEF AnalyticsSteps
<1>5. \A t \in Getters : FirstStep(t) \in Plain
  BY DEF FirstStep, AnalyticsSteps, Getters
<1> HIDE DEF Plain
<1>6. UNCHANGED analyticsVars => UNCHANGED salesVars
  BY DEF analyticsVars
<1>7. ASSUME NEW c \in Buyers, NEW type, GenerateReport(r, type, c)
      PROVE  pc[r] = "idle" /\ pc'[r] \in AnalyticsSteps /\ FigureSlot(r)'
  BY <1>2, <1>3, <1>4, <1>6, <1>7 DEF GenerateReport
<1>8. ASSUME NEW c \in Buyers, NEW type \in Getters, NEW x, Getter(r, type, c, x, FirstStep(type))
      PROVE  pc[r] = "idle" /\ pc'[r] \in AnalyticsSteps /\ FigureSlot(r)'
  BY <1>2, <1>3, <1>5, <1>6, <1>8 DEF Getter
<1>9. ASSUME NEW deletion \in Deletions, NEW type, NEW f, DeleteReport(r, deletion, type, f)
      PROVE  pc[r] = "idle" /\ pc'[r] \in AnalyticsSteps /\ FigureSlot(r)'
  <2> DEFINE s == CASE deletion = "one" -> "report.access"
                    [] deletion = "type" -> "reports.read"
                    [] deletion = "neither" -> "report.neither"
  <2>1. s \in Plain
    BY <1>4 DEF Deletions
  <2>2. Begin(r, [Query(deletion, None) EXCEPT !.file = f, !.kind = type], s)
        /\ UNCHANGED analyticsVars
    BY <1>9 DEF DeleteReport
  <2> HIDE DEF s
  <2>3. QED
    BY <1>2, <1>3, <1>6, <2>1, <2>2
<1>10. CASE FiguresArrive(r)
  <2>1. "product-purchases" \in Getters /\ "categories" \in Getters
    BY DEF Getters
  <2>2. QED
    BY <1>7, <1>8, <1>10, <2>1 DEF FiguresArrive
<1>11. CASE DeletionsArrive(r)
  BY <1>9, <1>11 DEF DeletionsArrive, Deletions
<1>12. QED
  BY <1>10, <1>11

-----------------------------------------------------------------------------
(* While handlers run one at a time.                                       *)
LEMMA AtMostOne ==
    ASSUME NEW S, NEW T, IsFiniteSet(S), IsFiniteSet(T), Cardinality(S) + Cardinality(T) <= 1
    PROVE  /\ \A x, y \in S : x = y
           /\ \A x, y \in T : x = y
           /\ S = {} \/ T = {}
<1>1. Cardinality(S) \in Nat /\ Cardinality(T) \in Nat
  BY FS_CardinalityType
<1>2. ASSUME NEW U, IsFiniteSet(U), NEW x \in U
      PROVE  Cardinality(U) \in Nat /\ Cardinality(U) >= 1
  <2>1. Cardinality({x}) = 1 /\ {x} \subseteq U
    BY FS_Singleton
  <2>2. QED
    BY <1>2, <2>1, FS_Subset, FS_CardinalityType
<1>3. ASSUME NEW U, IsFiniteSet(U), NEW x \in U, NEW y \in U, x # y
      PROVE  Cardinality(U) \in Nat /\ Cardinality(U) >= 2
  <2>1. Cardinality({x}) = 1 /\ IsFiniteSet({x}) /\ y \notin {x}
    BY <1>3, FS_Singleton
  <2>2. Cardinality({x} \cup {y}) = 1 + 1
    BY <2>1, FS_AddElement
  <2>3. {x} \cup {y} \subseteq U
    OBVIOUS
  <2>4. Cardinality({x} \cup {y}) <= Cardinality(U) /\ Cardinality(U) \in Nat
    BY <1>3, <2>3, FS_Subset, FS_CardinalityType
  <2>5. QED
    BY <2>2, <2>4
<1>4. \A x, y \in S : x = y
  BY <1>1, <1>3
<1>5. \A x, y \in T : x = y
  BY <1>1, <1>3
<1>6. S = {} \/ T = {}
  <2>1. SUFFICES ASSUME NEW x \in S, NEW y \in T PROVE FALSE
    OBVIOUS
  <2>2. Cardinality(S) >= 1 /\ Cardinality(T) >= 1
    BY <1>2
  <2>3. QED
    BY <1>1, <2>2
<1>7. QED
  BY <1>4, <1>5, <1>6

LEMMA HandlerAlone ==
    ASSUME HandlerStep
    PROVE  (alone' => alone) /\ OneAtATime'
<1>1. (alone' => alone) /\ (alone' => Cardinality(Busy') + Cardinality(Removing') <= 1)
  BY DEF HandlerStep
<1>2. Busy' \subseteq Requests /\ Removing' \subseteq Jobs
  BY DEF Busy, Removing
<1>3. IsFiniteSet(Busy') /\ IsFiniteSet(Removing')
  BY <1>2, RequestsAssumption, CatalogAssumption, FS_Subset
<1>4. alone' => /\ \A q, r \in Busy' : q = r
                /\ \A i, j \in Removing' : i = j
                /\ Busy' = {} \/ Removing' = {}
  BY <1>1, <1>3, AtMostOne
<1>5. QED
  BY <1>1, <1>4 DEF OneAtATime

LEMMA OutsideAlone ==
    ASSUME OutsideStep, UNCHANGED pc, UNCHANGED job
    PROVE  /\ alone' => alone /\ \A r \in Requests : pc[r] = "idle"
           /\ OneAtATime'
<1>1. alone' => alone /\ Busy = {} /\ Removing = {}
  BY DEF OutsideStep
<1>2. Busy' = Busy /\ Removing' = Removing
  BY DEF Busy, Removing
<1>3. QED
  BY <1>1, <1>2 DEF OneAtATime, Busy

(* What a slot holds, one step on.                                         *)
LEMMA SlotThen ==
    ASSUME Slots', NEW r \in Requests
    PROVE  /\ pc'[r] \in AllSteps => answer'[r] = 0
           /\ pc'[r] \in CatalogSteps => arg'[r] \in CatalogArgs
           /\ pc'[r] \in RatingSteps => arg'[r] \in RatingArgs
           /\ pc'[r] \in ShippingSteps => arg'[r] \in ShippingArgs
           /\ pc'[r] = "idle" => answer'[r] = 0
<1>1. Slot(pc'[r], arg'[r], answer'[r], r \in wrote')
  BY DEF Slots
<1>2. QED
  BY <1>1, StepsDiffer
  DEF Slot, EndedSlot, CatalogSlot, RatingSlot, ShippingSlot, AnalyticsSlot, AllSteps

LEMMA EndSlotThen ==
    ASSUME Slots', NEW r \in Requests, answer'[r] # 0
    PROVE  pc'[r] \in EndSteps
<1>1. Slot(pc'[r], arg'[r], answer'[r], r \in wrote')
  BY DEF Slots
<1>2. QED
  BY <1>1 DEF Slot, EndedSlot

LEMMA IdleSlot ==
    ASSUME Slots', NEW r \in Requests, pc'[r] = "idle"
    PROVE  FigureSlot(r)'
<1>1. answer'[r] \notin Successes
  BY SlotThen, Codes
<1>2. "idle" \notin ShippingSteps /\ "idle" \notin AnalyticsSteps
  BY StepsDiffer DEF AllSteps
<1>3. QED
  BY <1>1, <1>2, NoFigures, NoCost DEF FigureSlot

(* A handler that does nothing loses nothing: another one's step changes   *)
(* no tables of sales, and those of shipping only when it is not alone.    *)
LEMMA FigureStays ==
    ASSUME NEW q \in Requests, FigureSlot(q),
           pc'[q] = pc[q], arg'[q] = arg[q], answer'[q] = answer[q], alone' => alone,
           overwritten'[q] = overwritten[q],
           UNCHANGED salesVars, UNCHANGED shippingVars \/ ~alone'
    PROVE  FigureSlot(q)'
<1>1. SoundSlot(pc[q], arg[q], answer[q], overwritten[q])'
  BY DEF FigureSlot, SoundSlot, IsFigure, FigureIsSound, Unread, salesVars
<1>2. ASSUME alone'
      PROVE  ExactSlot(pc[q], arg[q], answer[q])'
  BY <1>2 DEF FigureSlot, ExactSlot, IsFigure, FigureIsExact, Counted, salesVars, Placed, OrdersOf,
     TopCustomers, CustomersOf, SoldItems, CategoryGroups, GroupOf
<1>3. ASSUME alone'
      PROVE  CostSlot(pc[q], arg[q], answer[q])'
  BY <1>3 DEF FigureSlot, CostSlot, CostIsExact, Cost, LiveCountry, shippingVars
<1>4. QED
  BY <1>1, <1>2, <1>3 DEF FigureSlot

Figures == OneAtATime /\ \A r \in Requests : FigureSlot(r)

(* The slots of all others, after a step of handler r.                     *)
LEMMA OthersKept ==
    ASSUME Figures, Slots', NEW r \in Requests, Alone(r), HandlerStep, UNCHANGED salesVars,
           \A q \in Requests \ {r} : overwritten'[q] = overwritten[q],
           UNCHANGED shippingVars \/ pc[r] # "idle", FigureSlot(r)'
    PROVE  Figures'
<1>1. (alone' => alone) /\ OneAtATime'
  BY HandlerAlone
<1>2. ASSUME NEW q \in Requests
      PROVE  FigureSlot(q)'
  <2>1. CASE q = r
    BY <2>1
  <2>2. CASE q # r /\ (UNCHANGED shippingVars \/ ~alone')
    BY <1>1, <2>2, FigureStays DEF Alone, Figures
  <2>3. CASE q # r /\ pc[r] # "idle" /\ alone'
    <3>1. r \in Busy /\ \A x, y \in Busy : x = y
      BY <1>1, <2>3 DEF Busy, Figures, OneAtATime
    <3>2. pc[q] = "idle"
      BY <2>3, <3>1 DEF Busy
    <3>3. pc'[q] = "idle"
      BY <2>3, <3>2 DEF Alone
    <3>4. QED
      BY <3>3, IdleSlot
  <2>4. QED
    BY <2>1, <2>2, <2>3
<1>3. QED
  BY <1>1, <1>2 DEF Figures

(* A handler of the catalogue, or of ratings, has no figures.              *)
LEMMA StrangeSlot ==
    ASSUME Slots, Slots', NEW r \in Requests,
           \/ pc'[r] \in CatalogSteps \cup RatingSteps
           \/ pc'[r] \in EndSteps /\ arg'[r] = arg[r] /\ pc[r] \in CatalogSteps \cup RatingSteps
    PROVE  FigureSlot(r)'
<1>1. pc'[r] \notin AnalyticsSteps /\ pc'[r] \notin ShippingSteps
  BY StepsDiffer DEF AllSteps
<1>2. (arg'[r] \notin AnalyticsArgs /\ arg'[r] \notin ShippingArgs) \/ answer'[r] \notin Successes
  <2>1. CASE pc'[r] \in CatalogSteps \cup RatingSteps
    <3>1. answer'[r] = 0
      BY <2>1, SlotThen DEF AllSteps
    <3>2. QED
      BY <3>1, Codes
  <2>2. CASE arg'[r] = arg[r] /\ pc[r] \in CatalogSteps \cup RatingSteps
    <3>1. arg[r] \in CatalogArgs \cup RatingArgs
      BY <2>2, SlotAt DEF CatalogSlot, RatingSlot
    <3>2. QED
      BY <2>2, <3>1, ArgsDiffer
  <2>3. QED
    BY <2>1, <2>2
<1>3. QED
  BY <1>1, <1>2, NoFigures, NoCost DEF FigureSlot

(* The steps of shipping have no figures, but costs.                       *)
LEMMA CostMoves ==
    ASSUME Slots, NEW r \in Requests, CostCountry(r) \/ CostSafe(r) \/ CostWeight(r)
    PROVE  /\ pc'[r] \in ShippingSteps \cup EndSteps
           /\ "among" \notin DOMAIN arg'[r] /\ "which" \notin DOMAIN arg'[r]
<1>1. pc[r] \in ShippingSteps
  BY DEF CostCountry, CostSafe, CostWeight, At, ShippingSteps
<1>2. "among" \notin DOMAIN arg[r] /\ "which" \notin DOMAIN arg[r]
  BY <1>1, ShippingArgAt, ArgsDiffer
<1>3. /\ \A n : DOMAIN [arg[r] EXCEPT !.rate = n] = DOMAIN arg[r]
      /\ \A n, x : DOMAIN [arg[r] EXCEPT !.rate = n, !.quote = x] = DOMAIN arg[r]
  BY <1>2
<1>4. {"cost.safe", "cost.weight"} \subseteq ShippingSteps
  BY DEF ShippingSteps
<1>5. CASE CostCountry(r)
  <2> DEFINE s == IF arg[r].safe THEN "cost.safe" ELSE "cost.weight"
  <2>1. s \in ShippingSteps
    BY <1>4
  <2>2. \/ Answer(r, NotFound)
        \/ Learn(r, [arg[r] EXCEPT !.rate = country[arg[r].country].rate + methodRate], s)
    BY <1>5 DEF CostCountry
  <2> HIDE DEF s
  <2>3. QED
    BY <1>2, <1>3, <2>1, <2>2, StayMoves
<1>6. CASE CostSafe(r)
  BY <1>2, <1>3, <1>4, <1>6, StayMoves DEF CostSafe
<1>7. CASE CostWeight(r)
  <2> DEFINE a == [arg[r] EXCEPT !.rate = @ + weightRate[arg[r].weight], !.quote = TRUE]
  <2>1. "among" \notin DOMAIN a /\ "which" \notin DOMAIN a
    BY <1>2
  <2>2. Answer(r, NotFound) \/ AnswerWith(r, a, Found)
    BY <1>7 DEF CostWeight
  <2> HIDE DEF a
  <2>3. QED
    BY <1>2, <2>1, <2>2, StayMoves
<1>8. QED
  BY <1>5, <1>6, <1>7

LEMMA ShippingFigures ==
    ASSUME Slots, Slots', ShippingOK, NEW r \in Requests, ShippingArrive(r) \/ ShippingContinue(r),
           FigureSlot(r), alone' => alone
    PROVE  FigureSlot(r)'
<1>1. CASE ShippingArrive(r)
  <2>1. pc'[r] \in ShippingSteps \ {"cost.safe", "cost.weight"} /\ arg'[r].quote = FALSE
    BY <1>1, ShippingArrives
  <2>2. answer'[r] = 0 /\ pc'[r] \notin AnalyticsSteps
    BY <2>1, SlotThen, StepsDiffer DEF AllSteps
  <2>3. SoundSlot(pc[r], arg[r], answer[r], overwritten[r])' /\ ExactSlot(pc[r], arg[r], answer[r])'
    BY <2>2, NoFigures, Codes
  <2>4. CostSlot(pc[r], arg[r], answer[r])'
    BY <2>1, <2>2, Codes DEF CostSlot
  <2>5. QED
    BY <2>3, <2>4 DEF FigureSlot
<1>2. CASE ShippingContinue(r)
  <2>1. pc[r] \in ShippingSteps /\ arg[r] \in ShippingArgs /\ "among" \notin DOMAIN arg[r]
    BY <1>2, ShippingStays, ShippingArgAt, ArgsDiffer
  <2>2. pc'[r] \in ShippingSteps \cup EndSteps /\ "among" \notin DOMAIN arg'[r]
    BY <1>2, <2>1, ShippingStays, CostMoves
  <2>3. pc'[r] \notin AnalyticsSteps /\ arg'[r] \notin AnalyticsArgs
    BY <2>2, StepsDiffer, ArgsDiffer DEF AllSteps
  <2>4. SoundSlot(pc[r], arg[r], answer[r], overwritten[r])' /\ ExactSlot(pc[r], arg[r], answer[r])'
    BY <2>3, NoFigures
  <2>5. ASSUME alone'
        PROVE  CostSlot(pc[r], arg[r], answer[r])'
    <3>1. CostSlot(pc[r], arg[r], answer[r]) /\ ~arg[r].quote
      BY <2>1, <2>5 DEF FigureSlot, CostSlot
    <3>2. CASE CostCountry(r) \/ CostSafe(r) \/ CostWeight(r)
      BY <3>1, <3>2, CostAddsUp
    <3>3. CASE /\ pc'[r] \in (ShippingSteps \ {"cost.safe", "cost.weight"}) \cup EndSteps
               /\ arg'[r] = arg[r]
      <4>1. "cost.safe" \notin EndSteps /\ "cost.weight" \notin EndSteps
        BY DEF EndSteps
      <4>2. QED
        BY <3>1, <3>3, <4>1 DEF CostSlot, CostIsExact
    <3>4. QED
      BY <1>2, <3>2, <3>3, ShippingStays
  <2>6. QED
    BY <2>4, <2>5 DEF FigureSlot
<1>3. QED
  BY <1>1, <1>2

LEMMA AnalyticsFigures ==
    ASSUME Slots, Slots', AnalyticsOK, NEW r \in Requests, AnalyticsContinue(r), FigureSlot(r),
           alone' => alone
    PROVE  FigureSlot(r)'
<1>1. FigureKept(r) /\ NoQuote(r)
  BY FiguresKept, AnalyticsQuotes DEF FigureSlot
<1>2. QED
  BY <1>1 DEF FigureKept, NoQuote, FigureSlot

(* Orders that go on: none that was to be read is lost, for it moves to a  *)
(* status that is read later, unless it is overwritten.                    *)
LEMMA UnreadGrows ==
    ASSUME AnalyticsOK, AnalyticsOK', AnalyticsOutside, NEW r \in Requests
    PROVE  /\ Cardinality(overwritten[r]) \in Nat /\ Cardinality(overwritten[r])' \in Nat
           /\ Cardinality(overwritten[r]) <= Cardinality(overwritten[r])'
           /\ \A k \in 1..7 :
                 /\ Cardinality(Unread(k) \cup overwritten[r]) \in Nat
                 /\ Cardinality(Unread(k) \cup overwritten[r])' \in Nat
                 /\ Cardinality(Unread(k) \cup overwritten[r]) <=
                       Cardinality(Unread(k) \cup overwritten[r])'
<1>1. ASSUME NEW k \in 1..7
      PROVE  Unread(k) \subseteq Unread(k)' \cup overwritten'[r]
  <2>1. CASE OrderPlaced
    <3>1. PICK o \in Orders :
             status[o] = "absent" /\ status' = [status EXCEPT ![o] = "pending"]
      BY <2>1 DEF OrderPlaced, Life!Place
    <3>2. \A m \in k..7 : ReportedStatuses[m] # "absent"
      <4> TAKE m \in k..7
      <4>1. m \in {1, 2, 3, 4, 5, 6, 7}
        OBVIOUS
      <4>2. QED
        BY <4>1, StatusesAre
    <3>3. \A x \in Orders : x # o => status'[x] = status[x]
      BY <3>1 DEF AnalyticsOK
    <3>4. QED
      BY <3>1, <3>2, <3>3, StatusesAre DEF Unread
  <2>2. CASE OrderMoved \/ OrderRefunded
    <3>1. PICK o \in Orders, i \in 1..7, m \in 1..7 :
             /\ i < m /\ status[o] = ReportedStatuses[i]
             /\ status' = [status EXCEPT ![o] = ReportedStatuses[m]]
      BY <2>2, OrdersMoveOn
    <3>2. /\ \A x \in Orders : x # o => status'[x] = status[x]
          /\ status'[o] = ReportedStatuses[m]
      BY <3>1 DEF AnalyticsOK
    <3>3. ASSUME NEW x \in Unread(k)
          PROVE  x \in Unread(k)'
      <4>1. x \in Orders /\ \E n \in k..7 : status[x] = ReportedStatuses[n]
        BY StatusesAre DEF Unread
      <4>2. \E n \in k..7 : status'[x] = ReportedStatuses[n]
        <5>1. CASE x # o
          BY <3>2, <4>1, <5>1
        <5>2. CASE x = o
          <6>1. PICK n \in k..7 : status[o] = ReportedStatuses[n]
            BY <4>1, <5>2
          <6>2. n = i
            <7>1. n \in 1..7 /\ ReportedStatuses[n] = ReportedStatuses[i]
              BY <3>1, <6>1
            <7>2. QED
              BY <7>1, StatusesDiffer
          <6>3. m \in k..7
            BY <3>1, <6>2
          <6>4. QED
            BY <3>2, <5>2, <6>3
        <5>3. QED
          BY <5>1, <5>2
      <4>3. QED
        BY <4>1, <4>2, StatusesAre DEF Unread
    <3>4. QED
      BY <3>3
  <2>3. CASE CustomerDeleted \/ ItemChanged \/ FileDone
    <3>1. status' = status
      BY <2>3 DEF CustomerDeleted, ItemChanged, FileDone, salesVars
    <3>2. QED
      BY <3>1 DEF Unread
  <2>4. CASE OrderOverwritten
    <3>1. PICK o \in Orders, m \in 1..7 :
             /\ status' = [status EXCEPT ![o] = ReportedStatuses[m]]
             /\ o \in overwritten'[r]
      BY <2>4, OrdersMoveBack
    <3>2. \A x \in Orders : x # o => status'[x] = status[x]
      BY <3>1 DEF AnalyticsOK
    <3>3. QED
      BY <3>1, <3>2 DEF Unread
  <2>5. QED
    BY <2>1, <2>2, <2>3, <2>4 DEF AnalyticsOutside
<1>2. overwritten[r] \subseteq overwritten'[r]
  <2>1. CASE OrderOverwritten
    BY <2>1, OrdersMoveBack
  <2>2. CASE ~OrderOverwritten
    BY <2>2 DEF AnalyticsOutside, OrderPlaced, OrderMoved, OrderRefunded, CustomerDeleted,
       ItemChanged, FileDone
  <2>3. QED
    BY <2>1, <2>2
<1>3. overwritten[r] \subseteq Orders /\ overwritten'[r] \subseteq Orders
  BY DEF AnalyticsOK
<1>4. \A S, T : S \subseteq T /\ T \subseteq Orders =>
         Cardinality(S) \in Nat /\ Cardinality(T) \in Nat /\ Cardinality(S) <= Cardinality(T)
  BY AnalyticsAssumption, FS_Subset, FS_CardinalityType
<1>5. ASSUME NEW k \in 1..7
      PROVE  /\ Cardinality(Unread(k) \cup overwritten[r]) \in Nat
             /\ Cardinality(Unread(k) \cup overwritten[r])' \in Nat
             /\ Cardinality(Unread(k) \cup overwritten[r]) <=
                   Cardinality(Unread(k) \cup overwritten[r])'
  <2>1. Unread(k)' \subseteq Orders
    BY DEF Unread
  <2>2. /\ Unread(k) \cup overwritten[r] \subseteq Unread(k)' \cup overwritten'[r]
        /\ Unread(k)' \cup overwritten'[r] \subseteq Orders
    BY <1>1, <1>2, <1>3, <2>1
  <2>3. QED
    BY <1>4, <2>2
<1>6. QED
  BY <1>2, <1>3, <1>4, <1>5

LEMMA OutsideFigures ==
    ASSUME Figures, Slots, Slots', AnalyticsOK, AnalyticsOK', AnalyticsOutside, OutsideStep,
           UNCHANGED catalogVars
    PROVE  Figures'
<1>1. UNCHANGED requestVars
  BY DEF AnalyticsOutside, OrderPlaced, OrderMoved, OrderRefunded, OrderOverwritten,
     CustomerDeleted, ItemChanged, FileDone
<1>2. /\ alone' => alone /\ \A r \in Requests : pc[r] = "idle"
      /\ OneAtATime'
  BY <1>1, OutsideAlone DEF requestVars, catalogVars
<1>3. ASSUME NEW r \in Requests
      PROVE  FigureSlot(r)'
  <2>1. CASE alone'
    BY <1>1, <1>2, <2>1, IdleSlot DEF requestVars
  <2>2. CASE ~alone'
    <3>1. SoundSlot(pc[r], arg[r], answer[r], overwritten[r])
      BY DEF Figures, FigureSlot
    <3>2. pc'[r] = pc[r] /\ arg'[r] = arg[r] /\ answer'[r] = answer[r]
      BY <1>1 DEF requestVars
    <3>3. ASSUME pc[r] \in {"sales.categories", "sales.statuses"}
          PROVE  arg[r].part + Cardinality(Unread(arg[r].next) \cup overwritten[r])' >= arg[r].whole
      <4>1. pc[r] \in AnalyticsSteps
        BY <3>3 DEF AnalyticsSteps
      <4>2. arg[r].next \in 1..7 /\ arg[r].part \in Nat /\ arg[r].whole \in Nat
        BY <4>1, AnalyticsArgAt, StatusesAre DEF AnalyticsArgs
      <4>3. arg[r].part + Cardinality(Unread(arg[r].next) \cup overwritten[r]) >= arg[r].whole
        BY <3>1, <3>3 DEF SoundSlot
      <4>4. PICK k \in 1..7 : k = arg[r].next
        BY <4>2
      <4>5. /\ Cardinality(Unread(k) \cup overwritten[r]) \in Nat
            /\ Cardinality(Unread(k) \cup overwritten[r])' \in Nat
            /\ Cardinality(Unread(k) \cup overwritten[r]) <=
                  Cardinality(Unread(k) \cup overwritten[r])'
        BY UnreadGrows
      <4>6. arg[r].part + Cardinality(Unread(k) \cup overwritten[r])' >= arg[r].whole
        BY <4>2, <4>3, <4>4, <4>5
      <4>7. Cardinality(Unread(k) \cup overwritten[r])'
               = Cardinality(Unread(arg[r].next) \cup overwritten[r])'
        BY <1>1, <4>4 DEF Unread, requestVars
      <4>8. QED
        BY <4>6, <4>7
    <3>4. ASSUME IsFigure(pc[r], arg[r], answer[r])
          PROVE  FigureIsSound(arg[r], overwritten[r])'
      <4>1. FigureIsSound(arg[r], overwritten[r])
        BY <3>1, <3>4 DEF SoundSlot
      <4>2. arg[r] \in AnalyticsArgs
        <5>1. "report.write" \in AnalyticsSteps
          BY DEF AnalyticsSteps
        <5>2. QED
          BY <3>4, <5>1, AnalyticsArgAt DEF IsFigure
      <4>3. arg[r].part \in Nat /\ arg[r].whole \in Nat
        BY <4>2 DEF AnalyticsArgs
      <4>4. /\ Cardinality(overwritten[r]) \in Nat /\ Cardinality(overwritten[r])' \in Nat
            /\ Cardinality(overwritten[r]) <= Cardinality(overwritten[r])'
        BY UnreadGrows
      <4>5. arg[r].part + Cardinality(overwritten[r]) >= arg[r].whole =>
               arg[r].part + Cardinality(overwritten[r])' >= arg[r].whole
        BY <4>3, <4>4
      <4>6. QED
        BY <3>2, <4>1, <4>5 DEF FigureIsSound
    <3>5. SoundSlot(pc[r], arg[r], answer[r], overwritten[r])'
      BY <3>1, <3>2, <3>3, <3>4 DEF SoundSlot, IsFigure
    <3>6. QED
      BY <2>2, <3>5 DEF FigureSlot
  <2>3. QED
    BY <2>1, <2>2
<1>4. QED
  BY <1>2, <1>3 DEF Figures

LEMMA EndFigures ==
    ASSUME IInv, Figures, Slots', HandlersEnd
    PROVE  Figures'
<1>1. Slots /\ CatalogOK
  BY TypedParts DEF IInv
<1>2. ASSUME NEW r \in Requests, Finish(r), pc[r] # "idle",
             UNCHANGED <<alone, catalogVars, ratingVars, shippingVars, analyticsVars>>
      PROVE  Figures'
  <2>1. Alone(r) /\ pc'[r] = "idle"
    BY <1>1, <1>2, AloneMoves DEF Finish, Slots
  <2>2. \A q \in Requests : FigureSlot(q)'
    <3> TAKE q \in Requests
    <3>1. CASE q = r
      BY <2>1, <3>1, IdleSlot
    <3>2. CASE q # r
      BY <1>2, <2>1, <3>2, FigureStays DEF Alone, Figures, analyticsVars
    <3>3. QED
      BY <3>1, <3>2
  <2>3. \A q \in Requests : q # r => pc'[q] = pc[q]
    BY <2>1 DEF Alone
  <2>4. Busy' \subseteq Busy
    BY <1>2, <2>1, <2>3 DEF Busy
  <2>5. Removing' = Removing
    BY <1>2 DEF Removing, catalogVars
  <2>6. OneAtATime'
    BY <1>2, <2>4, <2>5 DEF Figures, OneAtATime
  <2>7. QED
    BY <2>2, <2>6 DEF Figures
<1>3. ASSUME Die, Stalled
      PROVE  Figures'
  <2>1. \A r \in Requests : pc'[r] = "idle"
    BY <1>3 DEF Die
  <2>2. Busy' = {}
    BY <2>1 DEF Busy
  <2>3. \A j \in Jobs : job'[j].state # "active"
    <3> TAKE j \in Jobs
    <3>1. job[j] \in JobRows
      BY <1>1 DEF CatalogOK
    <3>2. job'[j] = IF job[j].state = "active" THEN [job[j] EXCEPT !.state = "delayed"] ELSE job[j]
      BY <1>3 DEF Stalled
    <3>3. QED
      BY <3>1, <3>2 DEF JobRows
  <2>4. Removing' = {}
    BY <2>3 DEF Removing
  <2>5. OneAtATime'
    BY <2>2, <2>4 DEF OneAtATime
  <2>6. QED
    BY <2>1, <2>5, IdleSlot DEF Figures
<1>4. QED
  BY <1>2, <1>3 DEF HandlersEnd, Answered, LogOperation, AnswerTwice, At

LEMMA FiguresNext ==
    ASSUME IInv, Figures, IInv', Next
    PROVE  Figures'
<1>1. Slots /\ CatalogOK /\ ShippingOK /\ AnalyticsOK
  BY TypedParts DEF IInv
<1>2. Slots' /\ AnalyticsOK'
  BY DEF IInv, TypeOK
<1>3. UNCHANGED analyticsVars => UNCHANGED salesVars /\ overwritten' = overwritten
  BY DEF analyticsVars
<1>4. \A r \in Requests : FigureSlot(r)
  BY DEF Figures
<1>5. CASE CatalogNext
  <2>1. UNCHANGED shippingVars /\ UNCHANGED salesVars /\ overwritten' = overwritten
    BY <1>3, <1>5 DEF CatalogNext
  <2>2. ASSUME NEW r \in Requests, CatalogArrive(r) \/ CatalogContinue(r), HandlerStep
        PROVE  Figures'
    <3>1. FigureSlot(r)'
      BY <1>1, <1>2, <2>2, CatalogArrives, CatalogStays, StrangeSlot
    <3>2. QED
      BY <1>1, <1>2, <2>1, <2>2, <3>1, CatalogAlone, OthersKept
  <2>3. ASSUME CatalogWorker, HandlerStep
        PROVE  Figures'
    <3>1. UNCHANGED requestVars
      BY <2>3 DEF CatalogWorker, RemovalFind, RemovalDestroy
    <3>2. (alone' => alone) /\ OneAtATime'
      BY <2>3, HandlerAlone
    <3>3. QED
      BY <1>4, <2>1, <3>1, <3>2, FigureStays DEF Figures, requestVars
  <2>4. ASSUME Tick, OutsideStep
        PROVE  Figures'
    <3>1. UNCHANGED requestVars /\ UNCHANGED job
      BY <2>4 DEF Tick
    <3>2. (alone' => alone) /\ OneAtATime'
      BY <2>4, <3>1, OutsideAlone DEF requestVars
    <3>3. QED
      BY <1>4, <2>1, <3>1, <3>2, FigureStays DEF Figures, requestVars
  <2>5. QED
    BY <1>5, <2>2, <2>3, <2>4 DEF CatalogNext
<1>6. CASE RatingsNext
  <2>1. UNCHANGED shippingVars /\ UNCHANGED salesVars /\ UNCHANGED job /\ overwritten' = overwritten
    BY <1>3, <1>6 DEF RatingsNext, catalogVars
  <2>2. ASSUME NEW r \in Requests, RatingsArrive(r) \/ RatingsContinue(r), HandlerStep
        PROVE  Figures'
    <3>1. FigureSlot(r)'
      BY <1>1, <1>2, <2>2, RatingsStay, StrangeSlot
    <3>2. QED
      BY <1>1, <1>2, <2>1, <2>2, <3>1, RatingsAlone, OthersKept
  <2>3. ASSUME RatingsOutside, OutsideStep
        PROVE  Figures'
    <3>1. UNCHANGED requestVars
      BY <2>3 DEF RatingsOutside, Gone, SendNotification
    <3>2. (alone' => alone) /\ OneAtATime'
      BY <2>1, <2>3, <3>1, OutsideAlone DEF requestVars
    <3>3. QED
      BY <1>4, <2>1, <3>1, <3>2, FigureStays DEF Figures, requestVars
  <2>4. QED
    BY <1>6, <2>2, <2>3 DEF RatingsNext
<1>7. CASE ShippingNext
  <2>1. UNCHANGED salesVars /\ overwritten' = overwritten
    BY <1>3, <1>7 DEF ShippingNext
  <2>2. PICK r \in Requests : (ShippingArrive(r) \/ ShippingContinue(r)) /\ HandlerStep
    BY <1>7 DEF ShippingNext
  <2>3. alone' => alone
    BY <2>2 DEF HandlerStep
  <2>4. FigureSlot(r)'
    BY <1>1, <1>2, <1>4, <2>2, <2>3, ShippingFigures
  <2>5. UNCHANGED shippingVars \/ pc[r] # "idle"
    <3>1. CASE ShippingArrive(r)
      BY <1>1, <3>1, ShippingArriveSlots
    <3>2. CASE ShippingContinue(r)
      <4>1. "idle" \notin ShippingSteps
        BY DEF ShippingSteps
      <4>2. QED
        BY <1>1, <3>2, <4>1, ShippingStays
    <3>3. QED
      BY <2>2, <3>1, <3>2
  <2>6. QED
    BY <1>1, <1>2, <2>1, <2>2, <2>4, <2>5, ShippingAlone, OthersKept
<1>8. CASE AnalyticsNext
  <2>1. UNCHANGED shippingVars /\ UNCHANGED catalogVars
    BY <1>8 DEF AnalyticsNext
  <2>2. ASSUME NEW r \in Requests, FiguresArrive(r) \/ DeletionsArrive(r) \/ AnalyticsContinue(r),
               HandlerStep
        PROVE  Figures'
    <3>1. UNCHANGED salesVars /\ \A q \in Requests \ {r} : overwritten'[q] = overwritten[q]
      <4>1. CASE FiguresArrive(r) \/ DeletionsArrive(r)
        BY <1>1, <1>3, <4>1, FiguresArriveSlots
      <4>2. CASE AnalyticsContinue(r)
        BY <1>1, <4>2, SalesKept DEF AnalyticsOK
      <4>3. QED
        BY <2>2, <4>1, <4>2
    <3>2. alone' => alone
      BY <2>2 DEF HandlerStep
    <3>3. FigureSlot(r)'
      BY <1>1, <1>2, <1>4, <2>2, <3>2, FiguresBegin, AnalyticsFigures
    <3>4. QED
      BY <1>1, <1>2, <2>1, <2>2, <3>1, <3>3, AnalyticsAlone, OthersKept
  <2>3. ASSUME AnalyticsOutside, OutsideStep
        PROVE  Figures'
    BY <1>1, <1>2, <2>1, <2>3, OutsideFigures
  <2>4. QED
    BY <1>8, <2>2, <2>3 DEF AnalyticsNext
<1>9. CASE HandlersEnd
  BY <1>2, <1>9, EndFigures
<1>10. QED
  BY <1>5, <1>6, <1>7, <1>8, <1>9 DEF Next

(* Notifications that were deleted stay so while nothing else happens.      *)
LEMMA NoticesStay ==
    ASSUME NoticesGone, alone' => alone, notice' = notice, NEW q \in Requests,
           arg'[q] = arg[q], answer'[q] = answer[q], alone', AllDeleted(arg'[q], answer'[q])
    PROVE  NoticesOf(arg[q].user)' = {}
<1>1. NoticesOf(arg[q].user) = {}
  BY DEF NoticesGone
<1>2. NoticesOf(arg[q].user)' = NoticesOf(arg[q].user)
  BY DEF NoticesOf
<1>3. QED
  BY <1>1, <1>2

(* A handler of another component deletes no notifications.                *)
LEMMA NoticesOfOthers ==
    ASSUME NoticesGone, Slots', NEW r \in Requests, Alone(r), alone' => alone, notice' = notice,
           pc'[r] \notin EndSteps \/ arg'[r] \notin RatingArgs
    PROVE  NoticesGone'
<1> SUFFICES ASSUME alone', NEW q \in Requests, AllDeleted(arg'[q], answer'[q])
             PROVE  NoticesOf(arg[q].user)' = {}
  BY DEF NoticesGone, AllDeleted
<1>1. CASE q = r
  <2>1. answer'[r] # 0 /\ arg'[r] \in RatingArgs
    BY <1>1 DEF AllDeleted, Deleted
  <2>2. pc'[r] \in EndSteps
    BY <2>1, EndSlotThen
  <2>3. QED
    BY <2>1, <2>2
<1>2. CASE q # r
  BY <1>2, NoticesStay DEF Alone
<1>3. QED
  BY <1>1, <1>2

LEMMA RatingsNotices ==
    ASSUME Slots, Slots', OneAtATime', NoticesGone, NEW r \in Requests, Alone(r), alone' => alone,
           RatingsArrive(r) \/ RatingsContinue(r)
    PROVE  NoticesGone'
<1> SUFFICES ASSUME alone', NEW q \in Requests, AllDeleted(arg'[q], answer'[q])
             PROVE  NoticesOf(arg[q].user)' = {}
  BY DEF NoticesGone, AllDeleted
<1>1. /\ arg'[q] \in RatingArgs /\ arg'[q].which = "all"
      /\ answer'[q] = Deleted /\ answer'[q] # 0
  BY DEF AllDeleted, Deleted
<1>2. pc'[q] \in EndSteps
  BY <1>1, EndSlotThen
<1>3. q = r
  <2>1. pc'[r] # "idle" /\ pc'[q] # "idle"
    BY <1>2, RatingsStay DEF RatingSteps, EndSteps
  <2>2. QED
    BY <2>1 DEF OneAtATime, Busy
<1>4. RatingSteps \cap EndSteps = {}
  BY DEF RatingSteps, EndSteps
<1>5. RatingsContinue(r) /\ arg'[r] = arg[r] /\ pc[r] \in RatingSteps
  BY <1>2, <1>3, <1>4, RatingsStay
<1>6. RatingSlot(pc[r], arg[r], r \in wrote)
  BY <1>5, SlotAt
<1>7. pc[r] = "notice.all"
  BY <1>1, <1>3, <1>5, <1>6 DEF RatingSlot
<1>8. NoticeAll(r)
  BY <1>5, <1>7
  DEF RatingsContinue, RateFind, RateCreate, ListFind, ListAnswer, UpdateOwn, DeleteOwn, DeleteAny,
      NoticeNone, MarkFind, MarkSave, RemoveNotification, At
<1>9. PICK code \in {Found, Deleted} :
         /\ notice' = [n \in Notices |->
               IF n \notin NoticesOf(arg[r].user) THEN notice[n]
               ELSE IF code = Deleted THEN DeletedNotice
               ELSE [notice[n] EXCEPT !.read = TRUE]]
         /\ IF NoticesOf(arg[r].user) = {} THEN Answer(r, code) ELSE WriteAnswer(r, code)
  BY <1>8 DEF NoticeAll
<1>10. code = Deleted
  <2>1. answer'[r] = code
    BY <1>9 DEF Answer, WriteAnswer, Respond, Slots
  <2>2. QED
    BY <1>1, <1>3, <2>1
<1>11. arg[r].user \in Authors
  BY <1>6 DEF RatingSlot, RatingArgs
<1>12. \A n \in Notices : notice'[n].user # arg[r].user
  <2> TAKE n \in Notices
  <2>1. CASE n \in NoticesOf(arg[r].user)
    BY <1>9, <1>10, <1>11, <2>1, RatingsAssumption DEF DeletedNotice
  <2>2. CASE n \notin NoticesOf(arg[r].user)
    BY <1>9, <2>2 DEF NoticesOf
  <2>3. QED
    BY <2>1, <2>2
<1>13. QED
  BY <1>3, <1>5, <1>12 DEF NoticesOf

LEMMA NoticesNext ==
    ASSUME IInv, FiguresInv, IInv', OneAtATime', Next
    PROVE  NoticesGone'
<1>1. Slots /\ Slots' /\ NoticesGone
  BY DEF IInv, FiguresInv
<1>2. UNCHANGED ratingVars => notice' = notice
  BY DEF ratingVars
<1>3. HandlerStep \/ OutsideStep => (alone' => alone)
  BY DEF HandlerStep, OutsideStep
<1>4. ASSUME UNCHANGED requestVars, notice' = notice, alone' => alone
      PROVE  NoticesGone'
  BY <1>1, <1>4, NoticesStay DEF NoticesGone, requestVars
<1>5. CASE CatalogNext
  <2>1. notice' = notice
    BY <1>2, <1>5 DEF CatalogNext
  <2>2. ASSUME NEW r \in Requests, CatalogArrive(r) \/ CatalogContinue(r), HandlerStep
        PROVE  NoticesGone'
    <3>1. CatalogSteps \cap EndSteps = {}
      BY DEF CatalogSteps, EndSteps
    <3>2. pc'[r] \notin EndSteps \/ arg'[r] \notin RatingArgs
      <4>1. pc[r] \in CatalogSteps => arg[r] \in CatalogArgs
        BY <1>1, SlotAt DEF CatalogSlot
      <4>2. QED
        BY <1>1, <2>2, <3>1, <4>1, CatalogArrives, CatalogStays, ArgsDiffer
    <3>3. QED
      BY <1>1, <1>3, <2>1, <2>2, <3>2, CatalogAlone, NoticesOfOthers
  <2>3. ASSUME CatalogWorker, HandlerStep
        PROVE  NoticesGone'
    BY <1>3, <1>4, <2>1, <2>3 DEF CatalogWorker, RemovalFind, RemovalDestroy
  <2>4. ASSUME Tick, OutsideStep
        PROVE  NoticesGone'
    BY <1>3, <1>4, <2>1, <2>4 DEF Tick
  <2>5. QED
    BY <1>5, <2>2, <2>3, <2>4 DEF CatalogNext
<1>6. CASE RatingsNext
  <2>1. ASSUME NEW r \in Requests, RatingsArrive(r) \/ RatingsContinue(r), HandlerStep
        PROVE  NoticesGone'
    BY <1>1, <1>3, <2>1, RatingsAlone, RatingsNotices
  <2>2. ASSUME RatingsOutside, OutsideStep
        PROVE  NoticesGone'
    <3>1. UNCHANGED requestVars
      BY <2>2 DEF RatingsOutside, Gone, SendNotification
    <3>2. UNCHANGED job
      BY <1>6 DEF RatingsNext, catalogVars
    <3>3. alone' => \A q \in Requests : pc'[q] = "idle"
      BY <2>2, <3>1, <3>2, OutsideAlone DEF requestVars
    <3>4. QED
      BY <1>1, <3>3, SlotThen DEF NoticesGone, AllDeleted, Deleted
  <2>3. QED
    BY <1>6, <2>1, <2>2 DEF RatingsNext
<1>7. CASE ShippingNext
  <2>1. notice' = notice
    BY <1>2, <1>7 DEF ShippingNext
  <2>2. PICK r \in Requests : (ShippingArrive(r) \/ ShippingContinue(r)) /\ HandlerStep
    BY <1>7 DEF ShippingNext
  <2>3. ShippingSteps \cap EndSteps = {}
    BY DEF ShippingSteps, EndSteps
  <2>4. pc'[r] \notin EndSteps \/ arg'[r] \notin RatingArgs
    <3>1. CASE ShippingArrive(r)
      BY <1>1, <2>3, <3>1, ShippingArrives
    <3>2. CASE ShippingContinue(r)
      <4>1. arg[r] \in ShippingArgs
        BY <1>1, <3>2, ShippingStays, ShippingArgAt
      <4>2. arg'[r] = arg[r] \/ "which" \notin DOMAIN arg'[r]
        BY <1>1, <3>2, ShippingStays, CostMoves
      <4>3. QED
        BY <4>1, <4>2, ArgsDiffer
    <3>3. QED
      BY <2>2, <3>1, <3>2
  <2>5. QED
    BY <1>1, <1>3, <2>1, <2>2, <2>4, ShippingAlone, NoticesOfOthers
<1>8. CASE AnalyticsNext
  <2>1. notice' = notice
    BY <1>2, <1>8 DEF AnalyticsNext
  <2>2. ASSUME NEW r \in Requests, FiguresArrive(r) \/ DeletionsArrive(r) \/ AnalyticsContinue(r),
               HandlerStep
        PROVE  NoticesGone'
    <3>1. CASE FiguresArrive(r) \/ DeletionsArrive(r)
      <4>1. pc'[r] \in AnalyticsSteps
        BY <1>1, <3>1, FiguresBegin
      <4>2. AnalyticsSteps \cap EndSteps = {}
        BY DEF AnalyticsSteps, EndSteps
      <4>3. QED
        BY <1>1, <1>3, <2>1, <2>2, <4>1, <4>2, AnalyticsAlone, NoticesOfOthers
    <3>2. CASE AnalyticsContinue(r)
      <4>1. arg'[r] \notin RatingArgs
        BY <1>1, <3>2, AnalyticsQuotes, ArgsDiffer DEF NoQuote
      <4>2. QED
        BY <1>1, <1>3, <2>1, <2>2, <4>1, AnalyticsAlone, NoticesOfOthers
    <3>3. QED
      BY <2>2, <3>1, <3>2
  <2>3. ASSUME AnalyticsOutside, OutsideStep
        PROVE  NoticesGone'
    BY <1>3, <1>4, <2>1, <2>3
    DEF AnalyticsOutside, OrderPlaced, OrderMoved, OrderRefunded, OrderOverwritten, CustomerDeleted,
        ItemChanged, FileDone
  <2>4. QED
    BY <1>8, <2>2, <2>3 DEF AnalyticsNext
<1>9. CASE HandlersEnd
  <2>1. notice' = notice /\ alone' = alone
    BY <1>2, <1>9 DEF HandlersEnd, ratingVars
  <2>2. ASSUME NEW r \in Requests, Finish(r)
        PROVE  NoticesGone'
    <3>1. Alone(r) /\ pc'[r] = "idle"
      BY <1>1, <2>2, AloneMoves DEF Finish, Slots
    <3>2. "idle" \notin EndSteps
      BY DEF EndSteps
    <3>3. QED
      BY <1>1, <2>1, <3>1, <3>2, NoticesOfOthers
  <2>3. ASSUME Die
        PROVE  NoticesGone'
    BY <2>3 DEF Die, NoticesGone, AllDeleted, Deleted
  <2>4. QED
    BY <1>9, <2>2, <2>3 DEF HandlersEnd, Answered, LogOperation, AnswerTwice
<1>10. QED
  BY <1>5, <1>6, <1>7, <1>8, <1>9 DEF Next

LEMMA FiguresInitially == Init => FiguresInv
<1> SUFFICES ASSUME Init PROVE FiguresInv
  OBVIOUS
<1>1. \A r \in Requests : pc[r] = "idle" /\ answer[r] = 0
  BY DEF Init, RequestsInit
<1>2. Busy = {}
  BY <1>1 DEF Busy
<1>3. Removing = {}
  BY DEF Init, CatalogInit, Removing, NoJob
<1>4. OneAtATime
  BY <1>2, <1>3 DEF OneAtATime
<1>5. \A r \in Requests : FigureSlot(r)
  BY <1>1, Codes
  DEF FigureSlot, SoundSlot, ExactSlot, CostSlot, IsFigure, ShippingSteps
<1>6. NoticesGone
  BY <1>1 DEF NoticesGone, AllDeleted, Deleted
<1>7. QED
  BY <1>4, <1>5, <1>6 DEF FiguresInv

LEMMA FiguresStep == IInv /\ IInv' /\ FiguresInv /\ [Next]_vars => FiguresInv'
<1> SUFFICES ASSUME IInv, IInv', FiguresInv, [Next]_vars PROVE FiguresInv'
  OBVIOUS
<1>1. CASE Next
  <2>1. Figures
    BY DEF Figures, FiguresInv
  <2>2. Figures'
    BY <1>1, <2>1, FiguresNext
  <2>3. NoticesGone'
    BY <1>1, <2>2, NoticesNext DEF Figures
  <2>4. QED
    BY <2>2, <2>3 DEF Figures, FiguresInv
<1>2. CASE UNCHANGED vars
  <2>1. /\ UNCHANGED requestVars /\ UNCHANGED alone /\ UNCHANGED salesVars /\ UNCHANGED shippingVars
        /\ UNCHANGED job /\ UNCHANGED overwritten /\ UNCHANGED notice
    BY <1>2 DEF vars, analyticsVars, catalogVars, ratingVars
  <2>2. \A r \in Requests : FigureSlot(r)'
    BY <2>1, FigureStays DEF FiguresInv, requestVars
  <2>3. Busy' = Busy /\ Removing' = Removing
    BY <2>1 DEF Busy, Removing, requestVars
  <2>4. OneAtATime'
    BY <2>1, <2>3 DEF FiguresInv, OneAtATime
  <2>5. NoticesGone'
    BY <2>1, NoticesStay DEF FiguresInv, NoticesGone, requestVars
  <2>6. QED
    BY <2>2, <2>4, <2>5 DEF FiguresInv
<1>3. QED
  BY <1>1, <1>2

(* What a report or a figure has read so far is sound, and exact while its *)
(* handler is alone; and so are the costs of shipping, and the deletions   *)
(* of notifications.                                                       *)
THEOREM FiguresInvariance == Spec => []FiguresInv
<1>1. Init => FiguresInv
  BY FiguresInitially
<1>2. IInv /\ IInv' /\ FiguresInv /\ [Next]_vars => FiguresInv'
  BY FiguresStep
<1>3. QED
  BY <1>1, <1>2, Invariance, PTL DEF Spec

(* A refusal has changed nothing, and what is answered as created or       *)
(* deleted was: the controllers answer after the call that writes, and     *)
(* services throw before they write.  Two answers are not about that:      *)
(* reports of a type that the handler does not know, and requests to       *)
(* delete notifications that name none or find none.  Who was alone when   *)
(* he had all of his notifications deleted has none left.                  *)
THEOREM AnswersTrue == Spec => []AnswersAreTrue
<1>1. Slots /\ NoticesGone => AnswersAreTrue
  <2>1. 0 \notin Refusals \cup {Created, Deleted}
    BY DEF Refusals, BadRequest, NotFound, Created, Deleted
  <2>2. QED
    BY <2>1 DEF Slots, Slot, EndedSlot, AnswersAreTrue, NoticesGone
<1>2. IInv /\ FiguresInv => AnswersAreTrue
  BY <1>1 DEF IInv, FiguresInv
<1>3. QED
  BY <1>2, Invariance, FiguresInvariance, PTL

(* However orders move on while it is read, the sales report of            *)
(* generateSalesReport misses no order that it has counted, but those      *)
(* whose status is overwritten meanwhile; and figures that are read while  *)
(* nothing else happens are the tables' own, but for the revenue of the    *)
(* categories that are not on the page it reads.                           *)
THEOREM FiguresSound == Spec => []FiguresAreSound
<1>1. FiguresInv => FiguresAreSound
  BY DEF FiguresInv, FiguresAreSound, FigureSlot, SoundSlot, ExactSlot, CostSlot, IsFigure
<1>2. QED
  BY <1>1, FiguresInvariance, PTL

-----------------------------------------------------------------------------
(* The catalogue, while handlers run one at a time.                        *)
LEMMA TidyKept ==
    ASSUME NEW r \in Requests, UNCHANGED catalogVars, NEW s, NEW a, pc'[r] = s, arg'[r] = a, Tidy(s, a)
    PROVE  Tidy(pc[r], arg[r])'
<1>1. /\ category' = category /\ product' = product /\ job' = job /\ entry' = entry /\ early' = early
      /\ viewings' = viewings /\ renamed' = renamed
  BY DEF catalogVars
<1>2. KnowsJob(pc[r], arg[r])'
  BY <1>1 DEF Tidy, KnowsJob, IsDue, HasJob, HasNone, LiveProduct
<1>3. KnowsRows(pc[r], arg[r])'
  BY <1>1 DEF Tidy, KnowsRows, LiveProduct, LiveCategory
<1>4. RowsInOrder'
  BY <1>1 DEF Tidy, RowsInOrder, ProductsAreFound, ViewsCount, LiveProduct, LiveCategory
<1>5. \A x, y : Settled(x, y) => Settled(x, y)'
  BY <1>1 DEF Settled, HasJob, HasNone, IsDue, LiveProduct
<1>6. Settled(IF s \in HasInHand THEN {a.product} ELSE {}, IF s \in HandlesJob THEN {a.job} ELSE {})'
  BY <1>5 DEF Tidy
<1>7. QED
  BY <1>2, <1>3, <1>4, <1>6 DEF Tidy

(* Where a handler has nothing in hand, and where it knows nothing.        *)
Blind == {"addCategory.insert", "add.category", "add.names", "add.create", "add.job", "add.record",
          "view.save"}

LEMMA TidyBlind ==
    ASSUME NEW s, s \notin Blind, NEW a, NEW t, t \notin Blind, NEW b, Tidy(s, a)
    PROVE  Tidy(t, b)
<1>1. KnowsJob(t, b)
  BY DEF KnowsJob, Blind
<1>2. KnowsRows(t, b)
  BY DEF KnowsRows, Blind
<1>3. {s, t} \cap (HasInHand \cup HandlesJob) = {}
  BY DEF Blind, HasInHand, HandlesJob
<1>4. QED
  BY <1>1, <1>2, <1>3 DEF Tidy

(* The handler that takes a step is the only one.                          *)
LEMMA TidyBefore ==
    ASSUME TidyInv, Slots, OneAtATime, OneAtATime', NEW r \in Requests, Alone(r), alone, alone',
           deaths = 0, pc'[r] # "idle", UNCHANGED job \/ pc[r] # "idle"
    PROVE  Tidy(pc[r], arg[r]) /\ Removing = {} /\ Busy' = {r} /\ Removing' = {}
<1>1. r \in Busy'
  BY DEF Busy
<1>2. Busy' = {r} /\ Removing' = {}
  BY <1>1 DEF OneAtATime
<1>3. \A q \in Requests \ {r} : pc[q] = "idle"
  BY <1>2 DEF Busy, Alone
<1>4. CASE pc[r] # "idle"
  <2>1. r \in Busy
    BY <1>4 DEF Busy
  <2>2. QED
    BY <1>2, <2>1 DEF OneAtATime, TidyInv
<1>5. CASE pc[r] = "idle"
  <2>1. Busy = {}
    BY <1>3, <1>5 DEF Busy
  <2>2. Removing = {}
    BY <1>2, <1>5 DEF Removing
  <2>3. Tidy("idle", None)
    BY <2>1, <2>2 DEF TidyInv
  <2>4. arg[r] = None
    BY <1>5, StepsDiffer
    DEF Slots, Slot, EndedSlot, CatalogSlot, RatingSlot, ShippingSlot, AnalyticsSlot, AllSteps
  <2>5. QED
    BY <1>2, <1>5, <2>2, <2>3, <2>4
<1>6. QED
  BY <1>4, <1>5

LEMMA TidyAfter ==
    ASSUME NEW r \in Requests, Busy' = {r}, Removing' = {}, Tidy(pc[r], arg[r])'
    PROVE  TidyInv'
  BY DEF TidyInv

(* A handler that is not of the catalogue, or does not yet know anything,  *)
(* leaves the catalogue as it is.                                          *)
LEMMA TidyOthers ==
    ASSUME TidyInv, Slots, OneAtATime, OneAtATime', NEW r \in Requests, Alone(r), alone' => alone,
           pc[r] \notin Blind, pc'[r] \notin Blind, pc'[r] # "idle", UNCHANGED catalogVars
    PROVE  TidyInv'
<1>1. CASE alone' /\ deaths' = 0
  <2>1. deaths = 0 /\ UNCHANGED job
    BY <1>1 DEF Alone, catalogVars
  <2>2. Tidy(pc[r], arg[r]) /\ Busy' = {r} /\ Removing' = {}
    BY <1>1, <2>1, TidyBefore
  <2>3. \A b : Tidy(pc'[r], b)
    BY <2>2, TidyBlind
  <2>4. Tidy(pc[r], arg[r])'
    BY <2>3, TidyKept
  <2>5. QED
    BY <2>2, <2>4, TidyAfter
<1>2. CASE ~(alone' /\ deaths' = 0)
  BY <1>2 DEF TidyInv
<1>3. QED
  BY <1>1, <1>2

LEMMA TidyLearns ==
    ASSUME NEW s, s \notin HasInHand, NEW a, Tidy(s, a),
           NEW t, t \notin HandlesJob, NEW b, KnowsJob(t, b), KnowsRows(t, b)
    PROVE  Tidy(t, b)
<1>1. HandlesJob \subseteq HasInHand
  BY DEF HandlesJob, HasInHand
<1>2. Settled({}, {})
  BY <1>1 DEF Tidy
<1>3. \A x : Settled(x, {})
  BY <1>2 DEF Settled
<1>4. QED
  BY <1>3 DEF Tidy

LEMMA TidyArrives ==
    ASSUME Slots, NEW r \in Requests, CatalogArrive(r), Tidy(pc[r], arg[r])
    PROVE  Tidy(pc[r], arg[r])'
<1>1. UNCHANGED catalogVars /\ pc[r] = "idle"
  BY CatalogArriveSlots, CatalogArrives
<1>2. "idle" \notin Blind /\ "idle" \notin HasInHand
  BY DEF Blind, HasInHand
<1>3. ASSUME NEW s, s \notin Blind, NEW a, Begin(r, a, s)
      PROVE  Tidy(pc[r], arg[r])'
  <2>1. pc'[r] = s /\ arg'[r] = a
    BY <1>3, StayMoves
  <2>2. Tidy(s, a)
    BY <1>1, <1>2, <1>3, TidyBlind
  <2>3. QED
    BY <1>1, <2>1, <2>2, TidyKept
<1>4. ASSUME NEW s, NEW a, Begin(r, a, s),
             s = "add.category", a.category \in Categories
      PROVE  Tidy(pc[r], arg[r])'
  <2>1. pc'[r] = s /\ arg'[r] = a
    BY <1>4, StayMoves
  <2>2. KnowsJob(s, a) /\ KnowsRows(s, a)
    BY <1>4 DEF KnowsJob, KnowsRows
  <2>3. Tidy(s, a)
    BY <1>1, <1>2, <1>4, <2>2, TidyLearns DEF HandlesJob
  <2>4. QED
    BY <1>1, <2>1, <2>3, TidyKept
<1>5. {"addCategory.find", "deleteCategory.find", "updateCategory.find", "view.find", "delete.find",
       "discount.find", "update.find"} \cap Blind = {}
  BY DEF Blind
<1> DEFINE Good == Tidy(pc[r], arg[r])'
<1> SUFFICES Good
  OBVIOUS
<1>6. /\ \A a, s : s \notin Blind /\ Begin(r, a, s) => Good
      /\ \A a : a.category \in Categories /\ Begin(r, a, "add.category") => Good
  BY <1>3, <1>4
<1> HIDE DEF Good
<1>7. ASSUME NEW n \in Names, AddCategory(r, n)
      PROVE  Good
  BY <1>5, <1>6, <1>7 DEF AddCategory
<1>8. ASSUME NEW c \in Categories, NEW n, DeleteCategory(r, c) \/ UpdateCategory(r, c, n)
      PROVE  Good
  BY <1>5, <1>6, <1>8 DEF DeleteCategory, UpdateCategory
<1>9. ASSUME NEW c \in Categories, NEW n, NEW due, NEW x, AddProduct(r, c, n, due, x)
      PROVE  Good
  <2> DEFINE a == [NoDetails EXCEPT !.category = c, !.name = n, !.due = due, !.promote = x]
  <2>1. a.category = c
    BY DEF NoDetails
  <2>2. Begin(r, a, "add.category")
    BY <1>9 DEF AddProduct
  <2> HIDE DEF a
  <2>3. QED
    BY <1>6, <2>1, <2>2
<1>10. ASSUME NEW p, NEW x, View(r, p) \/ DeleteProduct(r, p) \/ Discount(r, p, x)
       PROVE  Good
  BY <1>5, <1>6, <1>10 DEF View, DeleteProduct, Discount
<1>11. ASSUME NEW p, NEW n, UpdateProduct(r, p, n)
       PROVE  Good
  BY <1>5, <1>6, <1>11 DEF UpdateProduct
<1>12. QED
  BY <1>7, <1>8, <1>9, <1>10, <1>11 DEF CatalogArrive

LEMMA TidyLooks ==
    ASSUME Slots, CatalogOK, NEW r \in Requests, Tidy(pc[r], arg[r]),
           \/ AddCategoryFind(r) \/ AddProductCategory(r) \/ AddProductNames(r)
           \/ PromoCount(r) \/ PromoMembers(r) \/ ViewFind(r)
           \/ UpdateCategoryFind(r) \/ DiscountFind(r) \/ DiscountSave(r)
           \/ DeleteCategoryFind(r) \/ DeleteProductFind(r) \/ UpdateFind(r)
    PROVE  Tidy(pc[r], arg[r])'
<1>1. UNCHANGED catalogVars
  BY DEF AddCategoryFind, AddProductCategory, AddProductNames, PromoCount, PromoMembers, ViewFind,
     UpdateCategoryFind, DiscountFind, DiscountSave, DeleteCategoryFind, DeleteProductFind,
     UpdateFind
<1>2. pc[r] \in CatalogSteps /\ pc[r] \notin HasInHand
  BY DEF AddCategoryFind, AddProductCategory, AddProductNames, PromoCount, PromoMembers, ViewFind,
     UpdateCategoryFind, DiscountFind, DiscountSave, DeleteCategoryFind, DeleteProductFind,
     UpdateFind, At, CatalogSteps, HasInHand
<1>3. arg[r] \in CatalogArgs
  BY <1>2, CatalogArgAt
<1>4. \A s : s \notin Blind => \A a : KnowsJob(s, a) /\ KnowsRows(s, a) /\ s \notin HandlesJob
  BY DEF Blind, KnowsJob, KnowsRows, HandlesJob
<1>5. ASSUME NEW s, s \notin HandlesJob, NEW a, KnowsJob(s, a), KnowsRows(s, a),
             pc'[r] = s, arg'[r] = a
      PROVE  Tidy(pc[r], arg[r])'
  <2>1. Tidy(s, a)
    BY <1>2, <1>5, TidyLearns
  <2>2. QED
    BY <1>1, <1>5, <2>1, TidyKept
<1>6. pc'[r] \notin Blind => Tidy(pc[r], arg[r])'
  BY <1>4, <1>5
<1>7. \A s \in EndSteps : s \notin Blind
  BY DEF EndSteps, Blind
<1>8. CASE AddCategoryFind(r)
  <2>1. CASE Answer(r, BadRequest)
    BY <1>6, <1>7, <2>1, StayMoves
  <2>2. CASE /\ \A c \in Categories : LiveCategory(c) => category[c].name # arg[r].name
             /\ Goto(r, "addCategory.insert")
    <3>1. KnowsJob("addCategory.insert", arg[r]) /\ KnowsRows("addCategory.insert", arg[r])
      BY <2>2 DEF KnowsJob, KnowsRows
    <3>2. QED
      BY <1>5, <2>2, <3>1, StayMoves DEF HandlesJob
  <2>3. QED
    BY <1>8, <2>1, <2>2 DEF AddCategoryFind
<1>9. CASE AddProductCategory(r)
  <2>1. CASE Answer(r, NotFound)
    BY <1>6, <1>7, <2>1, StayMoves
  <2>2. CASE LiveCategory(arg[r].category) /\ Goto(r, "add.names")
    <3>1. arg[r].category \in Categories
      BY <1>9 DEF AddProductCategory, At, Tidy, KnowsRows
    <3>2. KnowsJob("add.names", arg[r]) /\ KnowsRows("add.names", arg[r])
      BY <2>2, <3>1 DEF KnowsJob, KnowsRows
    <3>3. QED
      BY <1>5, <2>2, <3>2, StayMoves DEF HandlesJob
  <2>3. QED
    BY <1>9, <2>1, <2>2 DEF AddProductCategory
<1>10. CASE AddProductNames(r)
  <2>1. CASE Answer(r, BadRequest)
    BY <1>6, <1>7, <2>1, StayMoves
  <2>2. CASE /\ \A p \in Products : LiveProduct(p) => product[p].name # arg[r].name
             /\ Goto(r, "add.create")
    <3>1. arg[r].category \in Categories /\ LiveCategory(arg[r].category)
      BY <1>10 DEF AddProductNames, At, Tidy, KnowsRows
    <3>2. KnowsJob("add.create", arg[r]) /\ KnowsRows("add.create", arg[r])
      BY <2>2, <3>1 DEF KnowsJob, KnowsRows
    <3>3. QED
      BY <1>5, <2>2, <3>2, StayMoves DEF HandlesJob
  <2>3. QED
    BY <1>10, <2>1, <2>2 DEF AddProductNames
<1>11. CASE ViewFind(r)
  <2> DEFINE p == arg[r].product
             a == [arg[r] EXCEPT !.views = product[p].views]
  <2>1. Learn(r, a, "view.save") \/ Answer(r, NotFound)
    BY <1>11 DEF ViewFind
  <2>2. a.views = product[a.product].views
    BY <1>3 DEF CatalogArgs
  <2> HIDE DEF a
  <2>3. KnowsJob("view.save", a) /\ KnowsRows("view.save", a)
    BY <2>2 DEF KnowsJob, KnowsRows
  <2>4. QED
    BY <1>5, <1>6, <1>7, <2>1, <2>3, StayMoves DEF HandlesJob
<1>12. CASE \/ PromoCount(r) \/ PromoMembers(r)
            \/ UpdateCategoryFind(r) \/ DiscountFind(r) \/ DiscountSave(r)
            \/ DeleteCategoryFind(r) \/ DeleteProductFind(r) \/ UpdateFind(r)
  <2>1. {"promo.members", "updateCategory.save", "discount.save", "promo.sadd",
         "deleteCategory.destroy", "delete.destroy", "update.save"} \cap Blind = {}
    BY DEF Blind
  <2>2. QED
    BY <1>6, <1>7, <1>12, <2>1, StayMoves
    DEF PromoCount, PromoMembers, UpdateCategoryFind, DiscountFind, DiscountSave, DeleteCategoryFind,
        DeleteProductFind, UpdateFind
<1>13. QED
  BY <1>8, <1>9, <1>10, <1>11, <1>12

(* A product with an entry has a job, and one without an entry has none.   *)
LEMMA EntryMeans ==
    ASSUME NEW p \in Products, HasJob(p) \/ HasNone(p)
    PROVE  /\ entry[p] # None => HasJob(p)
           /\ entry[p] \in Jobs => HasJob(p)
           /\ entry[p] = None => HasNone(p)
           /\ product[p].due # NoMoment => HasJob(p)
  BY CatalogAssumption DEF HasJob, HasNone

(* What a handler knows after a step that writes.                          *)
LEMMA TidyThere ==
    ASSUME NEW r \in Requests, NEW s, NEW a, pc'[r] = s, arg'[r] = a, NEW x, NEW y,
           s \in HasInHand => x = {a.product}, s \notin HasInHand => x = {},
           s \in HandlesJob => y = {a.job}, s \notin HandlesJob => y = {},
           Settled(x, y)', KnowsJob(s, a)', KnowsRows(s, a)', RowsInOrder'
    PROVE  Tidy(pc[r], arg[r])'
<1>1. KnowsJob(pc[r], arg[r])'
  BY DEF KnowsJob, IsDue, HasJob, HasNone, LiveProduct
<1>2. KnowsRows(pc[r], arg[r])'
  BY DEF KnowsRows, LiveProduct, LiveCategory
<1>3. /\ x = IF s \in HasInHand THEN {a.product} ELSE {}
      /\ y = IF s \in HandlesJob THEN {a.job} ELSE {}
  OBVIOUS
<1>4. Settled(IF s \in HasInHand THEN {a.product} ELSE {}, IF s \in HandlesJob THEN {a.job} ELSE {})'
  BY <1>3 DEF Settled
<1>5. QED
  BY <1>1, <1>2, <1>4 DEF Tidy

LEMMA TidyEnds ==
    ASSUME NEW r \in Requests, pc'[r] \notin Blind, Settled({}, {})', RowsInOrder'
    PROVE  Tidy(pc[r], arg[r])'
<1>1. PICK s, a : s = pc'[r] /\ a = arg'[r]
  OBVIOUS
<1>2. s \notin HasInHand /\ s \notin HandlesJob
  BY <1>1 DEF Blind, HasInHand, HandlesJob
<1>3. KnowsJob(s, a)'
  BY <1>1 DEF KnowsJob, Blind
<1>4. KnowsRows(s, a)'
  BY <1>1 DEF KnowsRows, Blind
<1>5. QED
  BY <1>1, <1>2, <1>3, <1>4, TidyThere

LEMMA RowsKept ==
    ASSUME RowsInOrder, UNCHANGED <<category, product, viewings, renamed>>
    PROVE  RowsInOrder'
  BY DEF RowsInOrder, ProductsAreFound, ViewsCount, LiveProduct, LiveCategory

LEMMA TidySettled ==
    ASSUME NEW s, NEW a, Tidy(s, a)
    PROVE  /\ s \notin HasInHand => Settled({}, {})
           /\ s \in HasInHand \ HandlesJob => Settled({a.product}, {})
           /\ s \in HandlesJob => Settled({a.product}, {a.job})
           /\ RowsInOrder /\ KnowsJob(s, a) /\ KnowsRows(s, a)
<1>1. HandlesJob \subseteq HasInHand
  BY DEF HandlesJob, HasInHand
<1>2. QED
  BY <1>1 DEF Tidy

LEMMA TidyCreate ==
    ASSUME Slots, CatalogOK, JobsAreOfProducts, NEW r \in Requests, Tidy(pc[r], arg[r]),
           AddProductCreate(r)
    PROVE  Tidy(pc[r], arg[r])'
<1>1. PICK b : b = arg[r]
  OBVIOUS
<1>2. pc[r] = "add.create" /\ pc[r] \in CatalogSteps
  BY DEF AddProductCreate, At, CatalogSteps
<1>3. b \in CatalogArgs
  BY <1>1, <1>2, CatalogArgAt
<1>4. Tidy("add.create", b) /\ "add.create" \notin HasInHand
  BY <1>1, <1>2 DEF HasInHand
<1>5. Settled({}, {}) /\ RowsInOrder /\ KnowsRows("add.create", b)
  BY <1>4, TidySettled
<1>6. /\ b.category \in Categories /\ LiveCategory(b.category)
      /\ \A q \in Products : LiveProduct(q) => product[q].name # b.name
  BY <1>5 DEF KnowsRows
<1>7. PICK p \in Products :
         /\ product[p] = NoProduct
         /\ product' = [product EXCEPT ![p] =
               [NoProduct EXCEPT !.state = "live", !.name = b.name,
                                 !.category = b.category, !.due = b.due]]
         /\ \/ b.due # NoMoment /\ WriteLearn(r, [b EXCEPT !.product = p], "add.job")
            \/ b.due = NoMoment /\ WriteLearn(r, [b EXCEPT !.product = p], "promo.sadd")
            \/ b.due = NoMoment /\ WriteAnswerLog(r, Created)
  <2>1. PICK p \in Products :
         LET a == [b EXCEPT !.product = p] IN
         /\ product[p] = NoProduct
         /\ product' = [product EXCEPT ![p] =
               [NoProduct EXCEPT !.state = "live", !.name = a.name,
                                 !.category = a.category, !.due = a.due]]
         /\ \/ a.due # NoMoment /\ WriteLearn(r, a, "add.job")
            \/ a.due = NoMoment /\ a.promote /\ WriteLearn(r, a, "promo.sadd")
            \/ a.due = NoMoment /\ ~a.promote /\ WriteAnswerLog(r, Created)
    BY <1>1 DEF AddProductCreate
  <2> DEFINE a == [b EXCEPT !.product = p]
  <2>2. a.name = b.name /\ a.category = b.category /\ a.due = b.due
    BY <1>3 DEF CatalogArgs
  <2>3. /\ product[p] = NoProduct
        /\ product' = [product EXCEPT ![p] =
              [NoProduct EXCEPT !.state = "live", !.name = a.name,
                                !.category = a.category, !.due = a.due]]
        /\ \/ a.due # NoMoment /\ WriteLearn(r, a, "add.job")
           \/ a.due = NoMoment /\ a.promote /\ WriteLearn(r, a, "promo.sadd")
           \/ a.due = NoMoment /\ ~a.promote /\ WriteAnswerLog(r, Created)
    BY <2>1
  <2>4. /\ product[p] = NoProduct
        /\ product' = [product EXCEPT ![p] =
              [NoProduct EXCEPT !.state = "live", !.name = b.name,
                                !.category = b.category, !.due = b.due]]
        /\ \/ b.due # NoMoment /\ WriteLearn(r, a, "add.job")
           \/ b.due = NoMoment /\ WriteLearn(r, a, "promo.sadd")
           \/ b.due = NoMoment /\ WriteAnswerLog(r, Created)
    <3> HIDE DEF a
    <3>1. QED
      BY <2>2, <2>3
  <2>5. QED
    BY <2>4
<1>8. UNCHANGED <<category, job, entry, viewings, renamed, early>>
  BY DEF AddProductCreate
<1>9. /\ product'[p].state = "live" /\ product'[p].name = b.name
      /\ product'[p].category = b.category /\ product'[p].due = b.due /\ product'[p].views = 0
      /\ \A q \in Products : q # p => product'[q] = product[q]
  BY <1>7 DEF CatalogOK, NoProduct
<1>10. /\ product[p].state = "none" /\ product[p].views = 0 /\ entry'[p] = None
  BY <1>5, <1>7, <1>8 DEF NoProduct, Settled
<1>11. ASSUME NEW q \in Products, q # p, LiveProduct(q)'
       PROVE  (HasJob(q) \/ HasNone(q))'
  BY <1>5, <1>8, <1>9, <1>11 DEF Settled, LiveProduct, HasJob, HasNone, IsDue
<1>12. /\ \A q \in Products : product'[q].state = "none" => entry'[q] = None
       /\ \A i \in Jobs : job'[i].state = "delayed" =>
             /\ product'[job'[i].product].state # "none"
             /\ LiveProduct(job[i].product)' => entry'[job'[i].product] = i
       /\ early' = {}
  <2>1. \A i \in Jobs : job[i].state = "delayed" => job[i].product \in Products \ {p}
    BY <1>5, <1>10 DEF Settled, JobsAreOfProducts
  <2>2. \A i \in Jobs : job[i].state = "delayed" => product'[job[i].product] = product[job[i].product]
    BY <1>9, <2>1
  <2>3. QED
    BY <1>5, <1>8, <1>9, <1>10, <2>2 DEF Settled, LiveProduct
<1>13. RowsInOrder'
  <2>1. \A c : LiveCategory(c)' <=> LiveCategory(c)
    BY <1>8 DEF LiveCategory
  <2>2. \A q \in Products : LiveProduct(q)' =>
           product'[q].category \in Categories /\ LiveCategory(product[q].category)'
    BY <1>5, <1>6, <1>8, <1>9 DEF RowsInOrder, ProductsAreFound, LiveProduct, LiveCategory
  <2>3. ASSUME ~renamed, NEW x \in Products, NEW y \in Products, LiveProduct(x)', LiveProduct(y)',
               product'[x].name = product'[y].name
        PROVE  x = y
    <3>1. CASE x # p /\ y # p
      BY <1>5, <1>9, <2>3, <3>1 DEF RowsInOrder, ProductsAreFound, LiveProduct
    <3>2. CASE x = p /\ y # p
      BY <1>6, <1>9, <2>3, <3>2 DEF LiveProduct
    <3>3. CASE x # p /\ y = p
      BY <1>6, <1>9, <2>3, <3>3 DEF LiveProduct
    <3>4. QED
      BY <3>1, <3>2, <3>3
  <2>4. ProductsAreFound'
    BY <1>5, <1>8, <2>1, <2>2, <2>3 DEF RowsInOrder, ProductsAreFound
  <2>5. ViewsCount'
    BY <1>5, <1>8, <1>9, <1>10 DEF RowsInOrder, ViewsCount
  <2>6. QED
    BY <2>2, <2>4, <2>5 DEF RowsInOrder
<1>14. CASE b.due # NoMoment /\ WriteLearn(r, [b EXCEPT !.product = p], "add.job")
  <2>1. PICK a : a = [b EXCEPT !.product = p]
    OBVIOUS
  <2>2. a.product = p /\ a.due = b.due
    BY <1>3, <2>1 DEF CatalogArgs
  <2>3. pc'[r] = "add.job" /\ arg'[r] = a
    BY <1>14, <2>1, StayMoves
  <2>4. Settled({a.product}, {})'
    BY <1>11, <1>12, <2>2 DEF Settled, LiveProduct
  <2>5. KnowsJob("add.job", a)'
    BY <1>9, <1>10, <1>14, <2>2 DEF KnowsJob, LiveProduct
  <2>6. KnowsRows("add.job", a)'
    BY DEF KnowsRows
  <2>7. QED
    BY <1>13, <2>3, <2>4, <2>5, <2>6, TidyThere DEF HasInHand, HandlesJob
<1>15. CASE \/ b.due = NoMoment /\ WriteLearn(r, [b EXCEPT !.product = p], "promo.sadd")
            \/ b.due = NoMoment /\ WriteAnswerLog(r, Created)
  <2>1. pc'[r] \notin Blind
    BY <1>15, StayMoves DEF EndSteps, Blind
  <2>2. HasNone(p)'
    BY <1>9, <1>10, <1>15 DEF HasNone
  <2>3. \A q \in Products : LiveProduct(q)' => (HasJob(q) \/ HasNone(q))'
    BY <1>11, <2>2
  <2>4. Settled({}, {})'
    BY <1>12, <2>3 DEF Settled, LiveProduct
  <2>5. QED
    BY <1>13, <2>1, <2>4, TidyEnds
<1>16. QED
  BY <1>7, <1>14, <1>15

LEMMA TidyJob ==
    ASSUME Slots, CatalogOK, JobsAreOfProducts, NEW r \in Requests, Tidy(pc[r], arg[r]),
           AddProductJob(r)
    PROVE  Tidy(pc[r], arg[r])'
<1>1. PICK b : b = arg[r]
  OBVIOUS
<1>2. pc[r] = "add.job" /\ pc[r] \in CatalogSteps /\ pc[r] \in ForProduct
  BY DEF AddProductJob, At, CatalogSteps, ForProduct
<1>3. b \in CatalogArgs /\ b.product \in Products
  BY <1>1, <1>2, CatalogArgAt
<1>4. Tidy("add.job", b) /\ "add.job" \in HasInHand \ HandlesJob
  BY <1>1, <1>2 DEF HasInHand, HandlesJob
<1>5. Settled({b.product}, {}) /\ RowsInOrder /\ KnowsJob("add.job", b)
  BY <1>4, TidySettled
<1>6. /\ LiveProduct(b.product) /\ product[b.product].due = b.due
      /\ b.due # NoMoment /\ entry[b.product] = None
  BY <1>5 DEF KnowsJob
<1>7. UNCHANGED <<category, product, entry, viewings, renamed, early>>
  BY DEF AddProductJob
<1>8. PICK j \in Jobs :
         /\ job[j] = NoJob
         /\ job' = [job EXCEPT ![j] =
               [state |-> "delayed", product |-> b.product, at |-> b.due]]
         /\ WriteLearn(r, [b EXCEPT !.job = j], "add.record")
  BY <1>1 DEF AddProductJob
<1>9. PICK a : a = [b EXCEPT !.job = j]
  OBVIOUS
<1>10. a.product = b.product /\ a.due = b.due /\ a.job = j
  BY <1>3, <1>9 DEF CatalogArgs
<1>11. pc'[r] = "add.record" /\ arg'[r] = a
  BY <1>8, <1>9, StayMoves
<1>12. /\ job'[j] = [state |-> "delayed", product |-> b.product, at |-> b.due]
       /\ \A i \in Jobs : i # j => job'[i] = job[i]
       /\ job[j].state = "none"
  BY <1>8 DEF CatalogOK, NoJob
<1>13. RowsInOrder'
  BY <1>5, <1>7, RowsKept
<1>14. ASSUME NEW q \in Products \ {b.product}, LiveProduct(q)'
       PROVE  (HasJob(q) \/ HasNone(q))'
  <2>1. HasJob(q) \/ HasNone(q)
    BY <1>5, <1>7, <1>14 DEF Settled, LiveProduct
  <2>2. CASE HasNone(q)
    BY <1>7, <2>2 DEF HasNone
  <2>3. CASE HasJob(q)
    <3>1. entry[q] # j
      BY <1>12, <2>3 DEF HasJob, IsDue
    <3>2. QED
      BY <1>7, <1>12, <2>3, <3>1 DEF HasJob, IsDue
  <2>4. QED
    BY <2>1, <2>2, <2>3
<1>15. ASSUME NEW i \in Jobs, job'[i].state = "delayed"
       PROVE  /\ product'[job'[i].product].state # "none"
              /\ LiveProduct(job[i].product)' /\ i # j => entry'[job'[i].product] = i
  <2>1. CASE i = j
    BY <1>6, <1>7, <1>12, <2>1 DEF LiveProduct
  <2>2. CASE i # j
    BY <1>5, <1>7, <1>12, <1>15, <2>2 DEF Settled, LiveProduct
  <2>3. QED
    BY <2>1, <2>2
<1>16. Settled({b.product}, {j})'
  BY <1>5, <1>7, <1>14, <1>15 DEF Settled, LiveProduct
<1>17. KnowsJob("add.record", a)'
  BY <1>6, <1>7, <1>10, <1>12 DEF KnowsJob, LiveProduct, IsDue
<1>18. KnowsRows("add.record", a)'
  BY DEF KnowsRows
<1>19. QED
  BY <1>10, <1>11, <1>13, <1>16, <1>17, <1>18, TidyThere DEF HasInHand, HandlesJob

LEMMA TidyRecord ==
    ASSUME Slots, CatalogOK, JobsAreOfProducts, NEW r \in Requests, Tidy(pc[r], arg[r]),
           AddProductRecord(r)
    PROVE  Tidy(pc[r], arg[r])'
<1>1. PICK b : b = arg[r]
  OBVIOUS
<1>2. pc[r] = "add.record" /\ pc[r] \in CatalogSteps /\ pc[r] \in ForProduct
  BY DEF AddProductRecord, At, CatalogSteps, ForProduct
<1>3. b \in CatalogArgs /\ b.product \in Products
  BY <1>1, <1>2, CatalogArgAt
<1>4. Tidy("add.record", b) /\ "add.record" \in HandlesJob
  BY <1>1, <1>2 DEF HandlesJob
<1>5. Settled({b.product}, {b.job}) /\ RowsInOrder /\ KnowsJob("add.record", b)
  BY <1>4, TidySettled
<1>6. /\ LiveProduct(b.product) /\ product[b.product].due = b.due
      /\ b.due # NoMoment /\ entry[b.product] = None
      /\ b.job \in Jobs /\ IsDue(b.product, b.job)
  BY <1>5 DEF KnowsJob
<1>7. UNCHANGED <<category, product, job, viewings, renamed, early>>
  BY DEF AddProductRecord
<1>8. entry'[b.product] = b.job /\ \A q \in Products : q # b.product => entry'[q] = entry[q]
  BY <1>1, <1>3 DEF AddProductRecord, CatalogOK
<1>9. pc'[r] \notin Blind
  BY StayMoves DEF AddProductRecord, EndSteps, Blind
<1>10. RowsInOrder'
  BY <1>5, <1>7, RowsKept
<1>11. ASSUME NEW q \in Products, LiveProduct(q)'
       PROVE  (HasJob(q) \/ HasNone(q))'
  <2>1. CASE q = b.product
    BY <1>6, <1>7, <1>8, <2>1 DEF HasJob, IsDue
  <2>2. CASE q # b.product
    BY <1>5, <1>7, <1>8, <1>11, <2>2 DEF Settled, LiveProduct, HasJob, HasNone, IsDue
  <2>3. QED
    BY <2>1, <2>2
<1>12. ASSUME NEW q \in Products, product'[q].state = "none"
       PROVE  entry'[q] = None
  <2>1. q # b.product
    BY <1>6, <1>7, <1>12 DEF LiveProduct
  <2>2. QED
    BY <1>5, <1>7, <1>8, <1>12, <2>1 DEF Settled
<1>13. ASSUME NEW i \in Jobs, job'[i].state = "delayed"
       PROVE  /\ product'[job'[i].product].state # "none"
              /\ LiveProduct(job[i].product)' => entry'[job'[i].product] = i
  <2>1. CASE i = b.job
    BY <1>6, <1>7, <1>8, <2>1 DEF LiveProduct, IsDue
  <2>2. CASE i # b.job
    <3>1. /\ product[job[i].product].state # "none"
          /\ LiveProduct(job[i].product) => entry[job[i].product] = i
      BY <1>5, <1>7, <1>13, <2>2 DEF Settled
    <3>2. job[i].product \in Products /\ i # None
      BY <1>7, <1>13, CatalogAssumption DEF JobsAreOfProducts
    <3>3. QED
      BY <1>6, <1>7, <1>8, <3>1, <3>2 DEF LiveProduct
  <2>3. QED
    BY <2>1, <2>2
<1>14. Settled({}, {})'
  BY <1>5, <1>7, <1>11, <1>12, <1>13 DEF Settled, LiveProduct
<1>15. QED
  BY <1>9, <1>10, <1>14, TidyEnds

(* Steps that leave the jobs of the products alone.                        *)
LEMMA SettledKept ==
    ASSUME CatalogOK, JobsAreOfProducts, Settled({}, {}), UNCHANGED <<job, entry, early>>,
           \A q \in Products :
              /\ product'[q].due = product[q].due
              /\ product'[q].state = "none" => product[q].state = "none"
              /\ LiveProduct(q)' => LiveProduct(q)
    PROVE  Settled({}, {})'
<1>1. ASSUME NEW q \in Products, LiveProduct(q)'
      PROVE  (HasJob(q) \/ HasNone(q))'
  BY <1>1 DEF Settled, HasJob, HasNone, IsDue
<1>2. \A q \in Products : product'[q].state = "none" => entry'[q] = None
  BY DEF Settled
<1>3. ASSUME NEW i \in Jobs, job'[i].state = "delayed"
      PROVE  /\ product'[job'[i].product].state # "none"
             /\ LiveProduct(job[i].product)' => entry'[job'[i].product] = i
  <2>1. job[i].product \in Products
    BY <1>3 DEF JobsAreOfProducts
  <2>2. LiveProduct(job[i].product)' => LiveProduct(job[i].product)
    BY <2>1 DEF LiveProduct
  <2>3. QED
    BY <1>3, <2>1, <2>2 DEF Settled
<1>4. QED
  BY <1>1, <1>2, <1>3 DEF Settled, LiveProduct

LEMMA TidyPlain ==
    ASSUME Slots, CatalogOK, JobsAreOfProducts, NEW r \in Requests, Tidy(pc[r], arg[r]),
           \/ PromoSadd(r) \/ ViewSave(r) \/ AddCategoryInsert(r) \/ UpdateCategorySave(r)
           \/ DeleteCategoryDestroy(r) \/ DeleteProductDestroy(r) \/ UpdateSave(r)
    PROVE  Tidy(pc[r], arg[r])'
<1>1. PICK b : b = arg[r]
  OBVIOUS
<1>2. /\ pc[r] \in CatalogSteps /\ pc[r] \notin HasInHand
      /\ PromoSadd(r) \/ ViewSave(r) \/ DeleteProductDestroy(r) \/ UpdateSave(r) =>
            pc[r] \in ForProduct
  BY DEF PromoSadd, ViewSave, AddCategoryInsert, UpdateCategorySave, DeleteCategoryDestroy,
     DeleteProductDestroy, UpdateSave, At, CatalogSteps, HasInHand, ForProduct
<1>3. /\ b \in CatalogArgs
      /\ PromoSadd(r) \/ ViewSave(r) \/ DeleteProductDestroy(r) \/ UpdateSave(r) =>
            b.product \in Products
  BY <1>1, <1>2, CatalogArgAt
<1>4. Settled({}, {}) /\ RowsInOrder /\ KnowsRows(pc[r], arg[r])
  BY <1>2, TidySettled
<1>5. pc'[r] \notin Blind
  BY StayMoves
  DEF PromoSadd, ViewSave, AddCategoryInsert, UpdateCategorySave, DeleteCategoryDestroy,
      DeleteProductDestroy, UpdateSave, EndSteps, Blind
<1>6. UNCHANGED <<job, entry, early>>
  BY DEF PromoSadd, ViewSave, AddCategoryInsert, UpdateCategorySave, DeleteCategoryDestroy,
     DeleteProductDestroy, UpdateSave
<1>7. ASSUME RowsInOrder', UNCHANGED product
      PROVE  Tidy(pc[r], arg[r])'
  <2>1. Settled({}, {})'
    BY <1>4, <1>6, <1>7, SettledKept DEF LiveProduct
  <2>2. QED
    BY <1>5, <1>7, <2>1, TidyEnds
<1>8. CASE PromoSadd(r)
  BY <1>4, <1>7, <1>8, RowsKept DEF PromoSadd
<1>9. CASE ViewSave(r)
  <2>1. /\ product' = [product EXCEPT ![b.product].views = b.views + 1]
        /\ viewings' = [viewings EXCEPT ![b.product] = @ + 1]
        /\ UNCHANGED <<category, renamed>>
    BY <1>1, <1>9 DEF ViewSave
  <2>2. b.views = product[b.product].views
    BY <1>1, <1>4, <1>9 DEF ViewSave, At, KnowsRows
  <2>3. product[b.product] \in ProductRows
    BY <1>3, <1>9 DEF CatalogOK
  <2>4. /\ product'[b.product] = [product[b.product] EXCEPT !.views = b.views + 1]
        /\ \A q \in Products : q # b.product => product'[q] = product[q]
    BY <1>3, <1>9, <2>1 DEF CatalogOK
  <2>5. /\ product'[b.product].views = b.views + 1
        /\ product'[b.product].state = product[b.product].state
        /\ product'[b.product].due = product[b.product].due
        /\ product'[b.product].name = product[b.product].name
        /\ product'[b.product].category = product[b.product].category
    BY <2>3, <2>4 DEF ProductRows
  <2>6. \A q \in Products : /\ product'[q].state = product[q].state
                            /\ product'[q].due = product[q].due
                            /\ product'[q].name = product[q].name
                            /\ product'[q].category = product[q].category
    BY <2>4, <2>5
  <2>7. Settled({}, {})'
    BY <1>4, <1>6, <2>6, SettledKept DEF LiveProduct
  <2>8. ViewsCount'
    <3>1. viewings'[b.product] = viewings[b.product] + 1
      BY <1>3, <1>9, <2>1 DEF CatalogOK
    <3>2. \A q \in Products : q # b.product => viewings'[q] = viewings[q]
      BY <2>1 DEF CatalogOK
    <3>3. QED
      BY <1>3, <1>4, <1>9, <2>2, <2>4, <2>5, <3>1, <3>2, ZenonT(60) DEF RowsInOrder, ViewsCount
  <2>9. RowsInOrder'
    BY <1>4, <2>1, <2>6, <2>8 DEF RowsInOrder, ProductsAreFound, LiveProduct, LiveCategory
  <2>10. QED
    BY <1>5, <2>7, <2>9, TidyEnds
<1>10. CASE AddCategoryInsert(r)
  <2>1. PICK c \in Categories :
           /\ category[c] = NoCategory
           /\ category' = [category EXCEPT ![c] = [state |-> "live", name |-> b.name]]
    BY <1>1, <1>10 DEF AddCategoryInsert
  <2>2. UNCHANGED <<product, viewings, renamed>>
    BY <1>10 DEF AddCategoryInsert
  <2>3. \A d \in Categories : LiveCategory(d) => category[d].name # b.name
    BY <1>1, <1>4, <1>10 DEF AddCategoryInsert, At, KnowsRows
  <2>4. /\ category'[c].state = "live" /\ category'[c].name = b.name
        /\ \A d \in Categories : d # c => category'[d] = category[d]
    BY <2>1 DEF CatalogOK
  <2>5. \A d \in Categories : LiveCategory(d) => LiveCategory(d)'
    BY <2>4 DEF LiveCategory
  <2>6. ASSUME ~renamed, NEW x \in Categories, NEW y \in Categories, LiveCategory(x)', LiveCategory(y)',
               category'[x].name = category'[y].name
        PROVE  x = y
    <3>1. CASE x # c /\ y # c
      BY <1>4, <2>4, <2>6, <3>1 DEF RowsInOrder, ProductsAreFound, LiveCategory
    <3>2. CASE x = c /\ y # c
      BY <2>3, <2>4, <2>6, <3>2 DEF LiveCategory
    <3>3. CASE x # c /\ y = c
      BY <2>3, <2>4, <2>6, <3>3 DEF LiveCategory
    <3>4. QED
      BY <3>1, <3>2, <3>3
  <2>7. ProductsAreFound'
    BY <1>4, <2>2, <2>5, <2>6 DEF RowsInOrder, ProductsAreFound, LiveProduct
  <2>8. RowsInOrder'
    BY <1>4, <2>2, <2>7 DEF RowsInOrder, ViewsCount, LiveProduct
  <2>9. QED
    BY <1>7, <2>2, <2>8
<1>11. CASE UpdateCategorySave(r)
  <2>1. /\ category' = [category EXCEPT ![b.category].name = b.name]
        /\ renamed' = TRUE /\ UNCHANGED <<product, viewings>>
    BY <1>1, <1>11 DEF UpdateCategorySave
  <2>2. \A d \in Categories : category'[d].state = category[d].state
    BY <2>1 DEF CatalogOK, CategoryRows
  <2>3. RowsInOrder'
    BY <1>4, <2>1, <2>2
    DEF RowsInOrder, ProductsAreFound, ViewsCount, LiveProduct, LiveCategory
  <2>4. QED
    BY <1>7, <2>1, <2>3
<1>12. CASE DeleteCategoryDestroy(r)
  <2>1. /\ category' = [category EXCEPT ![b.category].state = "destroyed"]
        /\ UNCHANGED <<viewings, renamed>>
    BY <1>1, <1>12 DEF DeleteCategoryDestroy
  <2>2. product' = [q \in Products |-> IF q \in InCategory(b.category)
                                       THEN [product[q] EXCEPT !.state = "destroyed"]
                                       ELSE product[q]]
    BY <1>1, <1>12 DEF DeleteCategoryDestroy
  <2>3. ASSUME NEW q \in Products
        PROVE  /\ product'[q].due = product[q].due
               /\ product'[q].name = product[q].name
               /\ product'[q].category = product[q].category
               /\ product'[q].views = product[q].views
               /\ product'[q].state = "none" => product[q].state = "none"
               /\ LiveProduct(q)' => LiveProduct(q) /\ product[q].category # b.category
    <3>1. product[q] \in ProductRows
      BY DEF CatalogOK
    <3>2. CASE q \in InCategory(b.category)
      <4>1. product'[q] = [product[q] EXCEPT !.state = "destroyed"]
        BY <2>2, <3>2
      <4>2. QED
        BY <3>1, <4>1 DEF ProductRows, LiveProduct
    <3>3. CASE q \notin InCategory(b.category)
      BY <2>2, <3>3 DEF InCategory, LiveProduct
    <3>4. QED
      BY <3>2, <3>3
  <2>4. Settled({}, {})'
    BY <1>4, <1>6, <2>3, SettledKept
  <2>5. \A d \in Categories : /\ category'[d].name = category[d].name
                              /\ LiveCategory(d)' <=> LiveCategory(d) /\ d # b.category
    BY <2>1 DEF CatalogOK, CategoryRows, LiveCategory
  <2>6. ProductsAreFound'
    <3>1. \A q \in Products : LiveProduct(q)' => LiveCategory(product[q].category)'
      BY <1>4, <2>3, <2>5 DEF RowsInOrder, ProductsAreFound
    <3>2. QED
      BY <1>4, <2>1, <2>3, <2>5, <3>1 DEF RowsInOrder, ProductsAreFound, LiveCategory
  <2>7. RowsInOrder'
    BY <1>4, <2>1, <2>3, <2>6 DEF RowsInOrder, ViewsCount
  <2>8. QED
    BY <1>5, <2>4, <2>7, TidyEnds
<1>13. CASE DeleteProductDestroy(r)
  <2>1. /\ product' = [product EXCEPT ![b.product].state = "destroyed"]
        /\ UNCHANGED <<category, viewings, renamed>>
    BY <1>1, <1>13 DEF DeleteProductDestroy, Destroyed
  <2>2. \A q \in Products : /\ product'[q].due = product[q].due
                            /\ product'[q].name = product[q].name
                            /\ product'[q].category = product[q].category
                            /\ product'[q].views = product[q].views
                            /\ product'[q].state = "none" => product[q].state = "none"
                            /\ LiveProduct(q)' => LiveProduct(q)
    BY <2>1 DEF CatalogOK, ProductRows, LiveProduct
  <2>3. Settled({}, {})'
    BY <1>4, <1>6, <2>2, SettledKept
  <2>4. RowsInOrder'
    BY <1>4, <2>1, <2>2 DEF RowsInOrder, ProductsAreFound, ViewsCount, LiveCategory
  <2>5. QED
    BY <1>5, <2>3, <2>4, TidyEnds
<1>14. CASE UpdateSave(r)
  <2>1. /\ product' = [product EXCEPT ![b.product].name = b.name]
        /\ renamed' = (renamed \/ b.name # product[b.product].name)
        /\ UNCHANGED <<category, viewings>>
    BY <1>1, <1>14 DEF UpdateSave
  <2>2. \A q \in Products : /\ product'[q].due = product[q].due
                            /\ product'[q].category = product[q].category
                            /\ product'[q].views = product[q].views
                            /\ product'[q].state = product[q].state
    BY <2>1 DEF CatalogOK, ProductRows
  <2>3. Settled({}, {})'
    BY <1>4, <1>6, <2>2, SettledKept DEF LiveProduct
  <2>4. ASSUME ~renamed'
        PROVE  ~renamed /\ \A q \in Products : product'[q].name = product[q].name
    <3>1. ~renamed /\ b.name = product[b.product].name
      BY <2>1, <2>4
    <3>2. QED
      BY <2>1, <3>1 DEF CatalogOK, ProductRows
  <2>5. RowsInOrder'
    BY <1>4, <2>1, <2>2, <2>4
    DEF RowsInOrder, ProductsAreFound, ViewsCount, LiveProduct, LiveCategory
  <2>6. QED
    BY <1>5, <2>3, <2>5, TidyEnds
<1>15. QED
  BY <1>8, <1>9, <1>10, <1>11, <1>12, <1>13, <1>14

(* The workers, and what happens when no handler is under way.             *)
LEMMA TidyFails ==
    ASSUME CatalogOK, NEW j \in Jobs, job[j].state = "delayed", ~LiveProduct(job[j].product),
           job' = [job EXCEPT ![j].state = "failed"],
           UNCHANGED <<category, product, entry, viewings, renamed, early>>
    PROVE  /\ \A x, y : Settled(x, y) => Settled(x, y)'
           /\ \A s, a : KnowsJob(s, a) => KnowsJob(s, a)'
           /\ \A s, a : KnowsRows(s, a) => KnowsRows(s, a)'
           /\ RowsInOrder => RowsInOrder'
<1>1. job'[j].state = "failed" /\ \A i \in Jobs : i # j => job'[i] = job[i]
  BY DEF CatalogOK, JobRows
<1>2. \A p : LiveProduct(p)' <=> LiveProduct(p)
  BY DEF LiveProduct
<1>3. ASSUME NEW p, NEW i \in Jobs, LiveProduct(p), job[i].product = p
      PROVE  job'[i] = job[i]
  BY <1>1, <1>3
<1>4. \A p : LiveProduct(p) /\ HasJob(p) => HasJob(p)'
  BY <1>3 DEF HasJob, IsDue
<1>5. \A p : HasNone(p) => HasNone(p)'
  BY DEF HasNone
<1>6. ASSUME NEW x, NEW y, Settled(x, y)
      PROVE  Settled(x, y)'
  BY <1>1, <1>2, <1>4, <1>5, <1>6 DEF Settled
<1>7. ASSUME NEW s, NEW a, KnowsJob(s, a)
      PROVE  KnowsJob(s, a)'
  BY <1>2, <1>3, <1>7 DEF KnowsJob, IsDue
<1>8. \A s, a : KnowsRows(s, a) => KnowsRows(s, a)'
  BY DEF KnowsRows, LiveProduct, LiveCategory
<1>9. RowsInOrder => RowsInOrder'
  BY RowsKept
<1>10. QED
  BY <1>6, <1>7, <1>8, <1>9

LEMMA TidyFinds ==
    ASSUME CatalogOK, JobsAreOfProducts, TidyInv, OneAtATime, OneAtATime', alone' => alone,
           NEW j \in Jobs, RemovalFind(j)
    PROVE  TidyInv'
<1> SUFFICES ASSUME alone', deaths' = 0
             PROVE  /\ Busy' = {} /\ Removing' = {} => Tidy("idle", None)'
                    /\ \A r \in Busy' : Tidy(pc[r], arg[r])'
                    /\ \A i \in Removing' : TidyBut(i)'
  BY DEF TidyInv
<1>1. UNCHANGED <<now, category, product, entry, viewings, renamed, early, requestVars>>
  BY DEF RemovalFind
<1>2. pc' = pc /\ arg' = arg /\ Busy' = Busy /\ deaths = 0 /\ alone
  BY <1>1 DEF requestVars, Busy
<1>3. job[j].state = "delayed" /\ job[j].at <= now /\ job[j] \in JobRows
  BY DEF RemovalFind, CatalogOK
<1>4. PICK p : p = job[j].product
  OBVIOUS
<1>5. p \in Products
  BY <1>3, <1>4 DEF JobsAreOfProducts
<1>6. CASE LiveProduct(p)
  <2>1. job' = [job EXCEPT ![j].state = "active"]
    BY <1>4, <1>6 DEF RemovalFind
  <2>2. /\ job'[j].state = "active" /\ job'[j].product = p
        /\ \A i \in Jobs : i # j => job'[i] = job[i]
    BY <1>3, <1>4, <2>1 DEF CatalogOK, JobRows
  <2>3. j \in Removing'
    BY <2>2 DEF Removing
  <2>4. Busy' = {} /\ \A i \in Removing' : i = j
    BY <2>3 DEF OneAtATime
  <2>5. Removing = {}
    BY <1>3, <2>2, <2>4 DEF Removing
  <2>6. Tidy("idle", None) /\ "idle" \notin HasInHand
    BY <1>2, <2>4, <2>5 DEF TidyInv, HasInHand
  <2>7. Settled({}, {}) /\ RowsInOrder
    BY <2>6, TidySettled
  <2>8. entry[p] = j /\ HasJob(p)
    BY <1>3, <1>4, <1>5, <1>6, <2>7, EntryMeans DEF Settled
  <2>9. product[p].due # NoMoment /\ product[p].due <= now
    BY <1>3, <2>8 DEF HasJob, IsDue
  <2>10. RowsInOrder'
    BY <1>1, <2>7, RowsKept
  <2>11. ASSUME NEW q \in Products \ {p}, LiveProduct(q)'
         PROVE  (HasJob(q) \/ HasNone(q))'
    <3>1. HasJob(q) \/ HasNone(q)
      BY <1>1, <2>7, <2>11 DEF Settled, LiveProduct
    <3>2. CASE HasNone(q)
      BY <1>1, <3>2 DEF HasNone
    <3>3. CASE HasJob(q)
      <4>1. entry[q] # j
        BY <1>4, <3>3 DEF HasJob, IsDue
      <4>2. QED
        BY <1>1, <2>2, <3>3, <4>1 DEF HasJob, IsDue
    <3>4. QED
      BY <3>1, <3>2, <3>3
  <2>12. \A i \in Jobs : job'[i].state = "delayed" => job'[i] = job[i]
    BY <2>2
  <2>13. Settled({p}, {})'
    BY <1>1, <2>7, <2>11, <2>12 DEF Settled, LiveProduct
  <2>14. TidyBut(j)'
    <3>1. job'[j].product = p
      BY <2>2
    <3>2. LiveProduct(p)' /\ product'[p].due # NoMoment /\ product'[p].due <= now'
      BY <1>1, <1>6, <2>9 DEF LiveProduct
    <3>3. Settled({job[j].product}, {})'
      BY <2>13, <3>1 DEF Settled
    <3>4. QED
      BY <2>10, <3>1, <3>2, <3>3 DEF TidyBut, LiveProduct
  <2>15. QED
    BY <2>3, <2>4, <2>14
<1>7. CASE ~LiveProduct(p)
  <2>1. job' = [job EXCEPT ![j].state = "failed"]
    BY <1>4, <1>7 DEF RemovalFind
  <2>2. /\ \A x, y : Settled(x, y) => Settled(x, y)'
        /\ \A s, a : KnowsJob(s, a) => KnowsJob(s, a)'
        /\ \A s, a : KnowsRows(s, a) => KnowsRows(s, a)'
        /\ RowsInOrder => RowsInOrder'
    BY <1>1, <1>3, <1>4, <1>7, <2>1, TidyFails
  <2>3. job'[j].state = "failed" /\ \A i \in Jobs : i # j => job'[i] = job[i]
    BY <2>1 DEF CatalogOK, JobRows
  <2>4. Removing' = Removing /\ \A i \in Removing : job'[i] = job[i]
    BY <1>3, <2>3 DEF Removing
  <2>5. \A s, a : Tidy(s, a) => Tidy(s, a)'
    BY <2>2 DEF Tidy
  <2>6. ASSUME NEW r \in Busy
        PROVE  Tidy(pc[r], arg[r])'
    <3>1. r \in Requests /\ Tidy(pc[r], arg[r])
      BY <1>2, <2>6 DEF TidyInv, Busy
    <3>2. PICK s, a : s = pc[r] /\ a = arg[r]
      OBVIOUS
    <3>3. PICK x, y : /\ x = IF s \in HasInHand THEN {a.product} ELSE {}
                      /\ y = IF s \in HandlesJob THEN {a.job} ELSE {}
      OBVIOUS
    <3>4. Settled(x, y) /\ KnowsJob(s, a) /\ KnowsRows(s, a) /\ RowsInOrder
      BY <3>1, <3>2, <3>3 DEF Tidy
    <3>5. Settled(x, y)' /\ KnowsJob(s, a)' /\ KnowsRows(s, a)' /\ RowsInOrder'
      BY <2>2, <3>4
    <3>6. pc'[r] = s /\ arg'[r] = a
      BY <1>2, <3>2
    <3>7. QED
      BY <3>1, <3>3, <3>5, <3>6, TidyThere
  <2>7. ASSUME NEW i \in Removing
        PROVE  TidyBut(i)'
    <3>1. TidyBut(i) /\ job'[i] = job[i]
      BY <1>2, <2>4, <2>7 DEF TidyInv
    <3>2. PICK q : q = job[i].product
      OBVIOUS
    <3>3. Settled({q}, {})' /\ RowsInOrder' /\ job'[i].product = q
      BY <2>2, <3>1, <3>2 DEF TidyBut
    <3>4. Settled({job[i].product}, {})'
      BY <3>3 DEF Settled
    <3>5. QED
      BY <1>1, <3>1, <3>3, <3>4 DEF TidyBut, LiveProduct
  <2>8. Busy' = {} /\ Removing' = {} => Tidy("idle", None)'
    BY <1>2, <2>4, <2>5 DEF TidyInv
  <2>9. QED
    BY <1>2, <2>4, <2>6, <2>7, <2>8
<1>8. QED
  BY <1>6, <1>7

LEMMA TidyDestroys ==
    ASSUME CatalogOK, JobsAreOfProducts, TidyInv, OneAtATime, alone' => alone,
           NEW j \in Jobs, RemovalDestroy(j)
    PROVE  TidyInv'
<1> SUFFICES ASSUME alone', deaths' = 0
             PROVE  /\ Busy' = {} /\ Removing' = {} => Tidy("idle", None)'
                    /\ \A r \in Busy' : Tidy(pc[r], arg[r])'
                    /\ \A i \in Removing' : TidyBut(i)'
  BY DEF TidyInv
<1>1. UNCHANGED <<now, category, entry, viewings, renamed, requestVars>>
  BY DEF RemovalDestroy
<1>2. PICK p : p = job[j].product
  OBVIOUS
<1>3. /\ job[j].state = "active"
      /\ job' = [job EXCEPT ![j].state = "done"]
      /\ product' = [product EXCEPT ![p].state = "destroyed"]
  BY <1>2 DEF RemovalDestroy, Destroyed
<1>4. p \in Products /\ product[p] \in ProductRows /\ job[j] \in JobRows
  BY <1>2, <1>3 DEF JobsAreOfProducts, CatalogOK
<1>5. j \in Removing /\ alone /\ deaths = 0 /\ Busy' = Busy
  BY <1>1, <1>3 DEF Removing, requestVars, Busy
<1>6. Busy = {} /\ \A i \in Removing : i = j
  BY <1>5 DEF OneAtATime
<1>7. job'[j].state = "done" /\ \A i \in Jobs : i # j => job'[i] = job[i]
  BY <1>3, <1>4 DEF CatalogOK, JobRows
<1>8. Removing' = {}
  BY <1>6, <1>7 DEF Removing
<1>9. TidyBut(j)
  BY <1>5 DEF TidyInv
<1>10. /\ Settled({p}, {}) /\ RowsInOrder /\ LiveProduct(p)
       /\ product[p].due # NoMoment /\ product[p].due <= now
  BY <1>2, <1>9 DEF TidyBut
<1>11. now \in Nat /\ product[p].due \in Nat
  BY <1>4, CatalogAssumption DEF CatalogOK, ProductRows, Moments, NoMoment
<1>12. early' = {}
  <2>1. ~(product[p].due = NoMoment \/ product[p].due > now)
    BY <1>10, <1>11
  <2>2. early' = early
    BY <1>2, <2>1 DEF RemovalDestroy
  <2>3. QED
    BY <1>10, <2>2 DEF Settled
<1>13. /\ product'[p].state = "destroyed"
       /\ \A q \in Products : q # p => product'[q] = product[q]
       /\ \A q \in Products : /\ product'[q].due = product[q].due
                              /\ product'[q].name = product[q].name
                              /\ product'[q].category = product[q].category
                              /\ product'[q].views = product[q].views
  BY <1>3, <1>4 DEF CatalogOK, ProductRows
<1>14. ASSUME NEW q \in Products, LiveProduct(q)'
       PROVE  LiveProduct(q) /\ q # p
  BY <1>13, <1>14 DEF LiveProduct
<1>15. ASSUME NEW q \in Products, LiveProduct(q)'
       PROVE  (HasJob(q) \/ HasNone(q))'
  <2>1. q # p /\ (HasJob(q) \/ HasNone(q))
    BY <1>10, <1>14, <1>15 DEF Settled
  <2>2. CASE HasNone(q)
    BY <1>1, <1>13, <2>2 DEF HasNone
  <2>3. CASE HasJob(q)
    <3>1. entry[q] # j
      BY <1>3, <2>3 DEF HasJob, IsDue
    <3>2. QED
      BY <1>1, <1>7, <1>13, <2>3, <3>1 DEF HasJob, IsDue
  <2>4. QED
    BY <2>1, <2>2, <2>3
<1>16. \A q \in Products : product'[q].state = "none" => entry'[q] = None
  BY <1>1, <1>10, <1>13 DEF Settled
<1>17. ASSUME NEW i \in Jobs, job'[i].state = "delayed"
       PROVE  /\ product'[job'[i].product].state # "none"
              /\ LiveProduct(job[i].product)' => entry'[job'[i].product] = i
  <2>1. job'[i] = job[i] /\ job[i].product \in Products
    BY <1>7, <1>17 DEF JobsAreOfProducts
  <2>2. LiveProduct(job[i].product)' => LiveProduct(job[i].product)
    BY <1>14, <2>1 DEF LiveProduct
  <2>3. product'[job[i].product].state # "none"
    BY <1>10, <1>13, <1>17, <2>1 DEF Settled
  <2>4. QED
    BY <1>1, <1>10, <1>17, <2>1, <2>2, <2>3 DEF Settled
<1>18. Settled({}, {})'
  BY <1>12, <1>15, <1>16, <1>17 DEF Settled, LiveProduct
<1>19. RowsInOrder'
  BY <1>1, <1>10, <1>13, <1>14 DEF RowsInOrder, ProductsAreFound, ViewsCount, LiveCategory
<1>20. Tidy("idle", None)'
  <2>1. KnowsJob("idle", None)' /\ KnowsRows("idle", None)'
    BY DEF KnowsJob, KnowsRows
  <2>2. "idle" \notin HasInHand /\ "idle" \notin HandlesJob
    BY DEF HasInHand, HandlesJob
  <2>3. QED
    BY <1>18, <1>19, <2>1, <2>2 DEF Tidy
<1>21. QED
  BY <1>5, <1>6, <1>8, <1>20

LEMMA TidyStill ==
    ASSUME Tidy("idle", None),
           UNCHANGED <<category, product, job, entry, viewings, renamed, early>>
    PROVE  Tidy("idle", None)'
<1>1. "idle" \notin HasInHand /\ "idle" \notin HandlesJob
  BY DEF HasInHand, HandlesJob
<1>2. Settled({}, {}) /\ RowsInOrder
  BY <1>1, TidySettled
<1>3. Settled({}, {})'
  BY <1>2 DEF Settled, HasJob, HasNone, IsDue, LiveProduct
<1>4. RowsInOrder'
  BY <1>2, RowsKept
<1>5. KnowsJob("idle", None)' /\ KnowsRows("idle", None)'
  BY DEF KnowsJob, KnowsRows
<1>6. QED
  BY <1>1, <1>3, <1>4, <1>5 DEF Tidy

LEMMA TidyOutside ==
    ASSUME TidyInv, OutsideStep, UNCHANGED requestVars,
           UNCHANGED <<category, product, job, entry, viewings, renamed, early>>
    PROVE  TidyInv'
<1> SUFFICES ASSUME alone', deaths' = 0
             PROVE  /\ Busy' = {} /\ Removing' = {} => Tidy("idle", None)'
                    /\ \A r \in Busy' : Tidy(pc[r], arg[r])'
                    /\ \A i \in Removing' : TidyBut(i)'
  BY DEF TidyInv
<1>1. alone /\ deaths = 0 /\ Busy = {} /\ Removing = {}
  BY DEF OutsideStep, requestVars
<1>2. Busy' = {} /\ Removing' = {}
  BY <1>1 DEF Busy, Removing, requestVars
<1>3. Tidy("idle", None)
  BY <1>1 DEF TidyInv
<1>4. Tidy("idle", None)'
  BY <1>3, TidyStill
<1>5. QED
  BY <1>2, <1>4

LEMMA TidyEnd ==
    ASSUME Slots, Slots', CatalogOK, HistoryOK, TidyInv, OneAtATime, HandlersEnd
    PROVE  TidyInv'
<1> SUFFICES ASSUME alone', deaths' = 0
             PROVE  /\ Busy' = {} /\ Removing' = {} => Tidy("idle", None)'
                    /\ \A r \in Busy' : Tidy(pc[r], arg[r])'
                    /\ \A i \in Removing' : TidyBut(i)'
  BY DEF TidyInv
<1>1. PICK r \in Requests :
         \/ /\ Answered(r) \/ LogOperation(r)
            /\ UNCHANGED <<alone, catalogVars, ratingVars, shippingVars, analyticsVars>>
         \/ /\ AnswerTwice(r)
            /\ Stalled
            /\ UNCHANGED <<alone, now, category, product, entry, promo, viewings, renamed, early>>
  BY DEF HandlersEnd
<1>2. alone /\ deaths = 0
  <2>1. alone
    BY <1>1
  <2>2. CASE Finish(r)
    BY <2>1, <2>2 DEF Finish
  <2>3. CASE AnswerTwice(r)
    <3>1. deaths \in Nat /\ deaths' = IF deaths < Deaths THEN deaths + 1 ELSE deaths
      BY <2>3, RequestsAssumption DEF AnswerTwice, Die, HistoryOK
    <3>2. QED
      BY <2>1, <3>1
  <2>4. QED
    BY <1>1, <2>1, <2>2, <2>3 DEF Answered, LogOperation
<1>3. pc[r] \in {"answered", "log", "doomed"} /\ pc[r] \notin Blind
  BY <1>1 DEF Answered, LogOperation, AnswerTwice, At, Blind
<1>4. Busy = {r} /\ Removing = {}
  <2>1. r \in Busy
    BY <1>3 DEF Busy
  <2>2. QED
    BY <1>2, <2>1 DEF OneAtATime
<1>5. Tidy(pc[r], arg[r])
  BY <1>2, <1>4 DEF TidyInv
<1>6. Tidy("idle", None)
  BY <1>3, <1>5, TidyBlind DEF Blind
<1>7. Busy' = {}
  <2>1. pc = [q \in Requests |-> pc[q]]
    BY DEF Slots
  <2>2. \A q \in Requests : pc[q] # "idle" => q = r
    BY <1>4 DEF Busy
  <2>3. \A q \in Requests : pc'[q] = "idle"
    BY <1>1, <2>1, <2>2 DEF Answered, LogOperation, AnswerTwice, Finish, Die
  <2>4. QED
    BY <2>3 DEF Busy
<1>8. UNCHANGED <<category, product, entry, viewings, renamed, early>>
  BY <1>1 DEF catalogVars
<1>9. job' = job
  <2>1. CASE Stalled
    <3>1. \A j \in Jobs : job[j].state # "active"
      BY <1>4 DEF Removing
    <3>2. job' = [j \in Jobs |-> job[j]]
      BY <2>1, <3>1 DEF Stalled
    <3>3. QED
      BY <3>2 DEF CatalogOK
  <2>2. CASE UNCHANGED catalogVars
    BY <2>2 DEF catalogVars
  <2>3. QED
    BY <1>1, <2>1, <2>2
<1>10. Removing' = {}
  BY <1>4, <1>9 DEF Removing
<1>11. Tidy("idle", None)'
  BY <1>6, <1>8, <1>9, TidyStill
<1>12. QED
  BY <1>7, <1>10, <1>11

LEMMA TidyContinues ==
    ASSUME Slots, CatalogOK, JobsAreOfProducts, NEW r \in Requests, Tidy(pc[r], arg[r]),
           CatalogArrive(r) \/ CatalogContinue(r)
    PROVE  Tidy(pc[r], arg[r])'
<1>1. CASE CatalogArrive(r)
  BY <1>1, TidyArrives
<1>2. CASE \/ AddCategoryFind(r) \/ AddProductCategory(r) \/ AddProductNames(r)
           \/ PromoCount(r) \/ PromoMembers(r) \/ ViewFind(r)
           \/ UpdateCategoryFind(r) \/ DiscountFind(r) \/ DiscountSave(r)
           \/ DeleteCategoryFind(r) \/ DeleteProductFind(r) \/ UpdateFind(r)
  BY <1>2, TidyLooks
<1>3. CASE AddProductCreate(r) \/ AddProductJob(r) \/ AddProductRecord(r)
  BY <1>3, TidyCreate, TidyJob, TidyRecord
<1>4. CASE \/ PromoSadd(r) \/ ViewSave(r) \/ AddCategoryInsert(r) \/ UpdateCategorySave(r)
           \/ DeleteCategoryDestroy(r) \/ DeleteProductDestroy(r) \/ UpdateSave(r)
  BY <1>4, TidyPlain
<1>5. QED
  BY <1>1, <1>2, <1>3, <1>4 DEF CatalogContinue

LEMMA TidyHandler ==
    ASSUME Slots, Slots', CatalogOK, JobsAreOfProducts, TidyInv, OneAtATime, OneAtATime',
           alone' => alone, NEW r \in Requests, CatalogArrive(r) \/ CatalogContinue(r)
    PROVE  TidyInv'
<1>1. CASE alone' /\ deaths' = 0
  <2>1. Alone(r)
    BY CatalogAlone
  <2>2. "idle" \notin CatalogSteps /\ "idle" \notin EndSteps
    BY StepsDiffer DEF AllSteps
  <2>3. pc'[r] # "idle"
    BY <2>2, CatalogArrives, CatalogStays
  <2>4. UNCHANGED job \/ pc[r] # "idle"
    <3>1. CASE CatalogArrive(r)
      BY <3>1, CatalogArriveSlots DEF catalogVars
    <3>2. CASE CatalogContinue(r)
      BY <2>2, <3>2, CatalogStays
    <3>3. QED
      BY <3>1, <3>2
  <2>5. deaths = 0
    BY <1>1, <2>1 DEF Alone
  <2>6. Tidy(pc[r], arg[r]) /\ Busy' = {r} /\ Removing' = {}
    BY <1>1, <2>1, <2>3, <2>4, <2>5, TidyBefore
  <2>7. Tidy(pc[r], arg[r])'
    BY <2>6, TidyContinues
  <2>8. QED
    BY <2>6, <2>7, TidyAfter
<1>2. CASE ~(alone' /\ deaths' = 0)
  BY <1>2 DEF TidyInv
<1>3. QED
  BY <1>1, <1>2

LEMMA TidyNext ==
    ASSUME IInv, IInv', FiguresInv, FiguresInv', TidyInv, Next
    PROVE  TidyInv'
<1>1. Slots /\ CatalogOK /\ JobsAreOfProducts /\ Slots' /\ HistoryOK
  BY TypedParts DEF IInv, RequestsOK, HistoryOK
<1>2. OneAtATime /\ OneAtATime'
  BY DEF FiguresInv
<1>3. Blind \subseteq CatalogSteps /\ "idle" \notin CatalogSteps
  BY DEF Blind, CatalogSteps
<1>4. RatingSteps \cup ShippingSteps \cup AnalyticsSteps \cup EndSteps \cup {"idle"}
         \subseteq {s \in AllSteps \cup EndSteps \cup {"idle"} : s \notin Blind}
  BY <1>3, StepsDiffer DEF AllSteps
<1>5. "idle" \notin RatingSteps \cup ShippingSteps \cup AnalyticsSteps \cup EndSteps
  BY StepsDiffer DEF AllSteps
<1>6. ASSUME NEW r \in Requests, Alone(r), HandlerStep, UNCHANGED catalogVars,
             pc[r] \in RatingSteps \cup ShippingSteps \cup AnalyticsSteps \cup {"idle"},
             pc'[r] \in RatingSteps \cup ShippingSteps \cup AnalyticsSteps \cup EndSteps
      PROVE  TidyInv'
  <2>1. pc[r] \notin Blind /\ pc'[r] \notin Blind /\ pc'[r] # "idle"
    BY <1>4, <1>5, <1>6
  <2>2. alone' => alone
    BY <1>6 DEF HandlerStep
  <2>3. QED
    BY <1>1, <1>2, <1>6, <2>1, <2>2, TidyOthers
<1>7. ASSUME OutsideStep, UNCHANGED requestVars, UNCHANGED catalogVars
      PROVE  TidyInv'
  BY <1>7, TidyOutside DEF catalogVars
<1>8. CASE CatalogNext
  <2>1. ASSUME NEW r \in Requests, CatalogArrive(r) \/ CatalogContinue(r), HandlerStep
        PROVE  TidyInv'
    <3>1. alone' => alone
      BY <2>1 DEF HandlerStep
    <3>2. QED
      BY <1>1, <1>2, <2>1, <3>1, TidyHandler
  <2>2. ASSUME CatalogWorker, HandlerStep
        PROVE  TidyInv'
    <3>1. alone' => alone
      BY <2>2 DEF HandlerStep
    <3>2. QED
      BY <1>1, <1>2, <2>2, <3>1, TidyFinds, TidyDestroys DEF CatalogWorker
  <2>3. ASSUME Tick, OutsideStep
        PROVE  TidyInv'
    BY <2>3, TidyOutside DEF Tick
  <2>4. QED
    BY <1>8, <2>1, <2>2, <2>3 DEF CatalogNext
<1>9. CASE RatingsNext
  <2>1. UNCHANGED catalogVars
    BY <1>9 DEF RatingsNext
  <2>2. ASSUME NEW r \in Requests, RatingsArrive(r) \/ RatingsContinue(r), HandlerStep
        PROVE  TidyInv'
    BY <1>1, <1>6, <2>1, <2>2, RatingsStay, RatingsAlone
  <2>3. ASSUME RatingsOutside, OutsideStep
        PROVE  TidyInv'
    BY <1>7, <2>1, <2>3 DEF RatingsOutside, Gone, SendNotification
  <2>4. QED
    BY <1>9, <2>2, <2>3 DEF RatingsNext
<1>10. CASE ShippingNext
  <2>1. UNCHANGED catalogVars
    BY <1>10 DEF ShippingNext
  <2>2. PICK r \in Requests : (ShippingArrive(r) \/ ShippingContinue(r)) /\ HandlerStep
    BY <1>10 DEF ShippingNext
  <2>3. CASE ShippingArrive(r)
    BY <1>1, <1>6, <2>1, <2>2, <2>3, ShippingArrives, ShippingAlone
  <2>4. CASE ShippingContinue(r)
    <3>1. pc[r] \in ShippingSteps
      BY <1>1, <2>4, ShippingStays
    <3>2. pc'[r] \in ShippingSteps \cup EndSteps
      <4>1. CASE CostCountry(r) \/ CostSafe(r) \/ CostWeight(r)
        BY <1>1, <4>1, StayMoves DEF CostCountry, CostSafe, CostWeight, ShippingSteps
      <4>2. QED
        BY <1>1, <2>4, <4>1, ShippingStays
    <3>3. QED
      BY <1>1, <1>6, <2>1, <2>2, <2>4, <3>1, <3>2, ShippingAlone
  <2>5. QED
    BY <2>2, <2>3, <2>4
<1>11. CASE AnalyticsNext
  <2>1. UNCHANGED catalogVars
    BY <1>11 DEF AnalyticsNext
  <2>2. ASSUME NEW r \in Requests, FiguresArrive(r) \/ DeletionsArrive(r), HandlerStep
        PROVE  TidyInv'
    BY <1>1, <1>6, <2>1, <2>2, FiguresBegin, AnalyticsAlone
  <2>3. ASSUME NEW r \in Requests, AnalyticsContinue(r), HandlerStep
        PROVE  TidyInv'
    <3>1. pc[r] \in AnalyticsSteps /\ pc'[r] \in AnalyticsSteps \cup EndSteps
      BY <1>1, <2>3, AnalyticsQuotes DEF NoQuote
    <3>2. QED
      BY <1>1, <1>6, <2>1, <2>3, <3>1, AnalyticsAlone
  <2>4. ASSUME AnalyticsOutside, OutsideStep
        PROVE  TidyInv'
    BY <1>7, <2>1, <2>4
    DEF AnalyticsOutside, OrderPlaced, OrderMoved, OrderRefunded, OrderOverwritten, CustomerDeleted,
        ItemChanged, FileDone
  <2>5. QED
    BY <1>11, <2>2, <2>3, <2>4 DEF AnalyticsNext
<1>12. CASE HandlersEnd
  BY <1>1, <1>2, <1>12, TidyEnd
<1>13. QED
  BY <1>8, <1>9, <1>10, <1>11, <1>12 DEF Next

LEMMA TidyInitially == Init => TidyInv
<1> SUFFICES ASSUME Init PROVE TidyInv
  OBVIOUS
<1>1. Busy = {} /\ Removing = {}
  BY DEF Init, RequestsInit, CatalogInit, Busy, Removing, NoJob
<1>2. Settled({}, {})
  BY DEF Init, CatalogInit, Settled, LiveProduct, NoProduct, NoJob
<1>3. RowsInOrder
  BY DEF Init, CatalogInit, RowsInOrder, ProductsAreFound, ViewsCount, LiveProduct, LiveCategory,
     NoProduct, NoCategory
<1>4. KnowsJob("idle", None) /\ KnowsRows("idle", None)
  BY DEF KnowsJob, KnowsRows
<1>5. Tidy("idle", None)
  BY <1>2, <1>3, <1>4 DEF Tidy, HasInHand, HandlesJob
<1>6. QED
  BY <1>1, <1>5 DEF TidyInv

LEMMA TidyStep == IInv /\ IInv' /\ FiguresInv /\ FiguresInv' /\ TidyInv /\ [Next]_vars => TidyInv'
<1> SUFFICES ASSUME IInv, IInv', FiguresInv, FiguresInv', TidyInv, [Next]_vars PROVE TidyInv'
  OBVIOUS
<1>1. CASE Next
  BY <1>1, TidyNext
<1>2. CASE UNCHANGED vars
  <2>1. /\ UNCHANGED <<pc, arg, deaths, alone, now, category, product, job, entry, viewings, renamed>>
        /\ UNCHANGED early
    BY <1>2 DEF vars, requestVars, catalogVars
  <2>2. UNCHANGED catalogVars
    BY <1>2 DEF vars
  <2>3. Busy' = Busy /\ Removing' = Removing
    BY <2>1 DEF Busy, Removing
  <2>4. Tidy("idle", None) => Tidy("idle", None)'
    <3>1. KnowsJob("idle", None)' /\ KnowsRows("idle", None)'
      BY DEF KnowsJob, KnowsRows
    <3>2. RowsInOrder => RowsInOrder'
      BY <2>1 DEF RowsInOrder, ProductsAreFound, ViewsCount, LiveProduct, LiveCategory
    <3>3. Settled({}, {}) => Settled({}, {})'
      BY <2>1 DEF Settled, HasJob, HasNone, IsDue, LiveProduct
    <3>4. QED
      BY <3>1, <3>2, <3>3 DEF Tidy, HasInHand, HandlesJob
  <2>5. ASSUME NEW r \in Busy, Tidy(pc[r], arg[r]) PROVE Tidy(pc[r], arg[r])'
    <3>1. PICK s, a : s = pc[r] /\ a = arg[r]
      OBVIOUS
    <3>2. r \in Requests /\ pc'[r] = s /\ arg'[r] = a /\ Tidy(s, a)
      BY <2>1, <2>5, <3>1 DEF Busy
    <3>3. QED
      BY <2>2, <3>2, TidyKept
  <2>6. ASSUME NEW j \in Removing, TidyBut(j) PROVE TidyBut(j)'
    BY <2>1, <2>6
    DEF TidyBut, Settled, HasJob, HasNone, IsDue, LiveProduct, LiveCategory, RowsInOrder,
        ProductsAreFound, ViewsCount
  <2>7. QED
    BY <2>1, <2>3, <2>4, <2>5, <2>6 DEF TidyInv
<1>3. QED
  BY <1>1, <1>2

(* While handlers run one at a time, the catalogue is in order but for the *)
(* product that one of them has in hand.                                   *)
THEOREM TidyInvariance == Spec => []TidyInv
<1>1. Init => TidyInv
  BY TidyInitially
<1>2. IInv /\ IInv' /\ FiguresInv /\ FiguresInv' /\ TidyInv /\ [Next]_vars => TidyInv'
  BY TidyStep
<1>3. QED
  BY <1>1, <1>2, Invariance, FiguresInvariance, PTL DEF Spec

(* Whatever addProductByCategoryId, updateProductById and the deletions    *)
(* have done, one after the other: a product that is to be removed has a   *)
(* job for its moment and only such a product has one, none is removed     *)
(* before its time, a product on sale has a category on sale, no two of    *)
(* them have a name in common, and every view is counted.                  *)
THEOREM ShopInOrder == Spec => []InOrder
<1>1. IInv /\ TidyInv => InOrder
  <2> SUFFICES ASSUME IInv, TidyInv, alone, deaths = 0, Busy = {}, Removing = {}
               PROVE  RemovalsAreOnTime /\ ProductsAreFound /\ ViewsCount
    BY DEF InOrder
  <2>1. Tidy("idle", None) /\ "idle" \notin HasInHand
    BY DEF TidyInv, HasInHand
  <2>2. Settled({}, {}) /\ RowsInOrder
    BY <2>1, TidySettled
  <2>3. ASSUME NEW p \in Products, LiveProduct(p)
        PROVE  /\ entry[p] # None <=> product[p].due # NoMoment
               /\ entry[p] # None =>
                     job[entry[p]] = [state |-> "delayed", product |-> p, at |-> product[p].due]
    <3>1. HasJob(p) \/ HasNone(p)
      BY <2>2, <2>3 DEF Settled
    <3>2. QED
      BY <3>1, CatalogAssumption DEF HasJob, HasNone, IsDue
  <2>4. RemovalsAreOnTime
    BY <2>2, <2>3 DEF Settled, RemovalsAreOnTime
  <2>5. QED
    BY <2>2, <2>4 DEF RowsInOrder
<1>2. QED
  BY <1>1, Invariance, TidyInvariance, PTL

=============================================================================
