-------------------------------- MODULE Shop --------------------------------
(***************************************************************************)
(* The handlers of the catalogue, the ratings, the shipping rates and the  *)
(* reports, in one process.                                                *)
(***************************************************************************)
EXTENDS Catalog, Ratings, Shipping, Analytics

vars == <<requestVars, alone, catalogVars, ratingVars, shippingVars, analyticsVars>>

TypeOK ==
    /\ RequestsOK(CatalogSteps \cup RatingSteps \cup ShippingSteps \cup AnalyticsSteps,
                  CatalogArgs \cup RatingArgs \cup ShippingArgs \cup AnalyticsArgs)
    /\ CatalogOK /\ RatingsOK /\ ShippingOK /\ AnalyticsOK

Init == RequestsInit /\ CatalogInit /\ RatingsInit /\ ShippingInit /\ AnalyticsInit

(* A handler, or a worker, takes a step; or something else happens.        *)
HandlerStep == alone' = (alone /\ Cardinality(Busy') + Cardinality(Removing') <= 1)
OutsideStep == alone' = (alone /\ Busy = {} /\ Removing = {})

CatalogNext ==
    /\ UNCHANGED <<ratingVars, shippingVars, analyticsVars>>
    /\ \/ \E r \in Requests : (CatalogArrive(r) \/ CatalogContinue(r)) /\ HandlerStep
       \/ CatalogWorker /\ HandlerStep
       \/ Tick /\ OutsideStep

RatingsNext ==
    /\ UNCHANGED <<catalogVars, shippingVars, analyticsVars>>
    /\ \/ \E r \in Requests : (RatingsArrive(r) \/ RatingsContinue(r)) /\ HandlerStep
       \/ RatingsOutside /\ OutsideStep

ShippingNext ==
    /\ UNCHANGED <<catalogVars, ratingVars, analyticsVars>>
    /\ \E r \in Requests : (ShippingArrive(r) \/ ShippingContinue(r)) /\ HandlerStep

AnalyticsNext ==
    /\ UNCHANGED <<catalogVars, ratingVars, shippingVars>>
    /\ \/ \E r \in Requests :
             (FiguresArrive(r) \/ DeletionsArrive(r) \/ AnalyticsContinue(r)) /\ HandlerStep
       \/ AnalyticsOutside /\ OutsideStep

HandlersEnd == \E r \in Requests :
    \/ /\ Answered(r) \/ LogOperation(r)
       /\ UNCHANGED <<alone, catalogVars, ratingVars, shippingVars, analyticsVars>>
    \/ /\ AnswerTwice(r)
       /\ Stalled
       /\ UNCHANGED <<alone, now, category, product, entry, promo, viewings, renamed, early>>
       /\ UNCHANGED <<ratingVars, shippingVars, analyticsVars>>

Next == CatalogNext \/ RatingsNext \/ ShippingNext \/ AnalyticsNext \/ HandlersEnd

Spec == Init /\ [][Next]_vars

=============================================================================
