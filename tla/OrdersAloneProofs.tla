------------------------- MODULE OrdersAloneProofs -------------------------
(***************************************************************************)
(* What is proved of orders and refunds while handlers run one at a time.  *)
(***************************************************************************)
EXTENDS OrdersAlone, OrdersProofs, FiniteSetTheorems

LEMMA InvStep == IInv /\ [Next]_vars => IInv'
  BY TypeStep, MilestonesStep, RememberStep, PaidStep, RowStep, RowsStep, SalesStep DEF IInv

LEMMA AloneStep == [AloneNext]_<<vars, alone>> => [Next]_vars
  BY DEF AloneNext, Step, Next

-----------------------------------------------------------------------------
(* While handlers run one at a time, the one that takes a step is alone.   *)
LEMMA OneMember == ASSUME NEW S, IsFiniteSet(S), Cardinality(S) <= 1, NEW x \in S, NEW y \in S
                   PROVE  x = y
<1> SUFFICES ASSUME x # y PROVE FALSE
  OBVIOUS
<1>1. IsFiniteSet({x}) /\ Cardinality({x}) = 1
  BY FS_Singleton
<1>2. Cardinality({x} \cup {y}) = 2
  BY <1>1, FS_AddElement, SMTT(60)
<1>3. Cardinality({x} \cup {y}) <= Cardinality(S)
  BY FS_Subset
<1>4. Cardinality(S) \in Nat
  BY FS_CardinalityType
<1>5. QED
  BY <1>2, <1>3, <1>4

LEMMA SolitudeStep == Solitude /\ [AloneNext]_<<vars, alone>> => Solitude'
<1> SUFFICES ASSUME Solitude, [AloneNext]_<<vars, alone>>, alone'
             PROVE  \A r, q \in Busy' : r = q
  BY DEF Solitude
<1>1. CASE UNCHANGED <<vars, alone>>
  BY <1>1 DEF vars, Solitude, Busy
<1>2. CASE AloneNext
  <2>1. Cardinality(Busy') <= 1
    BY <1>2 DEF AloneNext
  <2>2. IsFiniteSet(Busy')
    BY FiniteAssumption, FS_Subset DEF Busy
  <2>3. QED
    <3> HIDE DEF Busy
    <3> QED BY <2>1, <2>2, OneMember
<1>3. QED
  BY <1>1, <1>2

HandlerStep(r) == Arrive(r) \/ Decide(r) \/ Continue(r) \/ DestroyPurchase(r)

(* The others are idle before and after the step of one.                   *)
LEMMA Others ==
    ASSUME IInv, Solitude, Solitude', alone, alone', NEW r \in Requests, HandlerStep(r)
    PROVE  \A q \in Requests \ {r} : pc[q] = "idle" /\ pc'[q] = "idle"
<1>1. TypeOK /\ SalesAreSound
  BY DEF IInv
<1>2. (\A q \in Requests \ {r} : pc'[q] = pc[q]) /\ (pc[r] # "idle" \/ pc'[r] # "idle")
  <2>1. CASE Arrive(r)
    BY <1>1, <2>1 DEF TypeOK, Arrive, MarkRead, RateRead, RefundRead, Begin
  <2>2. CASE Decide(r)
    BY <1>1, <2>2 DEF TypeOK, Decide, HandleRead, HandleBegin, Begin
  <2>3. CASE Continue(r)
    BY <1>1, <2>3 DEF TypeOK, Continue, MarkSave, RateWrite, RefundStripe, RefundUpdate, RefundFind,
        RefundInsert, HandleStripe, HandleUpdate, HandlePurchases, HandleDestroyed,
        HandleWrite, HandleEmail, RefundPayment, Proceed, Finish
  <2>4. CASE DestroyPurchase(r)
    BY <1>1, <2>4 DEF TypeOK, DestroyPurchase, SalesAreSound
  <2>5. QED
    BY <2>1, <2>2, <2>3, <2>4 DEF HandlerStep
<1>3. QED
  BY <1>2 DEF Solitude, Busy

(* The parts of the invariant, of the one handler there may be.            *)
Updates == {"refund.update", "handle.update"}
Closes  == {"handle.purchases", "handle.destroy", "handle.write"}

MoneyOf(r) ==
    /\ pc[r] \in Updates =>
          refunded[arg[r].order] = IF arg[r].amount = 0 THEN Total ELSE arg[r].amount
    /\ \A o \in Orders :
          \/ refunded[o] > 0 <=> status[o] \in RefundStatuses
          \/ pc[r] \in Updates /\ arg[r].order = o
    /\ \A o \in Orders : status[o] = "partially-refunded" => refunded[o] \in Amounts

RowsDiffer == \A p, q \in Rows :
    refundRow[p].order # None /\ refundRow[p].order = refundRow[q].order => p = q

RowsOfOne(r) ==
    /\ RowsDiffer
    /\ \A q \in Rows :
          /\ refundRow[q].status = "denied" => status[refundRow[q].order] = "delivered"
          /\ refundRow[q].status = "pending" =>
                \/ status[refundRow[q].order] = "delivered"
                \/ pc[r] \in Closes /\ arg[r].row = q

LEMMA OfOne ==
    ASSUME alone, NEW r \in Requests, \A q \in Requests \ {r} : pc[q] = "idle"
    PROVE  /\ ReadingsHold <=> StatusKnown(r) /\ RowKnown(r)
           /\ MoneyAgrees <=> MoneyOf(r)
           /\ RowsAgree <=> RowsOfOne(r)
<1>1. ReadingsHold <=> StatusKnown(r) /\ RowKnown(r)
  BY DEF ReadingsHold, StatusKnown, RowKnown
<1>2. MoneyAgrees <=> MoneyOf(r)
  BY DEF MoneyAgrees, MoneyOf, Moving, Updates
<1>3. RowsAgree <=> RowsOfOne(r)
  BY DEF RowsAgree, RowsOfOne, RowsDiffer, Closing, Closes
<1>4. QED
  BY <1>1, <1>2, <1>3

LEMMA OfOneNext ==
    ASSUME alone', NEW r \in Requests, \A q \in Requests \ {r} : pc'[q] = "idle"
    PROVE  /\ ReadingsHold' <=> (StatusKnown(r) /\ RowKnown(r))'
           /\ MoneyAgrees' <=> MoneyOf(r)'
           /\ RowsAgree' <=> RowsOfOne(r)'
<1>1. ReadingsHold' <=> (StatusKnown(r) /\ RowKnown(r))'
  BY DEF ReadingsHold, StatusKnown, RowKnown
<1>2. MoneyAgrees' <=> MoneyOf(r)'
  BY DEF MoneyAgrees, MoneyOf, Moving, Updates
<1>3. RowsAgree' <=> RowsOfOne(r)'
  BY DEF RowsAgree, RowsOfOne, RowsDiffer, Closing, Closes
<1>4. QED
  BY <1>1, <1>2, <1>3

-----------------------------------------------------------------------------
LEMMA MoneyStep ==
    ASSUME IInv, NEW r \in Requests, HandlerStep(r), StatusKnown(r), MoneyOf(r)
    PROVE  MoneyOf(r)'
<1>1. TypeOK /\ HandlersRemember
  BY DEF IInv
<1>2. refunded \in [Orders -> Nat] /\ Total \in Nat \ {0} /\ Amounts \subseteq Nat \ {0}
  BY <1>1, TotalAssumption, AmountsAssumption DEF TypeOK
<1>3. pc[r] # "idle" => arg[r].order \in Orders /\ arg[r].amount \in Amounts \cup {0}
  BY <1>1, Records DEF TypeOK, HandlersRemember
<1>4. ASSUME UNCHANGED <<status, refunded>>, pc[r] \notin Updates, pc'[r] \notin Updates
      PROVE  MoneyOf(r)'
  BY <1>4 DEF MoneyOf
<1>5. ASSUME Begin(r, arg'[r], pc'[r]), pc'[r] \notin Updates, UNCHANGED <<status, refunded>>
      PROVE  MoneyOf(r)'
  BY <1>4, <1>5 DEF Begin, Updates
<1>6. CASE Arrive(r)
  <2>1. UNCHANGED <<status, refunded>> /\ pc[r] = "idle" /\ pc'[r] \notin Updates
    BY <1>1, <1>6 DEF Arrive, MarkRead, RateRead, RefundRead, Begin, TypeOK, Updates, money
  <2>2. QED
    BY <1>4, <2>1 DEF Updates
<1>7. CASE Decide(r)
  <2>1. UNCHANGED <<status, refunded>> /\ pc[r] = "idle" /\ pc'[r] \notin Updates
    BY <1>1, <1>7 DEF Decide, HandleRead, HandleBegin, Begin, TypeOK, Updates, money
  <2>2. QED
    BY <1>4, <2>1 DEF Updates
<1>8. CASE MarkSave(r)
  <2> DEFINE o == arg[r].order
             to == arg[r].to
  <2>1. pc[r] = "mark.save" /\ o \in Orders /\ to \in Targets /\ pc'[r] = "idle"
    BY <1>1, <1>3, <1>8 DEF MarkSave, HandlersRemember, Finish, TypeOK
  <2>2. status' = [status EXCEPT ![o] = to] /\ refunded' = refunded
    BY <1>8 DEF MarkSave, SetStatus, money
  <2>3. status[o] \notin RefundStatuses
    BY <2>1 DEF StatusKnown, MayMark, RefundStatuses
  <2>4. to \notin RefundStatuses
    BY <2>1 DEF Targets, RefundStatuses
  <2> HIDE DEF o, to
  <2>5. QED
    BY <1>1, <2>1, <2>2, <2>3, <2>4 DEF MoneyOf, TypeOK, Updates, RefundStatuses
<1>9. CASE RefundStripe(r) \/ HandleStripe(r)
  <2> DEFINE o == arg[r].order
             a == arg[r].amount
  <2>1. /\ pc[r] \in {"refund.stripe", "handle.stripe"} /\ o \in Orders /\ a \in Amounts \cup {0}
        /\ UNCHANGED status
    BY <1>3, <1>9 DEF RefundStripe, HandleStripe, RefundPayment
  <2>2. CASE UNCHANGED refunded /\ Finish(r)
    <3>1. pc'[r] = "idle"
      BY <1>1, <2>2 DEF Finish, TypeOK
    <3>2. QED
      BY <1>4, <2>1, <2>2, <3>1 DEF Updates
  <2>3. CASE Return(o, a) /\ pc'[r] \in Updates /\ arg' = arg
    <3>1. status[o] \notin RefundStatuses
      BY <2>1 DEF StatusKnown, RefundStatuses
    <3>2. refunded[o] = 0
      BY <1>2, <2>1, <3>1 DEF MoneyOf, Updates
    <3> HIDE DEF o, a
    <3>3. a \in Nat /\ 0 + a = a
      BY <1>2, <2>1
    <3>4. refunded'[o] = (IF a = 0 THEN Total ELSE a)
          /\ \A p \in Orders : p # o => refunded'[p] = refunded[p]
      BY <1>2, <2>1, <2>3, <3>2, <3>3 DEF Return
    <3> USE DEF o, a
    <3>5. QED
      BY <2>1, <2>3, <3>1, <3>4 DEF MoneyOf, Updates, RefundStatuses
  <2>4. QED
    <3>1. ASSUME NEW at, NEW next \in Updates, RefundPayment(r, at, next)
          PROVE  (UNCHANGED refunded /\ Finish(r)) \/ (Return(o, a) /\ pc'[r] \in Updates /\ arg' = arg)
      BY <1>1, <3>1 DEF RefundPayment, Proceed, TypeOK
    <3>2. (UNCHANGED refunded /\ Finish(r)) \/ (Return(o, a) /\ pc'[r] \in Updates /\ arg' = arg)
      BY <1>9, <3>1 DEF RefundStripe, HandleStripe, Updates
    <3>3. QED
      BY <2>2, <2>3, <3>2
<1>10. CASE RefundUpdate(r) \/ HandleUpdate(r)
  <2> DEFINE o == arg[r].order
             a == arg[r].amount
  <2>1. /\ pc[r] \in Updates /\ o \in Orders /\ a \in Amounts \cup {0} /\ pc'[r] \notin Updates
        /\ status' = [status EXCEPT ![o] = PaidBackStatus(a)] /\ UNCHANGED refunded
    BY <1>1, <1>3, <1>10
    DEF RefundUpdate, HandleUpdate, Proceed, Finish, SetStatus, money, Updates, TypeOK
  <2>2. refunded[o] = (IF a = 0 THEN Total ELSE a)
        /\ \A p \in Orders : p # o => (refunded[p] > 0 <=> status[p] \in RefundStatuses)
    BY <2>1 DEF MoneyOf
  <2>3. \A p \in Orders : status'[p] = IF p = o THEN PaidBackStatus(a) ELSE status[p]
    BY <1>1, <2>1 DEF TypeOK
  <2> HIDE DEF o, a
  <2>4. refunded[o] > 0 /\ PaidBackStatus(a) \in RefundStatuses
        /\ (PaidBackStatus(a) = "partially-refunded" => refunded[o] \in Amounts)
    BY <1>2, <2>1, <2>2 DEF PaidBackStatus, RefundStatuses
  <2>5. QED
    BY <2>1, <2>2, <2>3, <2>4 DEF MoneyOf
<1>11. CASE DestroyPurchase(r)
  BY <1>11 DEF DestroyPurchase, money, MoneyOf
<1>12. CASE RateWrite(r) \/ RefundFind(r) \/ RefundInsert(r) \/ HandlePurchases(r)
            \/ HandleDestroyed(r) \/ HandleWrite(r) \/ HandleEmail(r)
  <2>1. UNCHANGED <<status, refunded>> /\ pc[r] \notin Updates /\ pc'[r] \notin Updates
    BY <1>1, <1>12 DEF RateWrite, RefundFind, RefundInsert, HandlePurchases, HandleDestroyed,
       HandleWrite, HandleEmail, Proceed, Finish, TypeOK, Updates, money
  <2>2. QED
    BY <1>4, <2>1
<1>13. QED
  BY <1>6, <1>7, <1>8, <1>9, <1>10, <1>11, <1>12 DEF HandlerStep, Continue

-----------------------------------------------------------------------------
LEMMA OneRowStep ==
    ASSUME IInv, NEW r \in Requests, HandlerStep(r), StatusKnown(r), RowKnown(r), RowsOfOne(r)
    PROVE  RowsOfOne(r)'
<1>1. TypeOK /\ HandlersRemember /\ HandlersKnowTheirRow /\ RowsAreSound
  BY DEF IInv
<1>2. /\ pc[r] # "idle" => arg[r].order \in Orders
      /\ \A q \in Rows : refundRow[q].status # "none" => refundRow[q].order \in Orders
  <2>1. \A q \in Rows : refundRow[q].order \in Orders \cup {None}
    BY <1>1, Records DEF TypeOK
  <2>2. QED
    BY <1>1, <2>1 DEF HandlersRemember, RowsAreSound
<1>3. ASSUME UNCHANGED <<status, refundRow>>, pc[r] \in Closes => pc'[r] \in Closes /\ arg'[r] = arg[r]
      PROVE  RowsOfOne(r)'
  BY <1>3 DEF RowsOfOne, RowsDiffer
<1>4. CASE Arrive(r) \/ Decide(r)
  <2>1. UNCHANGED <<status, refundRow>> /\ pc[r] = "idle"
    BY <1>4 DEF Arrive, Decide, MarkRead, RateRead, RefundRead, HandleRead, HandleBegin, Begin, money
  <2>2. QED
    BY <1>3, <2>1 DEF Closes
<1>5. CASE RateWrite(r) \/ RefundStripe(r) \/ HandleStripe(r) \/ RefundFind(r) \/ HandleEmail(r)
  <2>1. UNCHANGED <<status, refundRow>> /\ pc[r] \notin Closes
    BY <1>5 DEF RateWrite, RefundStripe, HandleStripe, RefundPayment, RefundFind, HandleEmail,
                Proceed, Closes, money
  <2>2. QED
    BY <1>3, <2>1
<1>6. CASE HandlePurchases(r) \/ HandleDestroyed(r)
  <2>1. UNCHANGED <<status, refundRow>> /\ pc'[r] \in Closes /\ arg' = arg
    BY <1>1, <1>6 DEF HandlePurchases, HandleDestroyed, Proceed, Closes, money, TypeOK
  <2>2. QED
    BY <1>3, <2>1
<1>7. CASE DestroyPurchase(r)
  BY <1>3, <1>7 DEF DestroyPurchase, money
(* A status changes of an order without a row that rests on it.            *)
<1>8. ASSUME NEW s, SetStatus(arg[r].order, s), UNCHANGED refundRow, pc[r] \notin Closes,
             arg[r].order \in Orders, status[arg[r].order] # "delivered"
      PROVE  RowsOfOne(r)'
  <2>1. \A o \in Orders : o # arg[r].order => status'[o] = status[o]
    BY <1>1, <1>8 DEF SetStatus, TypeOK
  <2>2. ASSUME NEW q \in Rows, refundRow[q].status \in {"denied", "pending"}
        PROVE  status'[refundRow[q].order] = "delivered"
    BY <1>2, <1>8, <2>1, <2>2 DEF RowsOfOne
  <2>3. QED
    BY <1>8, <2>2 DEF RowsOfOne, RowsDiffer
<1>9. CASE MarkSave(r)
  <2>1. pc[r] = "mark.save" /\ arg[r].order \in Orders /\ SetStatus(arg[r].order, arg[r].to)
        /\ UNCHANGED refundRow
    BY <1>2, <1>9 DEF MarkSave, money
  <2>2. status[arg[r].order] # "delivered"
    BY <2>1 DEF StatusKnown, MayMark
  <2>3. QED
    BY <1>8, <2>1, <2>2 DEF Closes
<1>10. CASE RefundUpdate(r)
  <2>1. pc[r] = "refund.update" /\ arg[r].order \in Orders
        /\ SetStatus(arg[r].order, PaidBackStatus(arg[r].amount)) /\ UNCHANGED refundRow
    BY <1>2, <1>10 DEF RefundUpdate, money
  <2>2. status[arg[r].order] # "delivered"
    BY <2>1 DEF StatusKnown
  <2>3. QED
    BY <1>8, <2>1, <2>2 DEF Closes
<1>11. CASE HandleUpdate(r)
  <2>1. /\ pc[r] = "handle.update" /\ pc'[r] \in Closes /\ arg' = arg /\ UNCHANGED refundRow
        /\ arg[r].order \in Orders
        /\ \A o \in Orders : o # arg[r].order => status'[o] = status[o]
    BY <1>1, <1>2, <1>11 DEF HandleUpdate, Proceed, SetStatus, Closes, money, TypeOK
  <2>2. /\ arg[r].row \in Rows /\ refundRow[arg[r].row].order = arg[r].order
        /\ refundRow[arg[r].row].status = "pending"
    BY <1>1, <2>1 DEF HandlersKnowTheirRow, RowKnown
  <2>3. \A q \in Rows : refundRow[q].order = arg[r].order => q = arg[r].row
    BY <1>2, <2>1, <2>2, NoneAssumption DEF RowsOfOne, RowsDiffer
  <2>4. \A q \in Rows : q # arg[r].row /\ refundRow[q].status # "none" =>
            status'[refundRow[q].order] = status[refundRow[q].order]
    BY <1>2, <2>1, <2>3
  <2>5. RowsDiffer'
    BY <2>1 DEF RowsOfOne, RowsDiffer
  <2>6. ASSUME NEW q \in Rows, refundRow'[q].status \in {"denied", "pending"}
        PROVE  \/ q = arg[r].row /\ refundRow'[q].status = "pending"
               \/ status'[refundRow[q].order] = "delivered"
    BY <2>1, <2>2, <2>4, <2>6 DEF RowsOfOne, Closes
  <2>7. QED
    BY <2>1, <2>5, <2>6 DEF RowsOfOne
<1>12. CASE HandleWrite(r)
  <2>1. /\ pc[r] = "handle.write" /\ arg' = arg /\ UNCHANGED status
        /\ refundRow' = [refundRow EXCEPT ![arg[r].row].status = arg[r].to]
        /\ arg[r].row \in Rows /\ arg[r].to \in Verdicts
        /\ refundRow[arg[r].row].order = arg[r].order
    BY <1>1, <1>12 DEF HandleWrite, Proceed, HandlersKnowTheirRow
  <2>2. /\ \A q \in Rows : refundRow'[q].order = refundRow[q].order
        /\ \A q \in Rows : q # arg[r].row => refundRow'[q] = refundRow[q]
        /\ refundRow'[arg[r].row].status = arg[r].to
    <3>1. \A row \in RefundRow : \A to : /\ [row EXCEPT !.status = to].order = row.order
                                         /\ [row EXCEPT !.status = to].status = to
      BY DEF RefundRow
    <3>2. refundRow \in [Rows -> RefundRow]
      BY <1>1 DEF TypeOK
    <3>3. \A q \in Rows : refundRow'[q] = IF q = arg[r].row THEN [refundRow[q] EXCEPT !.status = arg[r].to]
                                                            ELSE refundRow[q]
      BY <2>1, <3>2
    <3>4. QED
      BY <2>1, <3>1, <3>2, <3>3
  <2>3. RowsDiffer'
    BY <2>2 DEF RowsOfOne, RowsDiffer
  <2>4. arg[r].to = "denied" => status'[refundRow'[arg[r].row].order] = "delivered"
    BY <2>1, <2>2 DEF StatusKnown
  <2>5. QED
    BY <2>1, <2>2, <2>3, <2>4 DEF RowsOfOne, Verdicts
<1>13. CASE RefundInsert(r)
  <2>1. /\ pc[r] = "refund.insert" /\ UNCHANGED status /\ arg[r].order \in Orders
        /\ RowsOf(arg[r].order) = {} /\ status[arg[r].order] = "delivered"
    BY <1>2, <1>13 DEF RefundInsert, StatusKnown, RowKnown
  <2>2. PICK q \in Rows : refundRow' = [refundRow EXCEPT ![q] =
             [order |-> arg[r].order, amount |-> arg[r].amount, status |-> "pending"]]
    BY <1>13 DEF RefundInsert
  <2>3. /\ refundRow'[q].order = arg[r].order /\ refundRow'[q].status = "pending"
        /\ \A p \in Rows : p # q => refundRow'[p] = refundRow[p]
    BY <1>1, <2>2 DEF TypeOK
  <2>4. \A p \in Rows : refundRow[p].order # arg[r].order
    BY <2>1 DEF RowsOf
  <2>5. RowsDiffer'
    BY <2>3, <2>4 DEF RowsOfOne, RowsDiffer
  <2>6. QED
    BY <2>1, <2>3, <2>5 DEF RowsOfOne, Closes
<1>14. QED
  BY <1>4, <1>5, <1>6, <1>7, <1>9, <1>10, <1>11, <1>12, <1>13 DEF HandlerStep, Continue

-----------------------------------------------------------------------------
LEMMA KnownStep ==
    ASSUME IInv, NEW r \in Requests, HandlerStep(r), StatusKnown(r), RowKnown(r), RowsOfOne(r)
    PROVE  (StatusKnown(r) /\ RowKnown(r))'
<1>1. TypeOK /\ HandlersRemember /\ HandlersKnowTheirRow
  BY DEF IInv
<1>2. ASSUME pc'[r] \in {"idle", "rate.write", "handle.email"}
      PROVE  (StatusKnown(r) /\ RowKnown(r))'
  BY <1>2 DEF StatusKnown, RowKnown
<1>3. ASSUME NEW o \in Orders, NEW to \in Targets, NEW c \in Couriers, NEW image \in ProofImages,
             MarkRead(r, o, to, c, image)
      PROVE  (StatusKnown(r) /\ RowKnown(r))'
  <2>1. pc'[r] = "mark.save" /\ arg'[r].order = o /\ arg'[r].to = to /\ arg'[r].image = image
    BY <1>1, <1>3 DEF MarkRead, Begin, TypeOK, NoArg
  <2>2. MayMark(o, to, image) /\ UNCHANGED <<status, safeShipping>>
    BY <1>3 DEF MarkRead, orderRow
  <2>3. MayMark(arg[r].order, arg[r].to, arg[r].image)'
    BY <2>1, <2>2 DEF MayMark
  <2>4. QED
    BY <2>1, <2>3 DEF StatusKnown, RowKnown
<1>4. ASSUME NEW o \in Orders, RateRead(r, o)
      PROVE  (StatusKnown(r) /\ RowKnown(r))'
  <2>1. pc'[r] = "rate.write"
    BY <1>1, <1>4 DEF RateRead, Begin, TypeOK
  <2>2. QED
    BY <1>2, <2>1
<1>5. ASSUME NEW o \in Orders, NEW amount \in Amounts \cup {0}, RefundRead(r, o, amount)
      PROVE  (StatusKnown(r) /\ RowKnown(r))'
  <2>1. /\ status'[o] = status[o] /\ status[o] \in {"pending", "delivered"} /\ arg'[r].order = o
        /\ pc'[r] = IF status[o] = "pending" THEN "refund.stripe" ELSE "refund.find"
    BY <1>1, <1>5 DEF RefundRead, Begin, TypeOK, NoArg
  <2>2. QED
    BY <2>1 DEF StatusKnown, RowKnown
<1>6. ASSUME NEW q \in Rows, NEW verdict \in Verdicts, HandleRead(r, q, verdict)
      PROVE  (StatusKnown(r) /\ RowKnown(r))'
  <2>1. /\ pc[r] = "idle" /\ refundRow[q].status = "pending" /\ UNCHANGED <<status, refundRow>>
        /\ arg'[r].order = refundRow[q].order /\ arg'[r].to = verdict /\ arg'[r].row = q
        /\ pc'[r] = IF verdict = "approved" THEN "handle.stripe" ELSE "handle.write"
    BY <1>1, <1>6 DEF HandleRead, HandleBegin, Begin, TypeOK, NoArg, money
  <2>2. status[refundRow[q].order] = "delivered"
    BY <2>1 DEF RowsOfOne, Closes
  <2>3. QED
    BY <2>1, <2>2 DEF StatusKnown, RowKnown, Verdicts
(* Calls that read or pay: the order and the row stay what they were.      *)
<1>7. ASSUME UNCHANGED <<status, refundRow>>, arg'[r] = arg[r],
             \/ <<pc[r], pc'[r]>> \in
                   {<<"refund.stripe", "refund.update">>, <<"handle.stripe", "handle.update">>,
                    <<"handle.purchases", "handle.write">>,
                    <<"handle.purchases", "handle.destroy">>,
                    <<"handle.destroy", "handle.write">>}
             \/ <<pc[r], pc'[r]>> = <<"refund.find", "refund.insert">> /\ RowsOf(arg[r].order) = {}
      PROVE  (StatusKnown(r) /\ RowKnown(r))'
  BY <1>7 DEF StatusKnown, RowKnown, RowsOf
<1>8. CASE RefundStripe(r) \/ HandleStripe(r)
  <2>1. UNCHANGED <<status, refundRow>>
    BY <1>8 DEF RefundStripe, HandleStripe
  <2>2. \/ pc'[r] = "idle"
        \/ /\ arg'[r] = arg[r]
           /\ <<pc[r], pc'[r]>> \in
                {<<"refund.stripe", "refund.update">>, <<"handle.stripe", "handle.update">>}
    BY <1>1, <1>8 DEF RefundStripe, HandleStripe, RefundPayment, Proceed, Finish, TypeOK
  <2>3. QED
    BY <1>2, <1>7, <2>1, <2>2
<1>9. CASE RefundFind(r)
  <2>1. \/ pc'[r] = "idle"
        \/ /\ arg'[r] = arg[r] /\ RowsOf(arg[r].order) = {}
           /\ <<pc[r], pc'[r]>> = <<"refund.find", "refund.insert">>
    BY <1>1, <1>9 DEF RefundFind, Proceed, Finish, TypeOK
  <2>2. QED
    BY <1>2, <1>7, <1>9, <2>1 DEF RefundFind, money
<1>10. CASE HandlePurchases(r) \/ HandleDestroyed(r)
  <2>1. /\ UNCHANGED <<status, refundRow>> /\ arg'[r] = arg[r]
        /\ <<pc[r], pc'[r]>> \in
              {<<"handle.purchases", "handle.write">>, <<"handle.purchases", "handle.destroy">>,
               <<"handle.destroy", "handle.write">>}
    BY <1>1, <1>10 DEF HandlePurchases, HandleDestroyed, Proceed, TypeOK, money
  <2>2. QED
    BY <1>7, <2>1
<1>11. CASE HandleUpdate(r)
  <2>1. /\ pc[r] = "handle.update" /\ pc'[r] = "handle.purchases" /\ arg' = arg
        /\ UNCHANGED refundRow /\ arg[r].order \in Orders
        /\ status'[arg[r].order] = PaidBackStatus(arg[r].amount)
    BY <1>1, <1>11 DEF HandleUpdate, Proceed, SetStatus, HandlersRemember, TypeOK, money
  <2>2. QED
    BY <2>1 DEF StatusKnown, RowKnown, PaidBackStatus, RefundStatuses
<1>12. CASE DestroyPurchase(r)
  <2>1. UNCHANGED <<status, safeShipping, refundRow, pc, arg>>
    BY <1>12 DEF DestroyPurchase, money, orderRow
  <2>2. QED
    BY <2>1 DEF StatusKnown, RowKnown, MayMark, RowsOf
<1>13. CASE MarkSave(r) \/ RateWrite(r) \/ RefundUpdate(r) \/ RefundInsert(r)
            \/ HandleWrite(r) \/ HandleEmail(r)
  <2>1. pc'[r] \in {"idle", "handle.email"}
    BY <1>1, <1>13 DEF MarkSave, RateWrite, RefundUpdate, RefundInsert, HandleWrite,
                       HandleEmail, Proceed, Finish, TypeOK
  <2>2. QED
    BY <1>2, <2>1
<1>14. CASE Arrive(r)
  BY <1>3, <1>4, <1>5, <1>14 DEF Arrive
<1>15. CASE Decide(r)
  BY <1>6, <1>15 DEF Decide
<1>16. QED
  BY <1>8, <1>9, <1>10, <1>11, <1>12, <1>13, <1>14, <1>15 DEF HandlerStep, Continue


-----------------------------------------------------------------------------
(* The steps that no handler takes.                                        *)
LEMMA RestStep ==
    ASSUME ReadingsHold, MoneyAgrees, RowsAgree,
           UNCHANGED <<status, safeShipping, refunded, refundRow, pc, arg, alone>>
    PROVE  ReadingsHold' /\ MoneyAgrees' /\ RowsAgree'
<1>1. ReadingsHold'
  BY DEF ReadingsHold, StatusKnown, RowKnown, MayMark, RowsOf
<1>2. MoneyAgrees'
  BY DEF MoneyAgrees, Moving
<1>3. RowsAgree'
  BY DEF RowsAgree, Closing
<1>4. QED
  BY <1>1, <1>2, <1>3

LEMMA CreateStep ==
    ASSUME IInv, ReadingsHold, MoneyAgrees, RowsAgree, alone, NEW o \in Orders, CreateOrder(o)
    PROVE  ReadingsHold' /\ MoneyAgrees' /\ RowsAgree'
<1>1. TypeOK /\ MilestonesInOrder /\ HandlersRemember /\ RowsAreSound
  BY DEF IInv
<1>2. /\ status[o] = "absent" /\ status' = [status EXCEPT ![o] = "pending"]
      /\ UNCHANGED <<refunded, refundRow, pc, arg>>
      /\ \A p \in Orders : p # o => status'[p] = status[p] /\ safeShipping'[p] = safeShipping[p]
  BY <1>1 DEF CreateOrder, SetStatus, TypeOK, money
<1>3. reached[o] = {}
  BY <1>1, <1>2 DEF MilestonesInOrder, MilestonesOf
<1>4. ASSUME NEW r \in Requests, pc[r] # "idle"
      PROVE  arg[r].order \in Orders /\ arg[r].order # o
  BY <1>1, <1>3, <1>4 DEF HandlersRemember
<1>5. ASSUME NEW q \in Rows, refundRow[q].status # "none"
      PROVE  status'[refundRow[q].order] = status[refundRow[q].order]
  <2>1. refundRow[q].order \in Orders \cup {None} /\ refundRow[q].order # None
    BY <1>1, <1>5, Records DEF RowsAreSound, TypeOK
  <2>2. QED
    BY <1>1, <1>2, <1>3, <1>5, <2>1 DEF RowsAreSound
<1>6. ReadingsHold'
  <2> SUFFICES ASSUME NEW r \in Requests, pc[r] # "idle"
               PROVE  (StatusKnown(r) /\ RowKnown(r))'
    BY <1>2 DEF ReadingsHold, StatusKnown, RowKnown
  <2>1. /\ status'[arg[r].order] = status[arg[r].order]
        /\ safeShipping'[arg[r].order] = safeShipping[arg[r].order]
    BY <1>2, <1>4
  <2>2. QED
    BY <1>2, <2>1 DEF ReadingsHold, StatusKnown, RowKnown, MayMark, RowsOf
<1>7. MoneyAgrees'
  <2>1. ~Moving(o)
    BY <1>4 DEF Moving
  <2>2. ~(refunded[o] > 0)
    BY <1>2, <2>1 DEF MoneyAgrees, RefundStatuses
  <2>3. status'[o] = "pending"
    BY <1>1, <1>2 DEF TypeOK
  <2>4. QED
    BY <1>2, <2>2, <2>3 DEF MoneyAgrees, Moving, RefundStatuses
<1>8. RowsAgree'
  BY <1>2, <1>5 DEF RowsAgree, Closing
<1>9. QED
  BY <1>6, <1>7, <1>8

-----------------------------------------------------------------------------
LEMMA InitAlone == AloneInit => AloneInv
<1> SUFFICES ASSUME AloneInit PROVE AloneInv
  OBVIOUS
<1> USE DEF AloneInit, Init, NoRow
<1>1. IInv /\ alone \in BOOLEAN
  BY InitInvariant
<1>2. Solitude
  BY DEF Solitude, Busy
<1>3. ReadingsHold
  BY DEF ReadingsHold, StatusKnown, RowKnown
<1>4. MoneyAgrees
  BY DEF MoneyAgrees, Moving, RefundStatuses
<1>5. RowsAgree
  BY DEF RowsAgree
<1>6. QED
  BY <1>1, <1>2, <1>3, <1>4, <1>5 DEF AloneInv

LEMMA AloneBefore ==
    ASSUME alone \in BOOLEAN, [AloneNext]_<<vars, alone>>
    PROVE  alone' \in BOOLEAN /\ (alone' => alone)
<1>1. CASE UNCHANGED alone
  BY <1>1
<1>2. CASE alone' = (alone /\ Cardinality(Busy') <= 1)
  <2> HIDE DEF Busy
  <2> QED BY <1>2, Zenon
<1>3. CASE alone' = FALSE
  BY <1>3
<1>4. QED
  BY <1>1, <1>2, <1>3 DEF AloneNext

LEMMA NextAlone == AloneInv /\ [AloneNext]_<<vars, alone>> => AloneInv'
<1> SUFFICES ASSUME AloneInv, [AloneNext]_<<vars, alone>> PROVE AloneInv'
  OBVIOUS
<1>1. IInv /\ IInv' /\ Solitude /\ Solitude' /\ ReadingsHold /\ MoneyAgrees /\ RowsAgree
  BY AloneStep, InvStep, SolitudeStep DEF AloneInv
<1>2. alone' \in BOOLEAN /\ (alone' => alone)
  BY AloneBefore DEF AloneInv
<1>3. CASE ~alone'
  BY <1>1, <1>2, <1>3 DEF AloneInv, ReadingsHold, MoneyAgrees, RowsAgree
<1>4. CASE alone'
  <2>1. alone /\ alone' /\ UNCHANGED alone
    BY <1>2, <1>4 DEF AloneInv
  <2>2. CASE UNCHANGED vars
    BY <1>1, <2>1, <2>2, RestStep DEF AloneInv, vars, orderRow, money
  <2>3. ASSUME NEW o \in Orders, CreateOrder(o) PROVE AloneInv'
    BY <1>1, <1>2, <2>1, <2>3, CreateStep DEF AloneInv
  <2>4. ASSUME NEW o \in Orders, RecordPurchase(o) PROVE AloneInv'
    BY <1>1, <1>2, <2>1, <2>4, RestStep DEF AloneInv, RecordPurchase, orderRow, money
  <2>5. ASSUME NEW r \in Requests, HandlerStep(r) PROVE AloneInv'
    <3>1. \A q \in Requests \ {r} : pc[q] = "idle" /\ pc'[q] = "idle"
      BY <1>1, <2>1, <2>5, Others
    <3>2. StatusKnown(r) /\ RowKnown(r) /\ MoneyOf(r) /\ RowsOfOne(r)
      BY <1>1, <2>1, <3>1, OfOne
    <3>3. (StatusKnown(r) /\ RowKnown(r))' /\ MoneyOf(r)' /\ RowsOfOne(r)'
      BY <1>1, <2>5, <3>2, KnownStep, MoneyStep, OneRowStep
    <3>4. ReadingsHold' /\ MoneyAgrees' /\ RowsAgree'
      BY <2>1, <3>1, <3>3, OfOneNext
    <3>5. QED
      BY <1>1, <1>2, <3>4 DEF AloneInv
  <2>6. QED
    BY <1>4, <2>2, <2>3, <2>4, <2>5 DEF AloneNext, Step, HandlerStep
<1>5. QED
  BY <1>3, <1>4

(* What handlers that run one at a time can rely on, for any number of     *)
(* orders, slots and rows: what markOrder, createRefundRequest and         *)
(* handleRefundRequest have read holds until they write, money and status  *)
(* agree but for the one call between them, and an order has one row.      *)
THEOREM AloneInvariance == AloneSpec => []AloneInv
<1>1. AloneInit => AloneInv
  BY InitAlone
<1>2. AloneInv /\ [AloneNext]_<<vars, alone>> => AloneInv'
  BY NextAlone
<1>3. QED
  BY <1>1, <1>2, PTL DEF AloneSpec

(* createRefundRequest's findOrCreate keeps an order to one refund request *)
(* while handlers do not overlap, although no unique index backs it.       *)
THEOREM OneRow == AloneSpec => []OneRowPerOrder
<1>1. AloneInv => OneRowPerOrder
  <2> SUFFICES ASSUME AloneInv, alone, NEW o \in Orders
               PROVE  Cardinality(RowsOf(o)) <= 1
    BY DEF OneRowPerOrder
  <2>1. \A p, q \in RowsOf(o) : p = q
    BY NoneAssumption DEF AloneInv, RowsAgree, RowsOf
  <2>2. CASE RowsOf(o) = {}
    BY <2>2, FS_EmptySet
  <2>3. CASE RowsOf(o) # {}
    <3>1. PICK q \in RowsOf(o) : RowsOf(o) = {q}
      BY <2>1, <2>3
    <3>2. Cardinality({q}) = 1
      BY FS_Singleton
    <3>3. QED
      BY <3>1, <3>2
  <2>4. QED
    BY <2>2, <2>3
<1>2. QED
  BY <1>1, AloneInvariance, PTL

(* Between two handlers that did not overlap and did not fail, an order is *)
(* in a refund status exactly if refundPayment has moved money for it, and *)
(* no denied request was paid.                                             *)
THEOREM LedgerTrue == AloneSpec => []LedgerAgrees
<1>1. AloneInv => LedgerAgrees
  <2> SUFFICES ASSUME AloneInv, alone, Busy = {}, NEW o \in Orders
               PROVE  /\ refunded[o] > 0 <=> status[o] \in RefundStatuses
                      /\ status[o] = "partially-refunded" => refunded[o] \in Amounts
                      /\ \A q \in RowsOf(o) : refundRow[q].status = "denied" => refunded[o] = 0
    BY DEF LedgerAgrees
  <2>1. ~Moving(o)
    BY DEF Moving, Busy
  <2>2. /\ refunded[o] > 0 <=> status[o] \in RefundStatuses
        /\ status[o] = "partially-refunded" => refunded[o] \in Amounts
    BY <2>1 DEF AloneInv, MoneyAgrees
  <2>3. refunded[o] \in Nat
    BY TotalAssumption DEF AloneInv, IInv, TypeOK
  <2>4. ASSUME NEW q \in RowsOf(o), refundRow[q].status = "denied" PROVE refunded[o] = 0
    <3>1. status[o] = "delivered"
      BY <2>4 DEF RowsOf, AloneInv, RowsAgree
    <3>2. QED
      BY <2>2, <2>3, <3>1 DEF RefundStatuses
  <2>5. QED
    BY <2>2, <2>4
<1>2. QED
  BY <1>1, AloneInvariance, PTL


(* While handlers do not overlap and do not fail, every change of status   *)
(* is one that OrderLifecycle allows: markOrder and the two handlers of    *)
(* refunds write from the status their guard has read.                     *)
THEOREM LifecycleFollowed == AloneSpec => FollowsLifecycle
<1>1. ASSUME AloneInv, [AloneNext]_<<vars, alone>>
      PROVE  [alone' => Lifecycle!Next]_(Lifecycle!vars)
  <2> SUFFICES ASSUME alone', ~UNCHANGED <<status, safeShipping>> PROVE Lifecycle!Next
    BY DEF Lifecycle!vars
  <2>1. TypeOK /\ HandlersRemember /\ ReadingsHold
    BY <1>1 DEF AloneInv, IInv
  <2>2. alone
    BY <1>1, AloneBefore DEF AloneInv
  <2>3. Step
    BY <1>1 DEF AloneNext, vars, orderRow
  <2>4. ASSUME NEW o \in Orders, CreateOrder(o) PROVE Lifecycle!Next
    BY <2>4 DEF CreateOrder, SetStatus, Lifecycle!Next, Lifecycle!Place
  <2>5. ASSUME NEW r \in Requests, MarkSave(r) PROVE Lifecycle!Next
    <3> DEFINE o == arg[r].order
               to == arg[r].to
    <3>1. /\ o \in Orders /\ to \in Targets /\ MayMark(o, to, arg[r].image)
          /\ status' = [status EXCEPT ![o] = to] /\ UNCHANGED safeShipping
      BY <2>1, <2>2, <2>5 DEF MarkSave, SetStatus, HandlersRemember, ReadingsHold, StatusKnown
    <3>2. \/ Lifecycle!Ship(o) \/ Lifecycle!AwaitPickup(o) \/ Lifecycle!HandOver(o)
          \/ Lifecycle!PickUp(o) \/ Lifecycle!GiveUp(o)
      BY <3>1 DEF MayMark, Lifecycle!Ship, Lifecycle!AwaitPickup, Lifecycle!HandOver,
                  Lifecycle!PickUp, Lifecycle!GiveUp, Lifecycle!Move
    <3>3. QED
      BY <3>1, <3>2 DEF Lifecycle!Next
  <2>6. ASSUME NEW r \in Requests, RefundUpdate(r) \/ HandleUpdate(r) PROVE Lifecycle!Next
    <3> DEFINE o == arg[r].order
               to == PaidBackStatus(arg[r].amount)
    <3>1. /\ o \in Orders /\ status[o] \in {"pending", "delivered"}
          /\ status' = [status EXCEPT ![o] = to] /\ UNCHANGED safeShipping
      BY <2>1, <2>2, <2>6 DEF RefundUpdate, HandleUpdate, Proceed, SetStatus, orderRow,
                        HandlersRemember, ReadingsHold, StatusKnown
    <3>2. to \in {"refunded", "partially-refunded"}
      BY DEF PaidBackStatus
    <3>3. Lifecycle!Refund(o)
      BY <3>1, <3>2 DEF Lifecycle!Refund, Lifecycle!Move
    <3>4. QED
      BY <3>1, <3>3 DEF Lifecycle!Next
  <2>7. QED
    BY <2>3, <2>4, <2>5, <2>6, ZenonT(60)
    DEF Step, Arrive, Decide, Continue, orderRow, RecordPurchase, MarkRead, RateRead,
        RefundRead, RefundStripe, RefundFind, RefundInsert, RateWrite, HandleRead, HandleBegin,
        HandleStripe, HandlePurchases, DestroyPurchase, HandleDestroyed, HandleWrite, HandleEmail
<1>2. QED
  BY <1>1, AloneInvariance, PTL DEF AloneSpec, FollowsLifecycle


=============================================================================
