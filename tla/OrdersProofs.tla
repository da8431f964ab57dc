---------------------------- MODULE OrdersProofs ----------------------------
(***************************************************************************)
(* What is proved of orders and refunds, however handlers interleave and   *)
(* fail: what each remembers was once true, and it has paid what it goes   *)
(* on to write (IInv); from which the promise of OrderPromise follows.     *)
(***************************************************************************)
EXTENDS OrdersProperties, TLAPS

LEMMA InitInvariant == Init => IInv
<1> SUFFICES ASSUME Init PROVE IInv
  OBVIOUS
<1> USE NoneAssumption, TotalAssumption, ItemsAssumption DEF Init
<1>1. TypeOK
  BY DEF TypeOK, Arg, NoArg, RefundRow, NoRow, Steps
<1>2. MilestonesInOrder
  BY DEF MilestonesInOrder, MilestonesOf
<1>3. HandlersRemember /\ HandlersHavePaid /\ HandlersKnowTheirRow
  BY DEF HandlersRemember, HandlersHavePaid, HandlersKnowTheirRow
<1>4. RowsAreSound
  BY DEF RowsAreSound, NoRow
<1>5. SalesAreSound
  BY DEF SalesAreSound, PurchasesLostToRefunds
<1>6. QED
  BY <1>1, <1>2, <1>3, <1>4, <1>5 DEF IInv

(* Records, once: the steps below take Arg and RefundRow as they are.      *)
LEMMA Records ==
    /\ NoArg \in Arg
    /\ \A a \in Arg : /\ a.order \in Orders \cup {None}
                      /\ a.to \in Targets \cup Verdicts \cup {None}
                      /\ a.courier \in Couriers \cup {None}
                      /\ a.image \in BOOLEAN
                      /\ a.amount \in Amounts \cup {0}
                      /\ a.amount \in Nat
                      /\ a.row \in Rows \cup {None}
    /\ \A row \in RefundRow : /\ row.order \in Orders \cup {None}
                             /\ row.amount \in Amounts \cup {0}
                             /\ row.amount \in Nat
                             /\ row.status \in Verdicts \cup {"none", "pending"}
<1>1. NoArg \in Arg
  BY DEF Arg, NoArg
<1>2. ASSUME NEW amount \in Amounts \cup {0} PROVE amount \in Nat
  BY AmountsAssumption
<1>3. QED
  BY <1>1, <1>2 DEF Arg, RefundRow

LEMMA TypeStep == IInv /\ [Next]_vars => TypeOK'
<1> SUFFICES ASSUME IInv, [Next]_vars PROVE TypeOK'
  OBVIOUS
<1> TypeOK /\ HandlersRemember /\ HandlersKnowTheirRow
  BY DEF IInv
<1> USE NoneAssumption, TotalAssumption, ItemsAssumption, AmountsAssumption,
        ProofImagesAssumption
    DEF TypeOK, orderRow, money, sales
<1>1. ASSUME NEW o \in Orders, CreateOrder(o) PROVE TypeOK'
  BY <1>1 DEF CreateOrder, SetStatus, Statuses
<1>2. ASSUME NEW o \in Orders, RecordPurchase(o) PROVE TypeOK'
  BY <1>2 DEF RecordPurchase
<1>3. ASSUME NEW r \in Requests, NEW o \in Orders, NEW to \in Targets, NEW c \in Couriers,
             NEW image \in ProofImages, MarkRead(r, o, to, c, image)
      PROVE TypeOK'
  BY <1>3 DEF MarkRead, Begin, Arg, NoArg, Steps
<1>4. ASSUME NEW r \in Requests, NEW o \in Orders, RateRead(r, o) PROVE TypeOK'
  BY <1>4 DEF RateRead, Begin, Arg, NoArg, Steps
<1>5. ASSUME NEW r \in Requests, NEW o \in Orders, NEW amount \in Amounts \cup {0},
             RefundRead(r, o, amount)
      PROVE TypeOK'
  BY <1>5 DEF RefundRead, Begin, Arg, NoArg, Steps
<1>6. ASSUME NEW r \in Requests, NEW q \in Rows, NEW verdict \in Verdicts,
             HandleRead(r, q, verdict)
      PROVE TypeOK'
  <2>1. refundRow[q].order \in Orders \cup {None} /\ refundRow[q].amount \in Amounts \cup {0}
    BY Records
  <2>2. [NoArg EXCEPT !.order = refundRow[q].order, !.to = verdict,
                      !.amount = refundRow[q].amount, !.row = q] \in Arg
    BY <2>1 DEF Arg, NoArg
  <2>3. QED
    BY <1>6, <2>2 DEF HandleRead, HandleBegin, Begin, Steps
<1>7. ASSUME NEW r \in Requests, RateWrite(r) PROVE TypeOK'
  BY <1>7, Records DEF RateWrite, Finish, Steps
<1>8. ASSUME NEW r \in Requests, RefundStripe(r) \/ HandleStripe(r) PROVE TypeOK'
  <2>1. PICK at \in Steps, next \in Steps : RefundPayment(r, at, next)
    BY <1>8 DEF RefundStripe, HandleStripe, Steps
  <2>2. arg[r].amount \in Nat /\ arg[r].order \in Orders
    BY <1>8, Records DEF RefundStripe, HandleStripe, RefundPayment, HandlersRemember
  <2>3. pc' \in [Requests -> Steps] /\ arg' \in [Requests -> Arg]
    BY <2>1, Records DEF RefundPayment, Proceed, Finish, Steps
  <2>4. refunded' \in [Orders -> 0..Total]
    <3>1. CASE refunded' = refunded
      BY <3>1
    <3>2. CASE Refundable(arg[r].order, arg[r].amount) /\ Return(arg[r].order, arg[r].amount)
      BY <3>2, <2>2 DEF Refundable, Return
    <3>3. QED
      BY <3>1, <3>2, <2>1 DEF RefundPayment
  <2>5. QED
    BY <1>8, <2>3, <2>4 DEF RefundStripe, HandleStripe
<1>9. ASSUME NEW r \in Requests, MarkSave(r) PROVE TypeOK'
  <2>1. arg[r].to \in Targets /\ arg[r].courier \in Couriers /\ arg[r].image \in BOOLEAN
    BY <1>9, Records DEF MarkSave, HandlersRemember
  <2>2. status' \in [Orders -> Statuses \cup {"absent"}] /\ reached' \in [Orders -> SUBSET Statuses]
    BY <1>9, <2>1 DEF MarkSave, SetStatus, Targets, Statuses
  <2>3. courierId' \in [Orders -> Couriers \cup {None}]
    BY <1>9, <2>1 DEF MarkSave
  <2>4. proof' \in [Orders -> BOOLEAN]
    BY <1>9, <2>1 DEF MarkSave
  <2>5. pc' \in [Requests -> Steps] /\ arg' \in [Requests -> Arg]
    BY <1>9, Records DEF MarkSave, Finish, Steps
  <2>6. QED
    BY <1>9, <2>2, <2>3, <2>4, <2>5 DEF MarkSave
<1>10. ASSUME NEW r \in Requests, RefundUpdate(r) \/ HandleUpdate(r) PROVE TypeOK'
  <2>1. PaidBackStatus(arg[r].amount) \in Statuses
    BY DEF PaidBackStatus, Statuses
  <2>2. SetStatus(arg[r].order, PaidBackStatus(arg[r].amount))
    BY <1>10 DEF RefundUpdate, HandleUpdate
  <2>3. status' \in [Orders -> Statuses \cup {"absent"}] /\ reached' \in [Orders -> SUBSET Statuses]
    BY <2>1, <2>2 DEF SetStatus
  <2>4. pc' \in [Requests -> Steps] /\ arg' \in [Requests -> Arg]
    <3>1. CASE RefundUpdate(r)
      BY <3>1, Records DEF RefundUpdate, Finish, Steps
    <3>2. CASE HandleUpdate(r)
      BY <3>2 DEF HandleUpdate, Proceed, Steps
    <3>3. QED
      BY <1>10, <3>1, <3>2
  <2>5. QED
    BY <1>10, <2>3, <2>4 DEF RefundUpdate, HandleUpdate
<1>11. ASSUME NEW r \in Requests, RefundFind(r) PROVE TypeOK'
  BY <1>11, Records, SMTT(60) DEF RefundFind, Proceed, Finish, Steps
<1>12. ASSUME NEW r \in Requests, RefundInsert(r) PROVE TypeOK'
  <2>1. [order |-> arg[r].order, amount |-> arg[r].amount, status |-> "pending"] \in RefundRow
    BY Records DEF RefundRow
  <2>2. QED
    BY <1>12, <2>1, Records DEF RefundInsert, Finish, Steps
<1>13. ASSUME NEW r \in Requests, HandlePurchases(r) PROVE TypeOK'
  <2>1. arg[r].order \in Orders
    BY <1>13 DEF HandlePurchases, HandlersRemember
  <2>2. purchases[arg[r].order] \subseteq 1..Items
    BY <2>1
  <2>3. PICK rows \in SUBSET purchases[arg[r].order] : victims' = [victims EXCEPT ![r] = rows]
    BY <1>13 DEF HandlePurchases
  <2>4. victims' \in [Requests -> SUBSET (1..Items)]
    BY <2>2, <2>3
  <2>5. pc' \in [Requests -> Steps] /\ arg' = arg
    BY <1>13 DEF HandlePurchases, Proceed, Steps
  <2>6. QED
    BY <1>13, <2>4, <2>5 DEF HandlePurchases
<1>14. ASSUME NEW r \in Requests, DestroyPurchase(r) PROVE TypeOK'
  <2>1. PICK row \in victims[r] :
           /\ purchases' = [purchases EXCEPT ![arg[r].order] = @ \ {row}]
           /\ victims' = [victims EXCEPT ![r] = @ \ {row}]
    BY <1>14 DEF DestroyPurchase
  <2>2. purchases' \in [Orders -> SUBSET (1..Items)]
    BY <2>1
  <2>3. victims' \in [Requests -> SUBSET (1..Items)]
    BY <2>1
  <2>4. QED
    BY <1>14, <2>2, <2>3 DEF DestroyPurchase
<1>15. ASSUME NEW r \in Requests, HandleDestroyed(r) \/ HandleEmail(r) PROVE TypeOK'
  BY <1>15, Records DEF HandleDestroyed, HandleEmail, Proceed, Finish, Steps
<1>16. ASSUME NEW r \in Requests, HandleWrite(r) PROVE TypeOK'
  <2>1. arg[r].row \in Rows /\ arg[r].to \in Verdicts
    BY <1>16 DEF HandleWrite, Proceed, HandlersKnowTheirRow
  <2>2. [refundRow[arg[r].row] EXCEPT !.status = arg[r].to] \in RefundRow
    BY <2>1 DEF RefundRow
  <2>3. QED
    BY <1>16, <2>1, <2>2 DEF HandleWrite, Proceed, Steps
<1>17. ASSUME NEW r \in Requests, Abort(r) PROVE TypeOK'
  BY <1>17, Records DEF Abort, Finish, Steps
<1>18. CASE UNCHANGED vars
  BY <1>18 DEF vars
<1>19. QED
  BY <1>1, <1>2, <1>3, <1>4, <1>5, <1>6, <1>7, <1>8, <1>9, <1>10, <1>11, <1>12, <1>13,
     <1>14, <1>15, <1>16, <1>17, <1>18
  DEF Next, Arrive, Decide, Continue
-----------------------------------------------------------------------------
(* What never goes back, whoever makes the step.                           *)
OrderGrows(o) ==
    /\ reached[o] \subseteq reached'[o]
    /\ refunded[o] <= refunded'[o]
    /\ reached[o] # {} => safeShipping'[o] = safeShipping[o]

RowGrows(q) ==
    refundRow[q].status # "none" =>
        /\ refundRow'[q].status # "none"
        /\ refundRow'[q].order = refundRow[q].order
        /\ refundRow'[q].amount = refundRow[q].amount

(* What a step does to the handler in slot r.                              *)
Rests(r)    == pc'[r] = pc[r] /\ arg'[r] = arg[r]
Ends(r)     == pc'[r] = "idle" /\ arg'[r] = NoArg
MoveTable == {<<"refund.stripe", "refund.update">>, <<"refund.find", "refund.insert">>,
              <<"handle.stripe", "handle.update">>, <<"handle.update", "handle.purchases">>,
              <<"handle.purchases", "handle.write">>, <<"handle.purchases", "handle.destroy">>,
              <<"handle.destroy", "handle.write">>, <<"handle.write", "handle.email">>}
Moves(r)    == <<pc[r], pc'[r]>> \in MoveTable /\ arg'[r] = arg[r] /\ Continue(r)

LEMMA PaymentStep ==
    ASSUME TypeOK, HandlersRemember, NEW r \in Requests, NEW at \in Steps \ {"idle"},
           NEW next \in Steps, RefundPayment(r, at, next)
    PROVE  /\ arg[r].order \in Orders
           /\ \A o \in Orders : refunded[o] <= refunded'[o]
           /\ \/ pc'[r] = "idle"
              \/ pc'[r] = next /\ Paid(arg[r].order, arg[r].amount)'
<1>1. arg[r].order \in Orders /\ arg[r].amount \in Nat
  BY Records DEF TypeOK, HandlersRemember, RefundPayment
<1>2. CASE Refundable(arg[r].order, arg[r].amount) /\ Return(arg[r].order, arg[r].amount)
           /\ Proceed(r, at, next)
  <2>1. arg' = arg /\ pc'[r] = next
    BY <1>2 DEF Proceed, TypeOK
  <2>2. refunded \in [Orders -> Nat] /\ Total \in Nat
    BY TotalAssumption DEF TypeOK
  <2>3. /\ refunded'[arg[r].order] = IF arg[r].amount = 0 THEN Total
                                     ELSE refunded[arg[r].order] + arg[r].amount
        /\ \A o \in Orders : refunded[o] <= refunded'[o]
    BY <1>1, <1>2, <2>2 DEF Refundable, Return
  <2>4. QED
    BY <1>1, <2>1, <2>2, <2>3 DEF Paid
<1>3. CASE UNCHANGED refunded /\ Finish(r)
  BY <1>1, <1>3, TotalAssumption DEF Finish, TypeOK
<1>4. QED
  BY <1>2, <1>3 DEF RefundPayment

LEMMA Growth ==
    IInv /\ [Next]_vars => /\ \A o \in Orders : OrderGrows(o)
                          /\ \A q \in Rows : RowGrows(q)
<1> SUFFICES ASSUME IInv, [Next]_vars
             PROVE (\A o \in Orders : OrderGrows(o)) /\ \A q \in Rows : RowGrows(q)
  OBVIOUS
<1> TypeOK /\ HandlersRemember /\ MilestonesInOrder
  BY DEF IInv
<1>0. refunded \in [Orders -> Nat]
  BY TotalAssumption DEF TypeOK
<1>1. ASSUME UNCHANGED <<safeShipping, refunded, refundRow, reached>>
      PROVE (\A o \in Orders : OrderGrows(o)) /\ \A q \in Rows : RowGrows(q)
  BY <1>0, <1>1 DEF OrderGrows, RowGrows
<1>2. ASSUME NEW o \in Orders, CreateOrder(o)
      PROVE (\A p \in Orders : OrderGrows(p)) /\ \A q \in Rows : RowGrows(q)
  BY <1>0, <1>2 DEF CreateOrder, SetStatus, OrderGrows, RowGrows, TypeOK, MilestonesInOrder, MilestonesOf, money
<1>3. ASSUME NEW r \in Requests, RefundStripe(r) \/ HandleStripe(r)
      PROVE (\A o \in Orders : OrderGrows(o)) /\ \A q \in Rows : RowGrows(q)
  <2>1. PICK at \in Steps \ {"idle"}, next \in Steps : RefundPayment(r, at, next)
    BY <1>3 DEF RefundStripe, HandleStripe, Steps
  <2>2. \A o \in Orders : refunded[o] <= refunded'[o]
    BY <2>1, PaymentStep
  <2>3. QED
    BY <1>3, <2>2 DEF RefundStripe, HandleStripe, orderRow, OrderGrows, RowGrows
<1>4. ASSUME NEW r \in Requests, NEW s, SetStatus(arg[r].order, s),
             UNCHANGED <<safeShipping, refunded, refundRow>>
      PROVE (\A o \in Orders : OrderGrows(o)) /\ \A q \in Rows : RowGrows(q)
  BY <1>0, <1>4 DEF SetStatus, OrderGrows, RowGrows, TypeOK
<1>5. ASSUME NEW r \in Requests, RefundInsert(r) \/ HandleWrite(r)
      PROVE (\A o \in Orders : OrderGrows(o)) /\ \A q \in Rows : RowGrows(q)
  <2>1. \A q \in Rows : RowGrows(q)
    <3>1. CASE RefundInsert(r)
      BY <3>1 DEF RefundInsert, RowGrows, TypeOK
    <3>2. CASE HandleWrite(r)
      <4>1. refundRow' = [refundRow EXCEPT ![arg[r].row].status = arg[r].to]
            /\ arg[r].to \in Verdicts
        BY <3>2 DEF HandleWrite, Proceed, IInv, HandlersKnowTheirRow
      <4>2. QED
        BY <4>1 DEF RowGrows, TypeOK, Verdicts, RefundRow
    <3>3. QED
      BY <1>5, <3>1, <3>2
  <2>2. QED
    BY <1>0, <1>5, <2>1 DEF RefundInsert, HandleWrite, orderRow, OrderGrows
<1>6. ASSUME NEW r \in Requests, MarkSave(r) \/ RefundUpdate(r) \/ HandleUpdate(r)
      PROVE (\A o \in Orders : OrderGrows(o)) /\ \A q \in Rows : RowGrows(q)
  BY <1>4, <1>6 DEF MarkSave, RefundUpdate, HandleUpdate, money, orderRow
<1>7. QED
  BY <1>1, <1>2, <1>3, <1>5, <1>6
  DEF Next, vars, Arrive, Decide, Continue, money, orderRow, RecordPurchase, MarkRead, RateRead,
      RefundRead, HandleRead, HandleBegin, RateWrite, RefundFind, HandlePurchases,
      DestroyPurchase, HandleDestroyed, HandleEmail, Abort

(* The slot that a step belongs to starts a handler, moves on or ends; the *)
(* other slots rest.                                                       *)
Starts(r) ==
    \/ \E o \in Orders, to \in Targets, c \in Couriers, image \in ProofImages :
          MarkRead(r, o, to, c, image)
    \/ \E o \in Orders : RateRead(r, o)
    \/ \E o \in Orders, amount \in Amounts \cup {0} : RefundRead(r, o, amount)
    \/ \E q \in Rows, verdict \in Verdicts : HandleRead(r, q, verdict)

LEMMA SlotStep ==
    IInv /\ [Next]_vars =>
        \A s \in Requests : Rests(s) \/ Ends(s) \/ Starts(s) \/ Moves(s)
<1> SUFFICES ASSUME IInv, [Next]_vars, NEW s \in Requests
             PROVE  Rests(s) \/ Ends(s) \/ Starts(s) \/ Moves(s)
  OBVIOUS
<1> TypeOK
  BY DEF IInv
<1>1. CASE UNCHANGED <<pc, arg>>
  BY <1>1 DEF Rests
<1>2. ASSUME NEW r \in Requests, NEW a, NEW step, Begin(r, a, step), r # s PROVE Rests(s)
  BY <1>2 DEF Begin, Rests, TypeOK
<1>3. ASSUME NEW r \in Requests, Arrive(r) \/ Decide(r)
      PROVE  Rests(s) \/ Starts(s)
  <2>1. Starts(r)
    BY <1>3 DEF Arrive, Decide, Starts
  <2>2. CASE r # s
    BY <1>2, <1>3, <2>2 DEF Arrive, Decide, MarkRead, RateRead, RefundRead, HandleRead, HandleBegin
  <2>3. QED
    BY <2>1, <2>2
<1>4. ASSUME NEW r \in Requests, Finish(r) PROVE Rests(s) \/ Ends(s)
  BY <1>4 DEF Finish, Rests, Ends, TypeOK
<1>5. ASSUME NEW r \in Requests, NEW at, NEW step, <<at, step>> \in MoveTable,
             Proceed(r, at, step), Continue(r)
      PROVE  Rests(s) \/ Moves(s)
  <2>1. CASE r # s
    BY <1>5, <2>1 DEF Proceed, Rests, TypeOK
  <2>2. CASE r = s
    <3>1. pc[s] = at /\ pc'[s] = step /\ arg'[s] = arg[s]
      BY <1>5, <2>2 DEF Proceed, TypeOK
    <3>2. QED
      BY <1>5, <2>2, <3>1 DEF Moves
  <2>3. QED
    BY <2>1, <2>2
<1>6. ASSUME NEW r \in Requests, Continue(r)
      PROVE  Rests(s) \/ Ends(s) \/ Moves(s)
  <2>1. CASE Finish(r)
    BY <1>4, <2>1
  <2>2. CASE \E at, step : <<at, step>> \in MoveTable /\ Proceed(r, at, step)
    BY <1>5, <1>6, <2>2
  <2>3. QED
    BY <1>6, <2>1, <2>2
    DEF Continue, MoveTable, MarkSave, RateWrite, RefundStripe, RefundUpdate, RefundFind,
        RefundInsert, HandleStripe, HandleUpdate, HandlePurchases, HandleDestroyed,
        HandleWrite, HandleEmail, RefundPayment
<1>7. QED
  BY <1>1, <1>3, <1>4, <1>6 DEF Next, vars, CreateOrder, RecordPurchase, DestroyPurchase, Abort

-----------------------------------------------------------------------------
LEMMA MilestonesStep == IInv /\ [Next]_vars => MilestonesInOrder'
<1> SUFFICES ASSUME IInv, [Next]_vars PROVE MilestonesInOrder'
  OBVIOUS
<1> TypeOK /\ MilestonesInOrder /\ HandlersRemember /\ HandlersHavePaid /\ TypeOK'
  BY TypeStep DEF IInv
<1> DEFINE Kept == UNCHANGED <<status, courierId, proof, rated, reached>>
<1>1. ASSUME Kept PROVE MilestonesInOrder'
  <2>1. \A o \in Orders : refunded[o] <= refunded'[o]
    BY Growth DEF OrderGrows
  <2>2. \A o \in Orders : refunded[o] \in 0..Total /\ refunded'[o] \in 0..Total
    BY DEF TypeOK
  <2>3. ASSUME NEW o \in Orders
        PROVE  /\ refunded[o] = Total => refunded'[o] = Total
               /\ refunded[o] > 0 => refunded'[o] > 0
    BY <2>1, <2>2, TotalAssumption
  <2>4. QED
    BY <1>1, <2>3 DEF MilestonesInOrder, MilestonesOf
<1>2. ASSUME NEW o \in Orders, CreateOrder(o) PROVE MilestonesInOrder'
  BY <1>2 DEF CreateOrder, SetStatus, TypeOK, MilestonesInOrder, MilestonesOf, money
<1>3. ASSUME NEW r \in Requests, MarkSave(r) PROVE MilestonesInOrder'
  <2>0. PICK o \in Orders, to \in Targets : o = arg[r].order /\ to = arg[r].to
    BY <1>3 DEF MarkSave, HandlersRemember
  <2>1. /\ reached[o] # {} /\ arg[r].courier \in Couriers
        /\ to = "delivered" => arg[r].image
        /\ Promise!Earned(o, to)
    BY <1>3, <2>0 DEF MarkSave, HandlersRemember
  <2>2. /\ status' = [status EXCEPT ![o] = to]
        /\ reached' = [reached EXCEPT ![o] = @ \cup {to}]
        /\ courierId' = IF to = "shipped" THEN [courierId EXCEPT ![o] = arg[r].courier]
                                          ELSE courierId
        /\ proof' = IF to = "delivered" THEN [proof EXCEPT ![o] = arg[r].image] ELSE proof
        /\ rated' = rated /\ refunded' = refunded
    BY <1>3, <2>0 DEF MarkSave, SetStatus, money
  <2>3. ASSUME NEW p \in Orders, p # o
        PROVE  /\ status'[p] = status[p] /\ reached'[p] = reached[p]
               /\ courierId'[p] = courierId[p] /\ proof'[p] = proof[p]
    BY <2>2, <2>3 DEF TypeOK
  <2>4. /\ status'[o] = to /\ reached'[o] = reached[o] \cup {to}
        /\ courierId'[o] = IF to = "shipped" THEN arg[r].courier ELSE courierId[o]
        /\ proof'[o] = IF to = "delivered" THEN TRUE ELSE proof[o]
    BY <2>1, <2>2, Records, ZenonT(60) DEF TypeOK
  <2>5. "pending" \in reached[o] /\ (to = "awaiting-pickup" => "shipped" \in reached[o])
        /\ (to = "delivered" => "shipped" \in reached[o])
        /\ (to = "uncollected" => "awaiting-pickup" \in reached[o])
    BY <2>1 DEF MilestonesInOrder, MilestonesOf, Promise!Earned, Targets
  <2>6. MilestonesOf(o)'
    BY <2>1, <2>2, <2>4, <2>5 DEF MilestonesInOrder, MilestonesOf, Targets
  <2>7. ASSUME NEW p \in Orders, p # o PROVE MilestonesOf(p)'
    BY <2>2, <2>3, <2>7 DEF MilestonesInOrder, MilestonesOf
  <2>8. QED
    BY <2>6, <2>7 DEF MilestonesInOrder
<1>4. ASSUME NEW r \in Requests, RateWrite(r) PROVE MilestonesInOrder'
  BY <1>4 DEF RateWrite, MilestonesInOrder, MilestonesOf, HandlersRemember, TypeOK, money
<1>5. ASSUME NEW r \in Requests, RefundUpdate(r) \/ HandleUpdate(r) PROVE MilestonesInOrder'
  <2> DEFINE o == arg[r].order  to == PaidBackStatus(arg[r].amount)
  <2>1. o \in Orders /\ reached[o] # {} /\ Paid(o, arg[r].amount) /\ arg[r].amount \in Nat
    BY <1>5, Records
    DEF RefundUpdate, HandleUpdate, Proceed, HandlersRemember, HandlersHavePaid, TypeOK
  <2>2. /\ status' = [status EXCEPT ![o] = to]
        /\ reached' = [reached EXCEPT ![o] = @ \cup {to}]
        /\ UNCHANGED <<courierId, proof, rated, refunded>>
    BY <1>5 DEF RefundUpdate, HandleUpdate, SetStatus, orderRow, money
  <2>3. /\ to = "refunded" => refunded[o] = Total
        /\ to = "partially-refunded" => refunded[o] > 0
        /\ to \in {"refunded", "partially-refunded"}
    <3>1. refunded[o] \in 0..Total
      BY <2>1 DEF TypeOK
    <3>2. QED
      BY <2>1, <3>1, TotalAssumption DEF PaidBackStatus, Paid
  <2> HIDE DEF o, to
  <2>4. QED
    BY <2>1, <2>2, <2>3 DEF MilestonesInOrder, MilestonesOf, TypeOK
<1>6. QED
  BY <1>1, <1>2, <1>3, <1>4, <1>5, ZenonT(60)
  DEF Next, vars, Arrive, Decide, Continue, money, orderRow, RecordPurchase, MarkRead, RateRead,
      RefundRead, RefundStripe, RefundFind, RefundInsert, HandleRead, HandleBegin, HandleStripe,
      HandlePurchases, DestroyPurchase, HandleDestroyed, HandleWrite, HandleEmail, Abort

LEMMA RememberStep == IInv /\ [Next]_vars => HandlersRemember'
<1> SUFFICES ASSUME IInv, [Next]_vars, NEW s \in Requests
             PROVE  /\ pc'[s] # "idle" => arg'[s].order \in Orders /\ reached'[arg'[s].order] # {}
                    /\ pc'[s] = "mark.save" =>
                          /\ arg'[s].to \in Targets
                          /\ arg'[s].courier \in Couriers
                          /\ arg'[s].to = "delivered" => arg'[s].image
                          /\ Promise!Earned(arg[s].order, arg[s].to)'
                    /\ pc'[s] \in {"rate.write", "refund.find", "refund.insert"} =>
                          "delivered" \in reached'[arg'[s].order]
  BY DEF HandlersRemember
<1> TypeOK /\ MilestonesInOrder /\ HandlersRemember /\ RowsAreSound
  BY DEF IInv
<1>1. \A o \in Orders : OrderGrows(o)
  BY Growth
<1>2. ASSUME NEW o \in Orders, NEW to \in Targets, reached[o] # {}, Promise!Earned(o, to)
      PROVE  Promise!Earned(o, to)'
  BY <1>1, <1>2 DEF Promise!Earned, OrderGrows, Targets
<1>3. CASE Rests(s)
  <2>1. pc[s] # "idle" => reached[arg[s].order] # {} /\ OrderGrows(arg[s].order)
    BY <1>1 DEF HandlersRemember
  <2>2. pc[s] = "mark.save" => Promise!Earned(arg[s].order, arg[s].to)'
    BY <1>2, <1>3 DEF HandlersRemember, Rests, Promise!Earned
  <2>3. QED
    BY <1>3, <2>1, <2>2 DEF HandlersRemember, Rests, OrderGrows
<1>4. CASE Ends(s)
  BY <1>4 DEF Ends
<1>5. CASE Moves(s)
  <2>1. pc'[s] \notin {"mark.save", "rate.write", "refund.find"} /\ pc[s] # "idle"
        /\ (pc'[s] = "refund.insert" => pc[s] = "refund.find")
    BY <1>5 DEF Moves, MoveTable
  <2>2. QED
    BY <1>1, <1>5, <2>1 DEF HandlersRemember, Moves, OrderGrows
<1>6. CASE Starts(s)
  <2>1. CASE \E o \in Orders, to \in Targets, c \in Couriers, image \in ProofImages :
               MarkRead(s, o, to, c, image)
    <3>1. PICK o \in Orders, to \in Targets, c \in Couriers, image \in ProofImages :
                 MarkRead(s, o, to, c, image)
      BY <2>1
    <3>2. /\ pc'[s] = "mark.save" /\ reached' = reached
          /\ arg'[s].order = o /\ arg'[s].to = to /\ arg'[s].courier = c /\ arg'[s].image = image
      BY <3>1 DEF MarkRead, Begin, TypeOK, NoArg
    <3>3. /\ reached[o] # {} /\ Promise!Earned(o, to)
          /\ to = "delivered" => image
      BY <3>1 DEF MarkRead, MayMark, MilestonesInOrder, MilestonesOf, Promise!Earned, TypeOK
    <3>4. Promise!Earned(arg[s].order, arg[s].to)'
      BY <1>2, <3>2, <3>3 DEF Promise!Earned
    <3>5. QED
      BY <3>2, <3>3, <3>4
  <2>2. CASE \E o \in Orders : RateRead(s, o)
    BY <2>2 DEF RateRead, Begin, TypeOK, NoArg, MilestonesInOrder, MilestonesOf
  <2>3. CASE \E o \in Orders, amount \in Amounts \cup {0} : RefundRead(s, o, amount)
    BY <2>3 DEF RefundRead, Begin, TypeOK, NoArg, MilestonesInOrder, MilestonesOf
  <2>4. CASE \E q \in Rows, verdict \in Verdicts : HandleRead(s, q, verdict)
    <3>1. PICK q \in Rows, verdict \in Verdicts : HandleRead(s, q, verdict)
      BY <2>4
    <3>2. /\ pc'[s] \in {"handle.stripe", "handle.write"} /\ reached' = reached
          /\ arg'[s].order = refundRow[q].order
      BY <3>1 DEF HandleRead, HandleBegin, Begin, TypeOK, NoArg
    <3>3. refundRow[q].order \in Orders /\ "delivered" \in reached[refundRow[q].order]
      BY <3>1, Records DEF HandleRead, RowsAreSound, TypeOK
    <3>4. QED
      BY <3>2, <3>3
  <2>5. QED
    BY <1>6, <2>1, <2>2, <2>3, <2>4 DEF Starts
<1>7. QED
  BY <1>3, <1>4, <1>5, <1>6, SlotStep

LEMMA PaidStep == IInv /\ [Next]_vars => HandlersHavePaid'
<1> SUFFICES ASSUME IInv, [Next]_vars, NEW s \in Requests,
                    \/ pc'[s] \in {"refund.update", "handle.update", "handle.purchases",
                                   "handle.destroy"}
                    \/ pc'[s] = "handle.write" /\ arg'[s].to = "approved"
             PROVE  Paid(arg[s].order, arg[s].amount)'
  BY DEF HandlersHavePaid
<1> TypeOK /\ HandlersRemember /\ HandlersHavePaid
  BY DEF IInv
<1>1. ASSUME arg'[s] = arg[s], pc[s] # "idle", Paid(arg[s].order, arg[s].amount)
      PROVE  Paid(arg[s].order, arg[s].amount)'
  <2>1. arg[s].order \in Orders /\ arg[s].amount \in Nat
    BY <1>1, Records DEF HandlersRemember, TypeOK
  <2>2. refunded[arg[s].order] <= refunded'[arg[s].order]
        /\ refunded[arg[s].order] \in Nat /\ refunded'[arg[s].order] \in Nat
    BY <2>1, Growth, TypeStep, TotalAssumption DEF OrderGrows, TypeOK
  <2>3. QED
    BY <1>1, <2>1, <2>2, TotalAssumption DEF Paid
<1>2. CASE Rests(s)
  BY <1>1, <1>2 DEF Rests, HandlersHavePaid
<1>3. CASE Ends(s)
  BY <1>3 DEF Ends
<1>4. CASE Starts(s)
  <2>1. pc'[s] \in {"mark.save", "rate.write", "refund.stripe", "refund.find", "handle.stripe"}
        \/ (pc'[s] = "handle.write" /\ arg'[s].to = "denied")
    <3>1. ASSUME NEW q \in Rows, NEW verdict \in Verdicts, HandleRead(s, q, verdict)
          PROVE  pc'[s] = "handle.stripe" \/ (pc'[s] = "handle.write" /\ arg'[s].to = "denied")
      BY <3>1 DEF HandleRead, HandleBegin, Begin, NoArg, TypeOK, Verdicts
    <3>2. ASSUME ~\E q \in Rows, verdict \in Verdicts : HandleRead(s, q, verdict)
          PROVE  pc'[s] \in {"mark.save", "rate.write", "refund.stripe", "refund.find"}
      BY <1>4, <3>2 DEF Starts, MarkRead, RateRead, RefundRead, Begin, TypeOK
    <3>3. QED
      BY <3>1, <3>2
  <2>2. QED
    BY <2>1
<1>5. CASE Moves(s)
  <2>1. CASE pc[s] \in {"refund.stripe", "handle.stripe"}
    <3>1. RefundStripe(s) \/ HandleStripe(s)
      BY <1>5, <2>1
      DEF Moves, Continue, MarkSave, RateWrite, RefundUpdate, RefundFind, RefundInsert,
          HandleUpdate, HandlePurchases, HandleDestroyed, HandleWrite, HandleEmail, Proceed
    <3>2. PICK at \in Steps \ {"idle"}, next \in Steps : RefundPayment(s, at, next)
      BY <3>1 DEF RefundStripe, HandleStripe, Steps
    <3>3. QED
      BY <3>2, PaymentStep
  <2>2. CASE pc[s] \in {"handle.update", "handle.purchases", "handle.destroy"}
    BY <1>1, <1>5, <2>2 DEF Moves, HandlersHavePaid
  <2>3. QED
    BY <1>5, <2>1, <2>2 DEF Moves, MoveTable
<1>6. QED
  BY <1>2, <1>3, <1>4, <1>5, SlotStep

LEMMA RowStep == IInv /\ [Next]_vars => HandlersKnowTheirRow'
<1> SUFFICES ASSUME IInv, [Next]_vars, NEW s \in Requests,
                    pc'[s] \in {"handle.stripe", "handle.update", "handle.purchases",
                                "handle.destroy", "handle.write", "handle.email"}
             PROVE  /\ arg'[s].row \in Rows
                    /\ refundRow'[arg'[s].row].status # "none"
                    /\ refundRow'[arg'[s].row].order = arg'[s].order
                    /\ refundRow'[arg'[s].row].amount = arg'[s].amount
                    /\ arg'[s].to \in Verdicts
  BY DEF HandlersKnowTheirRow
<1> TypeOK /\ HandlersKnowTheirRow
  BY DEF IInv
<1>1. \A q \in Rows : RowGrows(q)
  BY Growth
<1>2. CASE Rests(s)
  BY <1>1, <1>2 DEF Rests, HandlersKnowTheirRow, RowGrows
<1>3. CASE Ends(s)
  BY <1>3 DEF Ends
<1>4. CASE Moves(s)
  BY <1>1, <1>4 DEF Moves, MoveTable, HandlersKnowTheirRow, RowGrows
<1>5. CASE Starts(s)
  <2>1. PICK q \in Rows, verdict \in Verdicts : HandleRead(s, q, verdict)
    BY <1>5, ZenonT(60) DEF Starts, MarkRead, RateRead, RefundRead, Begin, TypeOK
  <2>2. /\ arg'[s].row = q /\ arg'[s].order = refundRow[q].order
        /\ arg'[s].amount = refundRow[q].amount /\ arg'[s].to = verdict
        /\ refundRow' = refundRow
    BY <2>1 DEF HandleRead, HandleBegin, Begin, NoArg, TypeOK, money
  <2>3. QED
    BY <2>1, <2>2 DEF HandleRead
<1>6. QED
  BY <1>2, <1>3, <1>4, <1>5, SlotStep

LEMMA RowsStep == IInv /\ [Next]_vars => RowsAreSound'
<1> SUFFICES ASSUME IInv, [Next]_vars, NEW q \in Rows
             PROVE  /\ refundRow'[q].status = "none" <=> refundRow'[q].order = None
                    /\ refundRow'[q].status # "none" =>
                          "delivered" \in reached'[refundRow'[q].order]
                    /\ refundRow'[q].status = "approved" =>
                          Paid(refundRow[q].order, refundRow[q].amount)'
  BY DEF RowsAreSound
<1> TypeOK /\ RowsAreSound /\ HandlersRemember /\ HandlersHavePaid /\ HandlersKnowTheirRow
  BY DEF IInv
<1>1. (\A o \in Orders : OrderGrows(o)) /\ RowGrows(q)
  BY Growth
<1>2. ASSUME NEW o \in Orders, NEW amount \in Nat, Paid(o, amount)
      PROVE  refunded'[o] >= IF amount = 0 THEN Total ELSE amount
  <2>1. refunded[o] <= refunded'[o] /\ refunded[o] \in Nat /\ refunded'[o] \in Nat
    BY <1>1, TypeStep, TotalAssumption DEF OrderGrows, TypeOK
  <2>2. QED
    BY <1>2, <2>1, TotalAssumption DEF Paid
<1>3. refundRow[q].order \in Orders \cup {None} /\ refundRow[q].amount \in Nat
  BY Records DEF TypeOK
<1>4. CASE refundRow'[q] = refundRow[q]
  BY <1>1, <1>2, <1>3, <1>4 DEF RowsAreSound, Paid, OrderGrows
<1>5. ASSUME NEW r \in Requests, RefundInsert(r), refundRow'[q] # refundRow[q]
      PROVE  /\ refundRow'[q].status = "pending" /\ refundRow'[q].order = arg[r].order
             /\ arg[r].order \in Orders /\ "delivered" \in reached'[arg[r].order]
  BY <1>1, <1>5 DEF RefundInsert, TypeOK, HandlersRemember, OrderGrows
<1>6. ASSUME NEW r \in Requests, HandleWrite(r), refundRow'[q] # refundRow[q]
      PROVE  /\ refundRow'[q].status = arg[r].to /\ arg[r].to \in Verdicts
             /\ refundRow'[q].order = refundRow[q].order
             /\ refundRow'[q].amount = refundRow[q].amount
             /\ refundRow[q].order \in Orders /\ "delivered" \in reached'[refundRow[q].order]
             /\ arg[r].to = "approved" => Paid(refundRow[q].order, refundRow[q].amount)
  <2>1. /\ arg[r].row \in Rows /\ arg[r].to \in Verdicts
        /\ refundRow' = [refundRow EXCEPT ![arg[r].row].status = arg[r].to]
        /\ refundRow[arg[r].row].status # "none"
        /\ arg[r].to = "approved" => Paid(arg[r].order, arg[r].amount)
        /\ refundRow[arg[r].row].order = arg[r].order
        /\ refundRow[arg[r].row].amount = arg[r].amount
    BY <1>6 DEF HandleWrite, Proceed, HandlersKnowTheirRow, HandlersHavePaid
  <2>2. q = arg[r].row
    BY <1>6, <2>1 DEF TypeOK
  <2>3. /\ refundRow'[q].status = arg[r].to
        /\ refundRow'[q].order = refundRow[q].order
        /\ refundRow'[q].amount = refundRow[q].amount
    BY <2>1, <2>2 DEF TypeOK, RefundRow
  <2>4. refundRow[q].order \in Orders /\ "delivered" \in reached'[refundRow[q].order]
    BY <1>1, <1>3, <2>1, <2>2 DEF RowsAreSound, OrderGrows
  <2>5. QED
    BY <2>1, <2>2, <2>3, <2>4
<1>7. ASSUME NEW r \in Requests, RefundInsert(r) \/ HandleWrite(r), refundRow'[q] # refundRow[q]
      PROVE  /\ refundRow'[q].status = "none" <=> refundRow'[q].order = None
             /\ refundRow'[q].status # "none" => "delivered" \in reached'[refundRow'[q].order]
             /\ refundRow'[q].status = "approved" =>
                   Paid(refundRow[q].order, refundRow[q].amount)'
  <2>1. CASE RefundInsert(r)
    BY <1>5, <1>7, <2>1, NoneAssumption
  <2>2. CASE HandleWrite(r)
    BY <1>2, <1>3, <1>6, <1>7, <2>2, NoneAssumption DEF Verdicts, Paid
  <2>3. QED
    BY <1>7, <2>1, <2>2
<1>8. QED
  BY <1>4, <1>7, ZenonT(60)
  DEF Next, vars, Arrive, Decide, Continue, money, CreateOrder, RecordPurchase, MarkRead,
      MarkSave, RateRead, RateWrite, RefundRead, RefundStripe, RefundUpdate, RefundFind,
      HandleRead, HandleBegin, HandleStripe, HandleUpdate, HandlePurchases, DestroyPurchase,
      HandleDestroyed, HandleEmail, Abort

(* Purchase rows are marked to be destroyed in one place, and a slot that  *)
(* becomes free has none left.                                             *)
LEMMA VictimsStep ==
    IInv /\ [Next]_vars =>
        \A s \in Requests : /\ victims'[s] \subseteq victims[s] \/ HandlePurchases(s)
                            /\ pc'[s] = "idle" => victims'[s] = {}
<1> SUFFICES ASSUME IInv, [Next]_vars, NEW s \in Requests
             PROVE  /\ victims'[s] \subseteq victims[s] \/ HandlePurchases(s)
                    /\ pc'[s] = "idle" => victims'[s] = {}
  OBVIOUS
<1> TypeOK /\ SalesAreSound
  BY DEF IInv
<1>1. pc[s] = "idle" => victims[s] = {}
  BY DEF SalesAreSound
<1>2. CASE UNCHANGED <<victims, pc>>
  BY <1>1, <1>2
<1>3. ASSUME NEW r \in Requests, NEW a, NEW step, Begin(r, a, step), step # "idle", UNCHANGED victims
      PROVE  (pc'[s] = "idle" => victims'[s] = {}) /\ victims'[s] \subseteq victims[s]
  BY <1>1, <1>3 DEF Begin, TypeOK
<1>4. ASSUME NEW r \in Requests, Arrive(r) \/ Decide(r)
      PROVE  (pc'[s] = "idle" => victims'[s] = {}) /\ victims'[s] \subseteq victims[s]
  BY <1>3, <1>4 DEF Arrive, Decide, MarkRead, RateRead, RefundRead, HandleRead, HandleBegin, sales
<1>5. ASSUME NEW r \in Requests, NEW at, NEW step, Proceed(r, at, step), step # "idle",
             UNCHANGED victims
      PROVE  (pc'[s] = "idle" => victims'[s] = {}) /\ victims'[s] \subseteq victims[s]
  BY <1>1, <1>5 DEF Proceed, TypeOK
<1>6. ASSUME NEW r \in Requests, Finish(r), victims[r] = {} \/ victims' = [victims EXCEPT ![r] = {}],
             UNCHANGED victims \/ victims' = [victims EXCEPT ![r] = {}]
      PROVE  (pc'[s] = "idle" => victims'[s] = {}) /\ victims'[s] \subseteq victims[s]
  BY <1>1, <1>6 DEF Finish, TypeOK
<1>7. ASSUME NEW r \in Requests, HandlePurchases(r)
      PROVE  (pc'[s] = "idle" => victims'[s] = {})
             /\ (victims'[s] \subseteq victims[s] \/ HandlePurchases(s))
  <2>1. CASE r = s
    BY <1>7, <2>1 DEF HandlePurchases, Proceed, TypeOK
  <2>2. CASE r # s
    <3>1. pc'[s] = pc[s] /\ victims'[s] = victims[s]
      BY <1>7, <2>2 DEF HandlePurchases, Proceed, TypeOK
    <3>2. QED
      BY <1>1, <3>1
  <2>3. QED
    BY <2>1, <2>2
<1>8. ASSUME NEW r \in Requests, DestroyPurchase(r)
      PROVE  (pc'[s] = "idle" => victims'[s] = {}) /\ victims'[s] \subseteq victims[s]
  BY <1>1, <1>8 DEF DestroyPurchase, TypeOK
<1>9. ASSUME NEW r \in Requests,
             MarkSave(r) \/ RateWrite(r) \/ RefundUpdate(r) \/ RefundInsert(r) \/ HandleEmail(r)
             \/ Abort(r)
      PROVE  (pc'[s] = "idle" => victims'[s] = {}) /\ victims'[s] \subseteq victims[s]
  <2>1. CASE Abort(r)
    BY <1>6, <2>1 DEF Abort
  <2>2. CASE ~Abort(r)
    <3>1. Finish(r) /\ UNCHANGED victims
      BY <1>9, <2>2 DEF MarkSave, RateWrite, RefundUpdate, RefundInsert, HandleEmail, sales
    <3>2. victims[r] = {}
      BY <1>9, <2>2
      DEF MarkSave, RateWrite, RefundUpdate, RefundInsert, HandleEmail, SalesAreSound
    <3>3. QED
      BY <1>6, <3>1, <3>2
  <2>3. QED
    BY <2>1, <2>2
<1>10. ASSUME NEW r \in Requests, RefundStripe(r) \/ HandleStripe(r) \/ RefundFind(r)
       PROVE  (pc'[s] = "idle" => victims'[s] = {}) /\ victims'[s] \subseteq victims[s]
  <2>1. pc[r] \in {"refund.stripe", "handle.stripe", "refund.find"} /\ UNCHANGED victims
    BY <1>10 DEF RefundStripe, HandleStripe, RefundPayment, RefundFind, Proceed, Finish, sales,
                 SalesAreSound
  <2>2. victims[r] = {}
    BY <2>1 DEF SalesAreSound
  <2>3. CASE Finish(r)
    BY <1>6, <2>1, <2>2, <2>3
  <2>4. CASE \E at, step : step # "idle" /\ Proceed(r, at, step)
    BY <1>5, <2>1, <2>4
  <2>5. QED
    BY <1>10, <2>3, <2>4 DEF RefundStripe, HandleStripe, RefundPayment, RefundFind
<1>11. ASSUME NEW r \in Requests, HandleUpdate(r) \/ HandleDestroyed(r) \/ HandleWrite(r)
       PROVE  (pc'[s] = "idle" => victims'[s] = {}) /\ victims'[s] \subseteq victims[s]
  BY <1>5, <1>11 DEF HandleUpdate, HandleDestroyed, HandleWrite, sales
<1>12. QED
  BY <1>2, <1>4, <1>7, <1>8, <1>9, <1>10, <1>11
  DEF Next, vars, sales, Continue, CreateOrder, RecordPurchase

LEMMA SalesStep == IInv /\ [Next]_vars => SalesAreSound'
<1> SUFFICES ASSUME IInv, [Next]_vars PROVE SalesAreSound'
  OBVIOUS
<1> TypeOK /\ MilestonesInOrder /\ HandlersRemember /\ HandlersKnowTheirRow /\ RowsAreSound
    /\ SalesAreSound /\ TypeOK'
  BY TypeStep DEF IInv
<1>1. (\A o \in Orders : OrderGrows(o)) /\ \A q \in Rows : RowGrows(q)
  BY Growth
<1>2. ASSUME NEW s \in Requests
      PROVE  /\ pc'[s] \in {"handle.purchases", "handle.destroy"} \/ victims'[s] # {} =>
                   reached'[arg'[s].order] \cap RefundStatuses # {}
             /\ victims'[s] # {} => pc'[s] \in {"handle.destroy", "handle.write", "handle.email"}
  <2>1. victims'[s] \subseteq victims[s] \/ HandlePurchases(s)
    BY VictimsStep
  <2>2. pc'[s] = "idle" => victims'[s] = {}
    BY VictimsStep
  <2>3. pc[s] # "idle" => arg[s].order \in Orders
    BY DEF HandlersRemember
  <2>4. CASE Rests(s)
    <3>1. victims'[s] \subseteq victims[s]
      BY <2>1, <2>4 DEF Rests, HandlePurchases, Proceed, TypeOK
    <3>2. pc'[s] \in {"handle.purchases", "handle.destroy"} \/ victims'[s] # {} =>
             arg[s].order \in Orders /\ reached[arg[s].order] \cap RefundStatuses # {}
      BY <2>3, <2>4, <3>1 DEF Rests, SalesAreSound
    <3>3. QED
      BY <1>1, <2>4, <3>1, <3>2 DEF Rests, OrderGrows, SalesAreSound
  <2>5. CASE Ends(s)
    BY <2>2, <2>5 DEF Ends
  <2>6. CASE Starts(s)
    <3>1. pc[s] = "idle" /\ pc'[s] \notin {"handle.purchases", "handle.destroy"}
      BY <2>6 DEF Starts, MarkRead, RateRead, RefundRead, HandleRead, HandleBegin, Begin, TypeOK
    <3>2. victims'[s] = {}
      BY <2>1, <3>1 DEF SalesAreSound, HandlePurchases, Proceed
    <3>3. QED
      BY <3>1, <3>2
  <2>7. CASE Moves(s)
    <3>1. victims'[s] # {} => pc'[s] \in {"handle.destroy", "handle.write", "handle.email"}
      BY <2>1, <2>7 DEF Moves, MoveTable, SalesAreSound, HandlePurchases, Proceed
    <3>2. arg[s].order \in Orders /\ arg'[s] = arg[s]
      BY <2>3, <2>7 DEF Moves, MoveTable
    <3>3. CASE pc[s] = "handle.update"
      <4>1. HandleUpdate(s)
        BY <2>7, <3>3
        DEF Moves, Continue, MarkSave, RateWrite, RefundStripe, RefundUpdate, RefundFind,
            RefundInsert, HandleStripe, HandlePurchases, HandleDestroyed, HandleWrite,
            HandleEmail, RefundPayment, Proceed
      <4>2. reached'[arg[s].order] = reached[arg[s].order] \cup {PaidBackStatus(arg[s].amount)}
        BY <3>2, <4>1 DEF HandleUpdate, SetStatus, TypeOK
      <4>3. QED
        BY <3>1, <3>2, <4>2 DEF PaidBackStatus, RefundStatuses
    <3>4. CASE pc[s] \in {"handle.purchases", "handle.destroy"} \/ victims[s] # {}
      BY <1>1, <3>1, <3>2, <3>4 DEF SalesAreSound, OrderGrows
    <3>5. CASE pc[s] \notin {"handle.update", "handle.purchases", "handle.destroy"} /\ victims[s] = {}
      BY <2>1, <2>7, <3>5 DEF Moves, MoveTable, HandlePurchases, Proceed
    <3>6. QED
      BY <3>3, <3>4, <3>5
  <2>8. QED
    BY <2>4, <2>5, <2>6, <2>7, SlotStep
<1>3. ASSUME UNCHANGED <<recorded, purchases>>, NEW o \in Orders, status'[o] = "absent" => status[o] = "absent"
      PROVE  /\ status'[o] = "absent" => recorded'[o] = 0
             /\ purchases'[o] \subseteq 1..recorded'[o]
             /\ purchases'[o] # 1..recorded'[o] =>
                   reached'[o] \cap RefundStatuses # {} /\ RowsOf(o)' # {}
  <2>1. RowsOf(o) # {} => RowsOf(o)' # {}
    BY <1>1, NoneAssumption DEF RowsOf, RowGrows, RowsAreSound
  <2>2. QED
    BY <1>1, <1>3, <2>1 DEF SalesAreSound, PurchasesLostToRefunds, OrderGrows
<1>4. \A o \in Orders : status'[o] = "absent" => status[o] = "absent"
  <2>1. \A o \in Orders : status'[o] = "absent" <=> reached'[o] = {}
    BY MilestonesStep DEF MilestonesInOrder, MilestonesOf
  <2>2. QED
    BY <1>1, <2>1 DEF OrderGrows, MilestonesInOrder, MilestonesOf
<1>5. ASSUME NEW p \in Orders, RecordPurchase(p), NEW o \in Orders
      PROVE  /\ status'[o] = "absent" => recorded'[o] = 0
             /\ purchases'[o] \subseteq 1..recorded'[o]
             /\ purchases'[o] # 1..recorded'[o] =>
                   reached'[o] \cap RefundStatuses # {} /\ RowsOf(o)' # {}
  <2>1. UNCHANGED <<status, reached, refundRow>>
    BY <1>5 DEF RecordPurchase, money
  <2>2. RowsOf(o)' = RowsOf(o)
    BY <2>1 DEF RowsOf
  <2>3. recorded[p] \in Nat /\ recorded[o] \in Nat
    BY ItemsAssumption DEF TypeOK
  <2>4. CASE o = p
    <3>1. recorded'[o] = recorded[o] + 1 /\ purchases'[o] = purchases[o] \cup {recorded[o] + 1}
          /\ status[o] # "absent"
      BY <1>5, <2>4 DEF RecordPurchase, TypeOK
    <3>2. 1..(recorded[o] + 1) = (1..recorded[o]) \cup {recorded[o] + 1}
      BY <2>3
    <3>3. QED
      BY <2>1, <2>2, <3>1, <3>2 DEF SalesAreSound, PurchasesLostToRefunds
  <2>5. CASE o # p
    BY <1>5, <2>1, <2>2, <2>5 DEF RecordPurchase, TypeOK, SalesAreSound, PurchasesLostToRefunds
  <2>6. QED
    BY <2>4, <2>5
<1>6. ASSUME NEW r \in Requests, DestroyPurchase(r), NEW o \in Orders
      PROVE  /\ status'[o] = "absent" => recorded'[o] = 0
             /\ purchases'[o] \subseteq 1..recorded'[o]
             /\ purchases'[o] # 1..recorded'[o] =>
                   reached'[o] \cap RefundStatuses # {} /\ RowsOf(o)' # {}
  <2>1. UNCHANGED <<status, reached, refundRow, recorded>>
    BY <1>6 DEF DestroyPurchase, money
  <2>2. RowsOf(o)' = RowsOf(o)
    BY <2>1 DEF RowsOf
  <2>3. PICK row \in victims[r] : purchases' = [purchases EXCEPT ![arg[r].order] = @ \ {row}]
    BY <1>6 DEF DestroyPurchase
  <2>4. purchases'[o] \subseteq purchases[o]
    BY <2>3 DEF TypeOK
  <2>5. CASE o = arg[r].order
    <3>1. pc[r] \in {"handle.destroy", "handle.write", "handle.email"}
          /\ reached[o] \cap RefundStatuses # {}
      BY <2>3, <2>5 DEF SalesAreSound
    <3>2. arg[r].row \in RowsOf(o)
      BY <2>5, <3>1 DEF HandlersKnowTheirRow, RowsOf
    <3>3. QED
      BY <2>1, <2>2, <2>4, <3>1, <3>2 DEF SalesAreSound
  <2>6. CASE o # arg[r].order
    <3>1. purchases'[o] = purchases[o]
      BY <2>3, <2>6 DEF TypeOK
    <3>2. QED
      BY <2>1, <2>2, <3>1 DEF SalesAreSound, PurchasesLostToRefunds
  <2>7. QED
    BY <2>5, <2>6
<1>7. ASSUME NEW o \in Orders
      PROVE  /\ status'[o] = "absent" => recorded'[o] = 0
             /\ purchases'[o] \subseteq 1..recorded'[o]
             /\ purchases'[o] # 1..recorded'[o] =>
                   reached'[o] \cap RefundStatuses # {} /\ RowsOf(o)' # {}
  <2>1. CASE UNCHANGED <<recorded, purchases>>
    BY <1>3, <1>4, <2>1
  <2>2. QED
    BY <1>5, <1>6, <2>1, ZenonT(60)
    DEF Next, vars, sales, Arrive, Decide, Continue, CreateOrder, MarkRead, MarkSave, RateRead,
        RateWrite, RefundRead, RefundStripe, RefundUpdate, RefundFind, RefundInsert, HandleRead,
        HandleBegin, HandleStripe, HandleUpdate, HandlePurchases, HandleDestroyed, HandleWrite,
        HandleEmail, Abort
<1>8. PurchasesLostToRefunds'
  BY <1>7 DEF PurchasesLostToRefunds
<1>9. QED
  BY <1>2, <1>7, <1>8 DEF SalesAreSound

-----------------------------------------------------------------------------
(* A step of a handler is a step of the promise, or leaves it as it is.    *)
LEMMA PromiseStep == IInv /\ [Next]_vars => [Promise!Next]_(Promise!vars)
<1> SUFFICES ASSUME IInv, [Next]_vars PROVE [Promise!Next]_(Promise!vars)
  OBVIOUS
<1> TypeOK /\ MilestonesInOrder /\ HandlersRemember /\ HandlersHavePaid
  BY DEF IInv
<1>1. CASE UNCHANGED <<reached, safeShipping, refunded>>
  BY <1>1 DEF Promise!vars
<1>2. ASSUME NEW o \in Orders, CreateOrder(o) PROVE Promise!Next
  <2>1. reached[o] = {}
    BY <1>2 DEF CreateOrder, MilestonesInOrder, MilestonesOf
  <2>2. reached' = [reached EXCEPT ![o] = {"pending"}]
    BY <1>2, <2>1 DEF CreateOrder, SetStatus, TypeOK
  <2>3. Promise!Place(o)
    BY <1>2, <2>1, <2>2 DEF CreateOrder, Promise!Place, money
  <2>4. QED
    BY <2>3 DEF Promise!Next
<1>3. ASSUME NEW o \in Orders, NEW s \in Statuses \ {"pending"}, Promise!Earned(o, s), SetStatus(o, s),
             UNCHANGED <<safeShipping, refunded>>
      PROVE  Promise!Next
  <2>1. Promise!Reach(o, s)
    BY <1>3 DEF Promise!Reach, SetStatus
  <2>2. QED
    BY <2>1 DEF Promise!Next, Statuses
<1>4. ASSUME NEW r \in Requests, MarkSave(r) PROVE Promise!Next
  <2>1. PICK o \in Orders, to \in Targets : o = arg[r].order /\ to = arg[r].to
    BY <1>4 DEF MarkSave, HandlersRemember
  <2>2. Promise!Earned(o, to) /\ SetStatus(o, to) /\ UNCHANGED <<safeShipping, refunded>>
    BY <1>4, <2>1 DEF MarkSave, HandlersRemember, money
  <2>3. QED
    BY <1>3, <2>2 DEF Targets, Statuses
<1>5. ASSUME NEW r \in Requests, RefundUpdate(r) \/ HandleUpdate(r) PROVE Promise!Next
  <2>1. /\ arg[r].order \in Orders /\ arg[r].amount \in Nat
        /\ Paid(arg[r].order, arg[r].amount)
    BY <1>5, Records
    DEF RefundUpdate, HandleUpdate, Proceed, HandlersRemember, HandlersHavePaid, TypeOK
  <2>2. PICK o \in Orders, s \in RefundStatuses :
                 o = arg[r].order /\ s = PaidBackStatus(arg[r].amount)
    BY <2>1 DEF PaidBackStatus, RefundStatuses
  <2>3. refunded[o] \in 0..Total
    BY DEF TypeOK
  <2>4. Promise!Earned(o, s)
    BY <2>1, <2>2, <2>3, TotalAssumption DEF PaidBackStatus, Paid, Promise!Earned
  <2>5. SetStatus(o, s) /\ UNCHANGED <<safeShipping, refunded>>
    BY <1>5, <2>2 DEF RefundUpdate, HandleUpdate, orderRow, money
  <2>6. QED
    BY <1>3, <2>4, <2>5 DEF RefundStatuses, Statuses
<1>6. ASSUME NEW r \in Requests, RefundStripe(r) \/ HandleStripe(r), refunded' # refunded
      PROVE  Promise!Next
  <2>1. PICK o \in Orders, amount \in Nat : o = arg[r].order /\ amount = arg[r].amount
    BY <1>6, Records
    DEF RefundStripe, HandleStripe, RefundPayment, HandlersRemember, TypeOK
  <2>2. Refundable(o, amount) /\ Return(o, amount) /\ UNCHANGED <<reached, safeShipping>>
    BY <1>6, <2>1 DEF RefundStripe, HandleStripe, RefundPayment, orderRow
  <2>3. "pending" \in reached[o]
    BY <1>6, <2>1
    DEF RefundStripe, HandleStripe, RefundPayment, HandlersRemember, MilestonesInOrder, MilestonesOf
  <2>4. refunded[o] \in 0..Total
    BY DEF TypeOK
  <2>5. \E sum \in (refunded[o] + 1)..Total : refunded' = [refunded EXCEPT ![o] = sum]
    <3>1. CASE amount = 0
      <4>1. refunded' = [refunded EXCEPT ![o] = Total]
        BY <2>2, <3>1 DEF Return, TypeOK
      <4>2. Total \in (refunded[o] + 1)..Total
        BY <2>2, <2>4, <3>1, TotalAssumption DEF Refundable
      <4>3. QED
        BY <4>1, <4>2
    <3>2. CASE amount # 0
      <4>1. refunded' = [refunded EXCEPT ![o] = refunded[o] + amount]
        BY <2>2, <3>2 DEF Return, TypeOK
      <4>2. refunded[o] + amount \in (refunded[o] + 1)..Total
        BY <2>2, <2>4, <3>2, TotalAssumption DEF Refundable
      <4>3. QED
        BY <4>1, <4>2
    <3>3. QED
      BY <3>1, <3>2
  <2>6. Promise!PayBack(o)
    BY <2>2, <2>3, <2>5 DEF Promise!PayBack
  <2>7. QED
    BY <2>6 DEF Promise!Next
<1>7. QED
  BY <1>1, <1>2, <1>4, <1>5, <1>6, ZenonT(60)
  DEF Next, vars, Arrive, Decide, Continue, money, orderRow, RecordPurchase, MarkRead, RateRead,
      RateWrite, RefundRead, RefundStripe, RefundFind, RefundInsert, HandleRead, HandleBegin,
      HandleStripe, HandlePurchases, DestroyPurchase, HandleDestroyed, HandleWrite, HandleEmail, Abort

-----------------------------------------------------------------------------
(* The inductive invariant holds in every reachable state of any number of *)
(* orders, refund requests and handlers under way, with or without faults. *)
THEOREM Invariance == Spec => []IInv
<1>1. IInv /\ [Next]_vars => IInv'
  BY TypeStep, MilestonesStep, RememberStep, PaidStep, RowStep, RowsStep, SalesStep DEF IInv
<1>2. QED
  BY InitInvariant, <1>1, PTL DEF Spec

(* Every column, row and handler of Orders keeps to its type; above all,   *)
(* Stripe never returns more than the charge.                              *)
THEOREM TypeCorrect == Spec => []TypeOK
<1>1. IInv => TypeOK
  BY DEF IInv
<1>2. QED
  BY Invariance, <1>1, PTL

(* The statuses "refunded" and "partially-refunded", which                 *)
(* createRefundRequest and handleRefundRequest write, are backed by money  *)
(* that Stripe returned.                                                   *)
THEOREM RefundsBacked == Spec => []RefundStatusBacked
<1>1. IInv => RefundStatusBacked
  <2> SUFFICES ASSUME IInv PROVE RefundStatusBacked
    OBVIOUS
  <2>1. \A o \in Orders : status[o] # "absent" => status[o] \in reached[o]
    BY DEF IInv, MilestonesInOrder, MilestonesOf
  <2>2. QED
    BY <2>1 DEF RefundStatusBacked, IInv, MilestonesInOrder, MilestonesOf
<1>2. QED
  BY Invariance, <1>1, PTL

(* An approved refund request has been paid, whoever else handled it.      *)
THEOREM ApprovalsBacked == Spec => []ApprovedRowsBacked
<1>1. IInv => ApprovedRowsBacked
  BY DEF IInv, RowsAreSound, ApprovedRowsBacked, Paid
<1>2. QED
  BY Invariance, <1>1, PTL

(* Ratings and refund requests follow a delivery with a picture.           *)
THEOREM ClaimsFollow == Spec => []ClaimsFollowDelivery
<1>1. IInv => ClaimsFollowDelivery
  <2> SUFFICES ASSUME IInv, NEW o \in Orders, rated[o] \/ RowsOf(o) # {}
               PROVE  "delivered" \in reached[o] /\ proof[o] /\ courierId[o] # None
    BY DEF ClaimsFollowDelivery
  <2>1. "delivered" \in reached[o]
    <3>1. CASE rated[o]
      BY <3>1 DEF IInv, MilestonesInOrder, MilestonesOf
    <3>2. CASE RowsOf(o) # {}
      <4>1. PICK q \in Rows : refundRow[q].order = o
        BY <3>2 DEF RowsOf
      <4>2. o # None
        BY NoneAssumption
      <4>3. QED
        BY <4>1, <4>2 DEF IInv, RowsAreSound
    <3>3. QED
      BY <3>1, <3>2
  <2>2. QED
    BY <2>1, NoneAssumption DEF IInv, MilestonesInOrder, MilestonesOf
<1>2. QED
  BY Invariance, <1>1, PTL

(* Purchase rows are only lost to refund requests that were paid back.     *)
THEOREM PurchasesKept == Spec => []PurchasesLostToRefunds
<1>1. IInv => PurchasesLostToRefunds
  BY DEF IInv, SalesAreSound
<1>2. QED
  BY Invariance, <1>1, PTL

(* The handlers of Orders, however they interleave, implement what         *)
(* OrderPromise says of one order.                                         *)
THEOREM PromiseKept == Spec => KeepsPromise
<1>1. Init => Promise!Init
  BY DEF Init, Promise!Init
<1>2. QED
  BY Invariance, <1>1, PromiseStep, PTL DEF Spec, KeepsPromise, Promise!Spec

=============================================================================
