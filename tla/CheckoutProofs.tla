--------------------------- MODULE CheckoutProofs ---------------------------
(***************************************************************************)
(* What is proved of the checkout and the carts: the types, what each      *)
(* handler remembers of its customer (IInv), and the points of customers   *)
(* who come one at a time.                                                 *)
(***************************************************************************)
EXTENDS CheckoutProperties, FiniteSetTheorems, TLAPS

(* Records, once: the steps below take Arg and Bill as they are.           *)
LEMMA Records ==
    /\ NoArg \in Arg /\ NoArg.intent = None
    /\ NoBill \in Bill
    /\ \A a \in Arg : /\ a.customer \in Customers \cup {None}
                      /\ a.product \in Products \cup {None}
                      /\ a.seen \in Nat
                      /\ a.amount \in Nat
                      /\ a.member \in Memberships
                      /\ a.prices \in Seq(Lines)
                      /\ a.intent \in Intents \cup {None}
<1>1. <<>> \in Seq(Lines)
  OBVIOUS
<1>2. QED
  BY <1>1 DEF Arg, NoArg, Bill, NoBill, Memberships

LEMMA Updates == \A a \in Arg :
    /\ \A n \in Nat : [a EXCEPT !.seen = n] \in Arg
    /\ \A l \in Seq(Lines) : [a EXCEPT !.prices = l] \in Arg
    /\ \A i \in Intents : [a EXCEPT !.intent = i, !.prices = <<>>] \in Arg
<1>1. <<>> \in Seq(Lines)
  OBVIOUS
<1>2. QED
  BY <1>1 DEF Arg

LEMMA EarnedIsNat == \A m \in Memberships : Earned(m) \in Nat
  BY PointsAssumption DEF Earned, Memberships

LEMMA InitInvariant == Init => IInv
<1> SUFFICES ASSUME Init PROVE IInv
  OBVIOUS
<1> USE DEF Init
<1>1. TypeOK
  BY Records, PointsAssumption, QuantityAssumption, BoundAssumption
  DEF TypeOK, Steps, Memberships
<1>2. PointsWithinHistory /\ PointsNeverNegative
  BY PointsAssumption DEF PointsWithinHistory, PointsNeverNegative
<1>3. CartNotInflated /\ RateNotInflated
  BY DEF CartNotInflated, RateNotInflated
<1>4. PayersRemember /\ CartersRemember
  BY DEF PayersRemember, CartersRemember, Paying, Carting
<1>5. SalesAreCharged
  BY DEF SalesAreCharged
<1>6. ChargesInHand
  BY Records DEF ChargesInHand, Charged
<1>7. QED
  BY <1>1, <1>2, <1>3, <1>4, <1>5, <1>6 DEF IInv

-----------------------------------------------------------------------------
LEMMA TypeStep == IInv /\ [Next]_vars => TypeOK'
<1> SUFFICES ASSUME IInv, [Next]_vars PROVE TypeOK'
  OBVIOUS
<1> TypeOK /\ PointsNeverNegative /\ PayersRemember /\ CartersRemember /\ ChargesInHand
  BY DEF IInv
<1> USE DEF TypeOK, wallet, basket, sales
<1>1. ASSUME NEW r \in Requests, Finish(r)
      PROVE  pc' \in [Requests -> Steps] /\ arg' \in [Requests -> Arg]
  BY <1>1, Records DEF Finish, Steps
<1>2. ASSUME NEW r \in Requests, NEW c \in Customers, NEW spend \in Spends \cup {0},
             PayRead(r, c, spend)
      PROVE  TypeOK'
  <2>1. points[c] \in Nat /\ spend \in Nat /\ membership[c] \in Memberships
    BY PointsAssumption DEF PointsNeverNegative
  <2>2. [NoArg EXCEPT !.customer = c, !.seen = points[c], !.amount = spend,
                      !.member = membership[c]] \in Arg
    BY <2>1, Records DEF Arg, NoArg
  <2>3. QED
    BY <1>2, <2>2 DEF PayRead, Begin, Steps
<1>3. ASSUME NEW r \in Requests, NEW line \in Lines, PriceLine(r, line) PROVE TypeOK'
  <2>1. Append(arg[r].prices, line) \in Seq(Lines)
    BY Records
  <2>2. [arg[r] EXCEPT !.prices = Append(arg[r].prices, line)] \in Arg
    BY <2>1, Updates
  <2>3. arg' = [arg EXCEPT ![r] = [arg[r] EXCEPT !.prices = Append(arg[r].prices, line)]]
    BY <1>3 DEF PriceLine
  <2>4. arg' \in [Requests -> Arg]
    BY <2>2, <2>3
  <2>5. pc' \in [Requests -> Steps]
    BY <1>3 DEF PriceLine, Proceed, Steps
  <2>6. QED
    BY <1>3, <2>4, <2>5 DEF PriceLine
<1>4. ASSUME NEW r \in Requests, PayCharge(r) PROVE TypeOK'
  <2>1. CASE Finish(r) /\ UNCHANGED <<bill, spent>>
    BY <1>1, <1>4, <2>1 DEF PayCharge
  <2>2. ASSUME NEW i \in Intents,
               bill' = [bill EXCEPT ![i] = [customer |-> arg[r].customer, prices |-> arg[r].prices]],
               spent' = [spent EXCEPT ![arg[r].customer] = @ + arg[r].amount],
               Proceed(r, "pay.charge", "pay.save"),
               arg' = [arg EXCEPT ![r] = [arg[r] EXCEPT !.intent = i, !.prices = <<>>]]
        PROVE  TypeOK'
    <3>1. [customer |-> arg[r].customer, prices |-> arg[r].prices] \in Bill
      BY Records DEF Bill
    <3>2. [arg[r] EXCEPT !.intent = i, !.prices = <<>>] \in Arg
      BY Updates
    <3>3. arg' \in [Requests -> Arg]
      BY <2>2, <3>2
    <3>4. pc' \in [Requests -> Steps]
      BY <2>2 DEF Proceed, Steps
    <3>5. spent' \in [Customers -> Nat]
      <4>1. arg[r].customer \in Customers /\ arg[r].amount \in Nat
        BY <2>2, Records DEF Proceed, PayersRemember, Paying
      <4>2. QED
        BY <2>2, <4>1
    <3>6. bill' \in [Intents -> Bill]
      BY <2>2, <3>1
    <3>7. QED
      BY <1>4, <3>3, <3>4, <3>5, <3>6 DEF PayCharge
  <2>3. QED
    BY <1>4, <2>1, <2>2, ZenonT(60) DEF PayCharge
<1>5. ASSUME NEW r \in Requests, PaySave(r) PROVE TypeOK'
  <2>1. /\ arg[r].customer \in Customers /\ arg[r].seen \in Nat /\ arg[r].amount \in Nat
        /\ Earned(arg[r].member) \in Nat /\ arg[r].intent \in Intents \cup {None}
    BY <1>5, Records, EarnedIsNat DEF PaySave, Proceed, PayersRemember, Paying
  <2>2. [NoArg EXCEPT !.customer = arg[r].customer, !.intent = arg[r].intent] \in Arg
    BY <2>1, Records DEF Arg, NoArg
  <2>3. arg' \in [Requests -> Arg] /\ pc' \in [Requests -> Steps]
    BY <1>5, <2>2 DEF PaySave, Proceed, Steps
  <2>4. points' \in [Customers -> Int] /\ granted' \in [Customers -> Nat]
    BY <1>5, <2>1 DEF PaySave
  <2>5. QED
    BY <1>5, <2>3, <2>4 DEF PaySave
<1>6. ASSUME NEW r \in Requests, OrderCreate(r) \/ OrderCommit(r) PROVE TypeOK'
  <2>1. order' \in [Intents -> {"none", "inserted", "committed"}]
    BY <1>6 DEF OrderCreate, OrderCommit
  <2>2. pc' \in [Requests -> Steps] /\ arg' \in [Requests -> Arg]
    BY <1>1, <1>6 DEF OrderCreate, OrderCommit, Proceed, Steps
  <2>3. QED
    BY <1>6, <2>1, <2>2 DEF OrderCreate, OrderCommit
<1>7. ASSUME NEW r \in Requests, OrderClear(r) PROVE TypeOK'
  <2>1. cart' \in [Customers -> [Products -> Nat]]
    <3>1. cart' = [cart EXCEPT ![arg[r].customer] = [p \in Products |-> 0]] \/ cart' = cart
      BY <1>7 DEF OrderClear, RemoveProducts
    <3>2. CASE cart' = cart
      BY <3>2
    <3>3. CASE cart' = [cart EXCEPT ![arg[r].customer] = [p \in Products |-> 0]]
      <4>1. [p \in Products |-> 0] \in [Products -> Nat]
        OBVIOUS
      <4>2. QED
        BY <3>3, <4>1
    <3>4. QED
      BY <3>1, <3>2, <3>3
  <2>2. QED
    BY <1>7, <2>1 DEF OrderClear, Proceed, Steps
<1>8. ASSUME NEW i \in Intents, NEW line \in Lines, RecordPurchase(i, line) PROVE TypeOK'
  <2>1. sold[i][line] \in 0..Copies /\ sold[i][line] < Copies
    BY <1>8 DEF RecordPurchase
  <2>2. sold[i][line] + 1 \in 0..Copies
    BY <2>1, QuantityAssumption
  <2>3. sold' \in [Intents -> [Lines -> 0..Copies]]
    BY <1>8, <2>2 DEF RecordPurchase
  <2>4. QED
    BY <1>8, <2>3 DEF RecordPurchase
<1>9. ASSUME NEW r \in Requests, NEW c \in Customers, NEW p \in Products,
             NEW quantity \in Quantities, AddRead(r, c, p, quantity)
      PROVE  TypeOK'
  <2>1. addToCartRate[p] \in Nat /\ quantity \in Nat
    BY QuantityAssumption
  <2>2. [NoArg EXCEPT !.customer = c, !.product = p, !.seen = addToCartRate[p],
                      !.amount = quantity] \in Arg
    BY <2>1, Records DEF Arg, NoArg
  <2>3. QED
    BY <1>9, <2>2 DEF AddRead, Begin, Steps
<1>10. ASSUME NEW r \in Requests, AddCount(r) PROVE TypeOK'
  BY <1>1, <1>10 DEF AddCount, Proceed, Steps
<1>11. ASSUME NEW r \in Requests, AddFind(r) PROVE TypeOK'
  <2>1. PICK c \in Customers, p \in Products :
           c = arg[r].customer /\ p = arg[r].product /\ pc[r] = "add.find"
    BY <1>11 DEF AddFind, CartersRemember, Carting
  <2>2. CASE cart[c][p] = 0
    <3>1. /\ Proceed(r, "add.find", "add.rate") /\ arg' = arg
          /\ cart' = [cart EXCEPT ![c][p] = arg[r].amount]
          /\ added' = [added EXCEPT ![c][p] = @ + arg[r].amount]
          /\ created' = [created EXCEPT ![p] = @ + 1]
      BY <1>11, <2>1, <2>2 DEF AddFind
    <3>2. arg[r].amount \in Nat
      BY Records
    <3>3. cart' \in [Customers -> [Products -> Nat]]
      BY <3>1, <3>2
    <3>4. added' \in [Customers -> [Products -> Nat]]
      BY <3>1, <3>2
    <3>5. created' \in [Products -> Nat]
      BY <3>1
    <3>6. QED
      BY <1>11, <3>1, <3>3, <3>4, <3>5 DEF AddFind, Proceed, Steps
  <2>3. CASE cart[c][p] # 0
    <3>1. [arg[r] EXCEPT !.seen = cart[c][p]] \in Arg
      <4>1. cart[c][p] \in Nat
        OBVIOUS
      <4>2. QED
        BY <4>1, Updates
    <3>2. /\ Proceed(r, "add.find", "add.save") /\ UNCHANGED <<cart, added, created>>
          /\ arg' = [arg EXCEPT ![r] = [arg[r] EXCEPT !.seen = cart[c][p]]]
      BY <1>11, <2>1, <2>3 DEF AddFind, Read
    <3>3. arg' \in [Requests -> Arg] /\ pc' \in [Requests -> Steps]
      BY <3>1, <3>2 DEF Proceed, Steps
    <3>4. QED
      BY <1>11, <3>2, <3>3 DEF AddFind
  <2>4. QED
    BY <2>2, <2>3
<1>12. ASSUME NEW r \in Requests, AddSave(r) \/ RemoveSave(r) \/ RemoveDestroy(r) PROVE TypeOK'
  <2>1. PICK c \in Customers, p \in Products : c = arg[r].customer /\ p = arg[r].product
    BY <1>12 DEF AddSave, RemoveSave, RemoveDestroy, CartersRemember, Carting
  <2>2. arg[r].seen \in Nat /\ arg[r].amount \in Nat
    BY Records
  <2>3. \E n \in Nat : cart' = [cart EXCEPT ![c][p] = n]
    <3>1. CASE AddSave(r)
      <4>1. cart' = [cart EXCEPT ![c][p] = IF cart[c][p] = 0 THEN 0 ELSE arg[r].seen + arg[r].amount]
        BY <2>1, <3>1 DEF AddSave
      <4>2. QED
        BY <2>2, <4>1, arg[r].seen + arg[r].amount \in Nat, 0 \in Nat
    <3>2. CASE RemoveSave(r)
      <4>1. cart' = [cart EXCEPT ![c][p] = IF cart[c][p] = 0 THEN 0 ELSE arg[r].seen - 1]
        BY <2>1, <3>2 DEF RemoveSave
      <4>2. arg[r].seen >= 1
        BY <3>2 DEF RemoveSave, CartersRemember, Carting
      <4>3. arg[r].seen - 1 \in Nat
        BY <2>2, <4>2
      <4>4. QED
        BY <4>1, <4>3
    <3>3. CASE RemoveDestroy(r)
      BY <2>1, <3>3 DEF RemoveDestroy
    <3>4. QED
      BY <1>12, <3>1, <3>2, <3>3
  <2>4. cart' \in [Customers -> [Products -> Nat]]
    BY <2>3
  <2>5. added' \in [Customers -> [Products -> Nat]]
    <3>1. added' = added \/ added' = [added EXCEPT ![c][p] = added[c][p] + arg[r].amount]
      <4>1. CASE AddSave(r)
        BY <2>1, <4>1 DEF AddSave
      <4>2. CASE RemoveSave(r) \/ RemoveDestroy(r)
        BY <4>2 DEF RemoveSave, RemoveDestroy
      <4>3. QED
        BY <1>12, <4>1, <4>2
    <3>2. added[c][p] + arg[r].amount \in Nat
      BY <2>2
    <3>3. CASE added' = added
      BY <3>3
    <3>4. CASE \E n \in Nat : added' = [added EXCEPT ![c][p] = n]
      BY <3>4
    <3>5. QED
      BY <3>1, <3>2, <3>3, <3>4
  <2>6. pc' \in [Requests -> Steps] /\ arg' \in [Requests -> Arg]
    BY <1>1, <1>12 DEF AddSave, RemoveSave, RemoveDestroy
  <2>7. QED
    BY <1>12, <2>4, <2>5, <2>6 DEF AddSave, RemoveSave, RemoveDestroy
<1>13. ASSUME NEW r \in Requests, AddRate(r) PROVE TypeOK'
  <2>1. arg[r].seen + 1 \in Nat
    BY Records
  <2>2. addToCartRate' \in [Products -> Nat]
    BY <1>13, <2>1 DEF AddRate
  <2>3. QED
    BY <1>1, <1>13, <2>2 DEF AddRate
<1>14. ASSUME NEW r \in Requests, NEW c \in Customers, NEW p \in Products, RemoveRead(r, c, p)
       PROVE  TypeOK'
  <2>1. [NoArg EXCEPT !.customer = c, !.product = p, !.seen = cart[c][p]] \in Arg
    <3>1. cart[c][p] \in Nat
      OBVIOUS
    <3>2. QED
      BY <3>1, Records DEF Arg, NoArg
  <2>2. QED
    BY <1>14, <2>1 DEF RemoveRead, Begin, Steps
<1>15. ASSUME NEW c \in Customers, ClearCart(c) PROVE TypeOK'
  BY <1>15 DEF ClearCart, RemoveProducts
<1>16. ASSUME HolidayPromotion PROVE TypeOK'
  BY <1>16, PointsAssumption, BoundAssumption DEF HolidayPromotion
<1>17. ASSUME NEW c \in Customers, ChangeMembership(c) PROVE TypeOK'
  BY <1>17, TiersAssumption DEF ChangeMembership
<1>18. ASSUME NEW r \in Requests, Abort(r) PROVE TypeOK'
  BY <1>1, <1>18 DEF Abort
<1>19. CASE UNCHANGED vars
  BY <1>19 DEF vars
<1>20. QED
  BY <1>2, <1>3, <1>4, <1>5, <1>6, <1>7, <1>8, <1>9, <1>10, <1>11, <1>12, <1>13, <1>14,
     <1>15, <1>16, <1>17, <1>18, <1>19
  DEF Next, Arrive, Continue

-----------------------------------------------------------------------------
(* What never goes back, whoever makes the step.                           *)
Growing ==
    /\ \A c \in Customers : granted[c] <= granted'[c] /\ spent[c] <= spent'[c]
    /\ \A c \in Customers, p \in Products : added[c][p] <= added'[c][p]
    /\ \A p \in Products : created[p] <= created'[p]
    /\ \A i \in Intents : bill[i] # NoBill => bill'[i] # NoBill

LEMMA Growth == IInv /\ [Next]_vars => Growing
<1> SUFFICES ASSUME IInv, [Next]_vars PROVE Growing
  OBVIOUS
<1> TypeOK /\ PayersRemember /\ CartersRemember
  BY DEF IInv
<1> USE DEF TypeOK, wallet, basket, sales
<1>1. ASSUME UNCHANGED <<granted, spent, added, created, bill>> PROVE Growing
  BY <1>1 DEF Growing
<1>2. ASSUME NEW r \in Requests, PayCharge(r) PROVE Growing
  <2>1. CASE UNCHANGED <<bill, spent>>
    BY <1>1, <1>2, <2>1 DEF PayCharge
  <2>2. ASSUME NEW i \in Intents, NEW b, bill[i] = NoBill, bill' = [bill EXCEPT ![i] = b],
               spent' = [spent EXCEPT ![arg[r].customer] = @ + arg[r].amount]
        PROVE  Growing
    <3>1. arg[r].customer \in Customers /\ arg[r].amount \in Nat
      BY <1>2, Records DEF PayCharge, PayersRemember, Paying
    <3>2. \A c \in Customers : spent[c] <= spent'[c]
      BY <2>2, <3>1
    <3>3. QED
      BY <1>2, <2>2, <3>2 DEF PayCharge, Growing
  <2>3. QED
    BY <1>2, <2>1, <2>2 DEF PayCharge
<1>3. ASSUME NEW r \in Requests, PaySave(r) PROVE Growing
  <2>1. Earned(arg[r].member) \in Nat
    BY Records, EarnedIsNat
  <2>2. \A c \in Customers : granted[c] <= granted'[c]
    BY <1>3, <2>1 DEF PaySave
  <2>3. QED
    BY <1>3, <2>2 DEF PaySave, Growing
<1>4. ASSUME NEW r \in Requests, AddFind(r) \/ AddSave(r) PROVE Growing
  <2>1. PICK c \in Customers, p \in Products : c = arg[r].customer /\ p = arg[r].product
    BY <1>4 DEF AddFind, AddSave, CartersRemember, Carting
  <2>2. /\ added' = added \/ added' = [added EXCEPT ![c][p] = added[c][p] + arg[r].amount]
        /\ created' = created \/ created' = [created EXCEPT ![p] = created[p] + 1]
        /\ UNCHANGED <<granted, spent, bill>>
    <3>1. CASE AddFind(r)
      BY <2>1, <3>1 DEF AddFind
    <3>2. CASE AddSave(r)
      BY <2>1, <3>2 DEF AddSave
    <3>3. QED
      BY <1>4, <3>1, <3>2
  <2>3. added[c][p] \in Nat /\ arg[r].amount \in Nat
    BY Records
  <2>4. ASSUME NEW d \in Customers, NEW q \in Products PROVE added[d][q] <= added'[d][q]
    <3>1. added[d][q] \in Nat
      OBVIOUS
    <3>2. CASE added' = added
      BY <3>1, <3>2
    <3>3. CASE added' = [added EXCEPT ![c][p] = added[c][p] + arg[r].amount]
      <4>1. added'[d][q] = IF d = c /\ q = p THEN added[c][p] + arg[r].amount ELSE added[d][q]
        BY <3>3
      <4>2. QED
        BY <2>3, <3>1, <4>1
    <3>4. QED
      BY <2>2, <3>2, <3>3
  <2>5. \A q \in Products : created[q] <= created'[q]
    BY <2>2
  <2>6. QED
    BY <2>2, <2>4, <2>5 DEF Growing
<1>5. ASSUME HolidayPromotion PROVE Growing
  <2>1. \A c \in Customers : granted[c] <= granted'[c]
    BY <1>5, PointsAssumption DEF HolidayPromotion
  <2>2. QED
    BY <1>5, <2>1 DEF HolidayPromotion, Growing
<1>6. QED
  BY <1>1, <1>2, <1>3, <1>4, <1>5, ZenonT(60)
  DEF Next, vars, Arrive, Continue, Abort, PayRead, PriceLine, OrderCreate, OrderClear, OrderCommit,
      RecordPurchase, AddRead, AddCount, AddRate, RemoveRead, RemoveSave, RemoveDestroy,
      ClearCart, ChangeMembership

(* A handler either rests or makes the step itself.                        *)
Rests(r) == pc'[r] = pc[r] /\ arg'[r] = arg[r]
Works(r) == Arrive(r) \/ Continue(r) \/ Abort(r)

LEMMA OthersRest ==
    ASSUME TypeOK, NEW r \in Requests, NEW s \in Requests, r # s, Works(r)
    PROVE  Rests(s)
<1> USE DEF TypeOK, Rests
<1>1. ASSUME NEW a, NEW step, Begin(r, a, step) PROVE Rests(s)
  BY <1>1 DEF Begin
<1>2. CASE Finish(r)
  BY <1>2 DEF Finish
<1>3. CASE Arrive(r)
  BY <1>1, <1>3 DEF Arrive, PayRead, AddRead, RemoveRead
<1>4. ASSUME NEW at, NEW step, NEW a, Proceed(r, at, step), arg' = arg \/ arg' = [arg EXCEPT ![r] = a]
      PROVE  Rests(s)
  BY <1>4 DEF Proceed
<1>5. CASE \E line \in Lines : PriceLine(r, line)
  BY <1>5 DEF PriceLine, Proceed
<1>6. CASE PayCharge(r)
  BY <1>2, <1>6 DEF PayCharge, Proceed
<1>7. CASE PaySave(r)
  BY <1>4, <1>7 DEF PaySave
<1>8. CASE OrderCreate(r) \/ OrderClear(r)
  BY <1>4, <1>8 DEF OrderCreate, OrderClear
<1>9. CASE AddCount(r)
  BY <1>2, <1>4, <1>9 DEF AddCount
<1>10. CASE AddFind(r)
  BY <1>10 DEF AddFind, Read, Proceed
<1>11. CASE OrderCommit(r) \/ AddSave(r) \/ AddRate(r) \/ RemoveSave(r) \/ RemoveDestroy(r) \/ Abort(r)
  BY <1>2, <1>11 DEF OrderCommit, AddSave, AddRate, RemoveSave, RemoveDestroy, Abort
<1>12. QED
  BY <1>3, <1>5, <1>6, <1>7, <1>8, <1>9, <1>10, <1>11 DEF Works, Continue

LEMMA SlotStep ==
    IInv /\ [Next]_vars => \A s \in Requests : Rests(s) \/ Works(s)
<1> SUFFICES ASSUME IInv, [Next]_vars, NEW s \in Requests PROVE Rests(s) \/ Works(s)
  OBVIOUS
<1>1. CASE UNCHANGED <<pc, arg>>
  BY <1>1 DEF Rests
<1>2. CASE \E r \in Requests : Works(r)
  BY <1>2, OthersRest DEF IInv
<1>3. QED
  BY <1>1, <1>2
  DEF Next, vars, Works, RecordPurchase, ClearCart, ChangeMembership, HolidayPromotion

-----------------------------------------------------------------------------
LEMMA PayersStep == IInv /\ [Next]_vars => PayersRemember'
<1> SUFFICES ASSUME IInv, [Next]_vars, NEW s \in Requests
             PROVE  /\ pc'[s] \in Paying => arg'[s].customer \in Customers
                    /\ pc'[s] \in {"pay.price", "pay.charge", "pay.save"} =>
                          arg'[s].amount <= arg'[s].seen /\ arg'[s].seen <= granted'[arg'[s].customer]
                    /\ pc'[s] \in {"pay.price", "pay.charge"} =>
                          Welcome - spent'[arg'[s].customer] <= arg'[s].seen
                    /\ pc'[s] = "pay.save" =>
                          Welcome - spent'[arg'[s].customer] <= arg'[s].seen - arg'[s].amount
  BY DEF PayersRemember
<1> TypeOK /\ TypeOK' /\ PayersRemember /\ PointsWithinHistory
  BY TypeStep DEF IInv
<1>1. \A c \in Customers :
         /\ granted[c] \in Nat /\ granted'[c] \in Nat /\ granted[c] <= granted'[c]
         /\ spent[c] \in Nat /\ spent'[c] \in Nat /\ spent[c] <= spent'[c]
  BY Growth DEF Growing, TypeOK
<1>2. /\ arg[s].seen \in Nat /\ arg[s].amount \in Nat /\ Welcome \in Nat
      /\ arg'[s].seen \in Nat /\ arg'[s].amount \in Nat
  BY Records, PointsAssumption DEF TypeOK
<1>3. ASSUME pc[s] \in Paying, arg'[s].customer = arg[s].customer, arg'[s].seen = arg[s].seen,
             arg'[s].amount = arg[s].amount,
             pc'[s] \in {"pay.price", "pay.charge"} => pc[s] \in {"pay.price", "pay.charge"},
             pc'[s] = "pay.save" => pc[s] = "pay.save"
      PROVE  /\ pc'[s] \in Paying => arg'[s].customer \in Customers
             /\ pc'[s] \in {"pay.price", "pay.charge", "pay.save"} =>
                   arg'[s].amount <= arg'[s].seen /\ arg'[s].seen <= granted'[arg'[s].customer]
             /\ pc'[s] \in {"pay.price", "pay.charge"} =>
                   Welcome - spent'[arg'[s].customer] <= arg'[s].seen
             /\ pc'[s] = "pay.save" =>
                   Welcome - spent'[arg'[s].customer] <= arg'[s].seen - arg'[s].amount
  <2>1. PICK c \in Customers : c = arg[s].customer
    BY <1>3 DEF PayersRemember
  <2>2. QED
    BY <1>1, <1>2, <1>3, <2>1 DEF PayersRemember
<1>4. CASE Rests(s)
  BY <1>3, <1>4 DEF Rests, Paying
<1>5. ASSUME NEW c \in Customers, NEW spend \in Spends \cup {0}, PayRead(s, c, spend)
      PROVE  /\ arg'[s].customer = c /\ arg'[s].amount <= arg'[s].seen
             /\ arg'[s].seen <= granted'[c] /\ Welcome - spent'[c] <= arg'[s].seen
             /\ pc'[s] = "pay.price"
  <2>1. /\ arg'[s].customer = c /\ arg'[s].seen = points[c] /\ arg'[s].amount = spend
        /\ pc'[s] = "pay.price"
    BY <1>5 DEF PayRead, Begin, TypeOK, NoArg
  <2>2. spend <= points[c] /\ granted' = granted /\ spent' = spent
    BY <1>5 DEF PayRead, wallet
  <2>3. QED
    BY <2>1, <2>2 DEF PointsWithinHistory
<1>6. ASSUME NEW line \in Lines, PriceLine(s, line)
      PROVE  /\ pc[s] = "pay.price" /\ pc'[s] \in {"pay.price", "pay.charge"}
             /\ arg'[s].customer = arg[s].customer /\ arg'[s].seen = arg[s].seen
             /\ arg'[s].amount = arg[s].amount
  <2>1. pc[s] = "pay.price" /\ pc'[s] \in {"pay.price", "pay.charge"}
    BY <1>6 DEF PriceLine, Proceed, TypeOK
  <2>2. arg'[s] = [arg[s] EXCEPT !.prices = Append(arg[s].prices, line)]
    BY <1>6 DEF PriceLine, TypeOK
  <2>3. arg[s] \in Arg
    BY DEF TypeOK
  <2>4. QED
    BY <2>1, <2>2, <2>3 DEF Arg
<1>7. ASSUME PayCharge(s), pc'[s] # "idle"
      PROVE  /\ pc[s] = "pay.charge" /\ pc'[s] = "pay.save" /\ granted' = granted
             /\ spent' = [spent EXCEPT ![arg[s].customer] = @ + arg[s].amount]
             /\ arg'[s].customer = arg[s].customer /\ arg'[s].seen = arg[s].seen
             /\ arg'[s].amount = arg[s].amount
  <2>1. /\ pc[s] = "pay.charge" /\ granted' = granted /\ ~Finish(s)
    BY <1>7 DEF PayCharge, Finish, TypeOK
  <2>2. PICK i \in Intents :
           /\ spent' = [spent EXCEPT ![arg[s].customer] = @ + arg[s].amount]
           /\ Proceed(s, "pay.charge", "pay.save")
           /\ arg' = [arg EXCEPT ![s] = [arg[s] EXCEPT !.intent = i, !.prices = <<>>]]
    BY <1>7, <2>1, ZenonT(60) DEF PayCharge
  <2>3. pc'[s] = "pay.save"
    BY <2>2 DEF Proceed, TypeOK
  <2>4. arg'[s] = [arg[s] EXCEPT !.intent = i, !.prices = <<>>] /\ arg[s] \in Arg
    BY <2>2 DEF TypeOK
  <2>5. QED
    BY <2>1, <2>2, <2>3, <2>4 DEF Arg
<1>8. ASSUME PaySave(s)
      PROVE  pc'[s] = "order.create" /\ arg'[s].customer \in Customers
  <2>1. pc'[s] = "order.create" /\ pc[s] = "pay.save"
    BY <1>8 DEF PaySave, Proceed, TypeOK
  <2>2. arg'[s] = [NoArg EXCEPT !.customer = arg[s].customer, !.intent = arg[s].intent]
    BY <1>8 DEF PaySave, TypeOK
  <2>3. QED
    BY <2>1, <2>2 DEF PayersRemember, Paying, NoArg
<1>9. ASSUME OrderCreate(s) \/ OrderClear(s)
      PROVE  /\ pc[s] \in Paying /\ pc'[s] \in {"order.clear", "order.commit"}
             /\ arg'[s] = arg[s]
  BY <1>9 DEF OrderCreate, OrderClear, Proceed, TypeOK, Paying
<1>10. ASSUME \/ \E c \in Customers, p \in Products :
                    RemoveRead(s, c, p) \/ \E quantity \in Quantities : AddRead(s, c, p, quantity)
              \/ AddCount(s) \/ AddFind(s) \/ AddSave(s) \/ AddRate(s) \/ RemoveSave(s)
              \/ RemoveDestroy(s) \/ OrderCommit(s) \/ Abort(s)
       PROVE  pc'[s] \notin Paying
  <2>1. CASE Finish(s)
    BY <2>1 DEF Finish, TypeOK, Paying
  <2>2. CASE \E a, step : step \notin Paying /\ Begin(s, a, step)
    BY <2>2 DEF Begin, TypeOK
  <2>3. CASE \E at, step : step \notin Paying /\ Proceed(s, at, step)
    BY <2>3 DEF Proceed, TypeOK
  <2>4. CASE \E c \in Customers, p \in Products :
                RemoveRead(s, c, p) \/ \E quantity \in Quantities : AddRead(s, c, p, quantity)
    BY <2>2, <2>4 DEF RemoveRead, AddRead, Paying
  <2>5. CASE AddCount(s) \/ AddFind(s)
    BY <2>1, <2>3, <2>5 DEF AddCount, AddFind, Paying
  <2>6. CASE \/ AddSave(s) \/ AddRate(s) \/ RemoveSave(s) \/ RemoveDestroy(s)
             \/ OrderCommit(s) \/ Abort(s)
    BY <2>1, <2>6 DEF AddSave, AddRate, RemoveSave, RemoveDestroy, OrderCommit, Abort
  <2>7. QED
    BY <1>10, <2>4, <2>5, <2>6
<1>11. CASE \E c \in Customers, spend \in Spends \cup {0} : PayRead(s, c, spend)
  BY <1>5, <1>11
<1>12. CASE \E line \in Lines : PriceLine(s, line)
  BY <1>3, <1>6, <1>12 DEF Paying
<1>13. CASE PayCharge(s)
  <2>1. CASE pc'[s] = "idle"
    BY <2>1 DEF Paying
  <2>2. CASE pc'[s] # "idle"
    <3>1. PICK c \in Customers : c = arg[s].customer
      BY <1>7, <1>13, <2>2 DEF PayersRemember, Paying
    <3>2. spent'[c] = spent[c] + arg[s].amount
      BY <1>7, <1>13, <2>2, <3>1 DEF TypeOK
    <3>3. /\ arg[s].amount <= arg[s].seen /\ arg[s].seen <= granted[c]
          /\ Welcome - spent[c] <= arg[s].seen
      BY <1>7, <1>13, <2>2, <3>1 DEF PayersRemember
    <3>4. QED
      BY <1>1, <1>2, <1>7, <1>13, <2>2, <3>1, <3>2, <3>3
  <2>3. QED
    BY <2>1, <2>2
<1>14. CASE PaySave(s)
  BY <1>8, <1>14
<1>15. CASE OrderCreate(s) \/ OrderClear(s)
  BY <1>9, <1>15 DEF PayersRemember
<1>16. CASE pc'[s] \notin Paying
  BY <1>16 DEF Paying
<1>17. Rests(s) \/ Works(s)
  BY SlotStep
<1>18. QED
  BY <1>4, <1>10, <1>11, <1>12, <1>13, <1>14, <1>15, <1>16, <1>17 DEF Works, Arrive, Continue

LEMMA CartersStep == IInv /\ [Next]_vars => CartersRemember'
<1> SUFFICES ASSUME IInv, [Next]_vars, NEW s \in Requests, pc'[s] \in Carting
             PROVE  /\ arg'[s].customer \in Customers
                    /\ arg'[s].product \in Products
                    /\ pc'[s] \in {"add.count", "add.find"} =>
                          arg'[s].seen <= created'[arg'[s].product]
                    /\ pc'[s] = "add.rate" => arg'[s].seen + 1 <= created'[arg'[s].product]
                    /\ pc'[s] \in {"add.save", "remove.save"} =>
                          arg'[s].seen <= added'[arg'[s].customer][arg'[s].product]
                    /\ pc'[s] = "remove.save" => arg'[s].seen >= 1
  BY DEF CartersRemember
<1> TypeOK /\ TypeOK' /\ CartersRemember /\ CartNotInflated /\ RateNotInflated
  BY TypeStep DEF IInv
<1>1. /\ \A p \in Products : created[p] \in Nat /\ created'[p] \in Nat /\ created[p] <= created'[p]
      /\ \A c \in Customers, p \in Products :
            added[c][p] \in Nat /\ added'[c][p] \in Nat /\ added[c][p] <= added'[c][p]
  BY Growth DEF Growing, TypeOK
<1>2. arg[s].seen \in Nat /\ arg[s].amount \in Nat
  BY Records DEF TypeOK
<1> DEFINE Goal == 
      /\ arg'[s].customer \in Customers
      /\ arg'[s].product \in Products
      /\ pc'[s] \in {"add.count", "add.find"} => arg'[s].seen <= created'[arg'[s].product]
      /\ pc'[s] = "add.rate" => arg'[s].seen + 1 <= created'[arg'[s].product]
      /\ pc'[s] \in {"add.save", "remove.save"} =>
            arg'[s].seen <= added'[arg'[s].customer][arg'[s].product]
      /\ pc'[s] = "remove.save" => arg'[s].seen >= 1
<1>3. CASE arg'[s] = arg[s] /\ (pc'[s] = pc[s] \/ (pc[s] = "add.count" /\ pc'[s] = "add.find"))
  <2>1. PICK c \in Customers, p \in Products : c = arg[s].customer /\ p = arg[s].product
    BY <1>3 DEF CartersRemember, Carting
  <2>2. QED
    BY <1>1, <1>2, <1>3, <2>1 DEF CartersRemember, Carting
<1>4. ASSUME NEW c \in Customers, NEW p \in Products, NEW quantity \in Quantities,
             AddRead(s, c, p, quantity)
      PROVE  Goal
  <2>1. /\ arg'[s].customer = c /\ arg'[s].product = p /\ arg'[s].seen = addToCartRate[p]
        /\ pc'[s] = "add.count" /\ created' = created
    BY <1>4 DEF AddRead, Begin, TypeOK, NoArg, basket
  <2>2. QED
    BY <2>1 DEF RateNotInflated
<1>5. ASSUME NEW c \in Customers, NEW p \in Products, RemoveRead(s, c, p)
      PROVE  Goal
  <2>1. /\ arg'[s].customer = c /\ arg'[s].product = p /\ arg'[s].seen = cart[c][p]
        /\ pc'[s] = IF cart[c][p] > 1 THEN "remove.save" ELSE "remove.destroy"
        /\ added' = added /\ cart[c][p] \in Nat
    BY <1>5 DEF RemoveRead, Begin, TypeOK, NoArg, basket
  <2>2. QED
    BY <2>1 DEF CartNotInflated
<1>6. CASE AddFind(s)
  <2>1. PICK c \in Customers, p \in Products :
           c = arg[s].customer /\ p = arg[s].product /\ arg[s].seen <= created[p]
    BY <1>6 DEF AddFind, CartersRemember, Carting
  <2>2. CASE cart[c][p] = 0
    <3>1. pc'[s] = "add.rate" /\ arg' = arg /\ created'[p] = created[p] + 1
      BY <1>6, <2>1, <2>2 DEF AddFind, Proceed, TypeOK
    <3>2. QED
      BY <1>1, <1>2, <2>1, <3>1
  <2>3. CASE cart[c][p] # 0
    <3>1. /\ pc'[s] = "add.save" /\ added' = added
          /\ arg' = [arg EXCEPT ![s] = [arg[s] EXCEPT !.seen = cart[c][p]]]
      BY <1>6, <2>1, <2>3 DEF AddFind, Proceed, Read, TypeOK
    <3>2. arg'[s] = [arg[s] EXCEPT !.seen = cart[c][p]] /\ arg[s] \in Arg
      BY <3>1 DEF TypeOK
    <3>3. arg'[s].customer = c /\ arg'[s].product = p /\ arg'[s].seen = cart[c][p]
      BY <2>1, <3>2 DEF Arg
    <3>4. QED
      BY <3>1, <3>3 DEF CartNotInflated
  <2>4. QED
    BY <2>2, <2>3
<1>7. CASE AddCount(s)
  <2>1. ~Finish(s)
    BY DEF Finish, TypeOK, Carting
  <2>2. arg' = arg /\ pc[s] = "add.count" /\ pc'[s] = "add.find"
    BY <1>7, <2>1 DEF AddCount, Proceed, TypeOK
  <2>3. QED
    BY <1>3, <2>2
<1>8. ASSUME \/ \E c \in Customers, spend \in Spends \cup {0} : PayRead(s, c, spend)
             \/ \E line \in Lines : PriceLine(s, line)
             \/ PayCharge(s) \/ PaySave(s) \/ OrderCreate(s) \/ OrderClear(s) \/ OrderCommit(s)
             \/ AddSave(s) \/ AddRate(s) \/ RemoveSave(s) \/ RemoveDestroy(s) \/ Abort(s)
      PROVE  FALSE
  <2>1. ~Finish(s)
    BY DEF Finish, TypeOK, Carting
  <2>2. ASSUME NEW a, NEW step \in Paying, Begin(s, a, step) PROVE FALSE
    BY <2>2 DEF Begin, TypeOK, Carting, Paying
  <2>3. ASSUME NEW at, NEW step \in Paying, Proceed(s, at, step) PROVE FALSE
    BY <2>3 DEF Proceed, TypeOK, Carting, Paying
  <2>4. QED
    BY <1>8, <2>1, <2>2, <2>3
    DEF PayRead, PriceLine, PayCharge, PaySave, OrderCreate, OrderClear, OrderCommit, AddSave,
        AddRate, RemoveSave, RemoveDestroy, Abort, Paying
<1>9. CASE Rests(s)
  BY <1>3, <1>9 DEF Rests
<1>10. QED
  BY <1>4, <1>5, <1>6, <1>7, <1>8, <1>9, SlotStep DEF Works, Arrive, Continue

LEMMA WalletStep == IInv /\ [Next]_vars => PointsWithinHistory' /\ PointsNeverNegative'
<1> SUFFICES ASSUME IInv, [Next]_vars, NEW c \in Customers
             PROVE  /\ Welcome - spent'[c] <= points'[c]
                    /\ points'[c] <= granted'[c]
                    /\ points'[c] >= 0
  BY DEF PointsWithinHistory, PointsNeverNegative
<1> TypeOK /\ PayersRemember /\ PointsWithinHistory /\ PointsNeverNegative
  BY DEF IInv
<1>1. /\ granted[c] \in Nat /\ granted'[c] \in Nat /\ granted[c] <= granted'[c]
      /\ spent[c] \in Nat /\ spent'[c] \in Nat /\ spent[c] <= spent'[c]
      /\ points[c] \in Int /\ Welcome \in Nat
  BY Growth, TypeStep, PointsAssumption DEF Growing, TypeOK
<1>2. CASE points'[c] = points[c]
  BY <1>1, <1>2 DEF PointsWithinHistory, PointsNeverNegative
<1>3. ASSUME NEW r \in Requests, PaySave(r), c = arg[r].customer
      PROVE  /\ Welcome - spent'[c] <= points'[c]
             /\ points'[c] <= granted'[c]
             /\ points'[c] >= 0
  <2>1. /\ arg[r].seen \in Nat /\ arg[r].amount \in Nat /\ Earned(arg[r].member) \in Nat
    BY Records, EarnedIsNat DEF TypeOK
  <2>2. /\ points'[c] = arg[r].seen - arg[r].amount + Earned(arg[r].member)
        /\ granted'[c] = granted[c] + Earned(arg[r].member)
        /\ spent' = spent
    BY <1>3 DEF PaySave, TypeOK
  <2>3. /\ arg[r].amount <= arg[r].seen /\ arg[r].seen <= granted[c]
        /\ Welcome - spent[c] <= arg[r].seen - arg[r].amount
    BY <1>3 DEF PaySave, Proceed, PayersRemember
  <2>4. QED
    BY <1>1, <2>1, <2>2, <2>3
<1>4. CASE HolidayPromotion
  <2>1. /\ points'[c] = points[c] + Reward /\ granted'[c] = granted[c] + Reward /\ spent' = spent
        /\ Reward \in Nat
    BY <1>4, PointsAssumption DEF HolidayPromotion
  <2>2. QED
    BY <1>1, <2>1 DEF PointsWithinHistory, PointsNeverNegative
<1>5. ASSUME NEW r \in Requests, PaySave(r), c # arg[r].customer PROVE points'[c] = points[c]
  BY <1>5 DEF PaySave, TypeOK
<1>6. QED
  BY <1>2, <1>3, <1>4, <1>5, ZenonT(60)
  DEF Next, vars, wallet, Arrive, Continue, Abort, PayRead, PriceLine, PayCharge, OrderCreate,
      OrderClear, OrderCommit, RecordPurchase, AddRead, AddCount, AddFind, AddSave, AddRate,
      RemoveRead, RemoveSave, RemoveDestroy, ClearCart, ChangeMembership

LEMMA CartStep == IInv /\ [Next]_vars => CartNotInflated' /\ RateNotInflated'
<1> SUFFICES ASSUME IInv, [Next]_vars PROVE CartNotInflated' /\ RateNotInflated'
  OBVIOUS
<1> TypeOK /\ TypeOK' /\ CartersRemember /\ CartNotInflated /\ RateNotInflated
  BY TypeStep DEF IInv
<1>1. ASSUME NEW c \in Customers, NEW p \in Products PROVE cart'[c][p] <= added'[c][p]
  <2>1. /\ added[c][p] \in Nat /\ added'[c][p] \in Nat /\ added[c][p] <= added'[c][p]
        /\ cart[c][p] \in Nat /\ cart[c][p] <= added[c][p]
    BY Growth DEF Growing, TypeOK, CartNotInflated
  <2>2. CASE cart'[c][p] = cart[c][p] \/ cart'[c][p] = 0
    BY <2>1, <2>2
  <2>3. ASSUME NEW r \in Requests, AddFind(r) \/ AddSave(r) \/ RemoveSave(r) \/ RemoveDestroy(r)
        PROVE  cart'[c][p] <= added'[c][p]
    <3>1. PICK d \in Customers, q \in Products : d = arg[r].customer /\ q = arg[r].product
      BY <2>3 DEF AddFind, AddSave, RemoveSave, RemoveDestroy, Proceed, CartersRemember, Carting
    <3>2. arg[r].seen \in Nat /\ arg[r].amount \in Nat
      BY Records DEF TypeOK
    <3>3. CASE d # c \/ q # p
      <4>1. \E n : cart' = cart \/ cart' = [cart EXCEPT ![d][q] = n]
        <5>1. CASE AddFind(r)
          BY <3>1, <5>1 DEF AddFind
        <5>2. CASE AddSave(r)
          <6>1. cart' = [cart EXCEPT ![d][q] = IF cart[d][q] = 0 THEN 0 ELSE arg[r].seen + arg[r].amount]
            BY <3>1, <5>2 DEF AddSave
          <6>2. QED
            BY <6>1
        <5>3. CASE RemoveSave(r)
          <6>1. cart' = [cart EXCEPT ![d][q] = IF cart[d][q] = 0 THEN 0 ELSE arg[r].seen - 1]
            BY <3>1, <5>3 DEF RemoveSave
          <6>2. QED
            BY <6>1
        <5>4. CASE RemoveDestroy(r)
          BY <3>1, <5>4 DEF RemoveDestroy
        <5>5. QED
          BY <2>3, <5>1, <5>2, <5>3, <5>4
      <4>2. cart'[c][p] = cart[c][p]
        <5>1. CASE cart' = cart
          BY <5>1
        <5>2. ASSUME NEW n, cart' = [cart EXCEPT ![d][q] = n] PROVE cart'[c][p] = cart[c][p]
          BY <3>3, <5>2 DEF TypeOK
        <5>3. QED
          BY <4>1, <5>1, <5>2
      <4>3. QED
        BY <2>2, <4>2
    <3>4. CASE d = c /\ q = p
      <4>1. CASE AddFind(r) /\ cart[c][p] = 0
        <5>1. cart'[c][p] = arg[r].amount /\ added'[c][p] = added[c][p] + arg[r].amount
          BY <3>1, <3>4, <4>1 DEF AddFind, TypeOK
        <5>2. QED
          BY <2>1, <3>2, <5>1
      <4>2. CASE AddFind(r) /\ cart[c][p] # 0
        BY <2>2, <3>1, <3>4, <4>2 DEF AddFind
      <4>3. CASE AddSave(r)
        <5>1. /\ cart'[c][p] = IF cart[c][p] = 0 THEN 0 ELSE arg[r].seen + arg[r].amount
              /\ added'[c][p] = added[c][p] + arg[r].amount
          <6>1. /\ cart' = [cart EXCEPT ![c][p] = IF cart[c][p] = 0 THEN 0
                                                 ELSE arg[r].seen + arg[r].amount]
                /\ added' = [added EXCEPT ![c][p] = added[c][p] + arg[r].amount]
            BY <3>1, <3>4, <4>3 DEF AddSave
          <6>2. QED
            BY <6>1 DEF TypeOK
        <5>2. arg[r].seen <= added[c][p]
          BY <3>1, <3>4, <4>3 DEF AddSave, CartersRemember, Carting
        <5>3. QED
          BY <2>1, <3>2, <5>1, <5>2
      <4>4. CASE RemoveSave(r)
        <5>1. cart'[c][p] = IF cart[c][p] = 0 THEN 0 ELSE arg[r].seen - 1
          BY <3>1, <3>4, <4>4, ZenonT(60) DEF RemoveSave, TypeOK
        <5>2. arg[r].seen <= added[c][p]
          BY <3>1, <3>4, <4>4 DEF RemoveSave, CartersRemember, Carting
        <5>3. QED
          BY <2>1, <3>2, <5>1, <5>2
      <4>5. CASE RemoveDestroy(r)
        BY <2>2, <3>1, <3>4, <4>5 DEF RemoveDestroy, TypeOK
      <4>6. QED
        BY <2>3, <4>1, <4>2, <4>3, <4>4, <4>5
    <3>5. QED
      BY <3>3, <3>4
  <2>4. ASSUME NEW d \in Customers, RemoveProducts(d) PROVE cart'[c][p] <= added'[c][p]
    BY <2>2, <2>4, SMTT(60) DEF RemoveProducts, TypeOK
  <2>5. ASSUME NEW r \in Requests, OrderClear(r) PROVE cart'[c][p] <= added'[c][p]
    <3>1. arg[r].customer \in Customers
      BY <2>5 DEF OrderClear, Proceed, PayersRemember, Paying, IInv
    <3>2. QED
      BY <2>4, <2>5, <3>1 DEF OrderClear
  <2>6. ASSUME NEW d \in Customers, ClearCart(d) PROVE cart'[c][p] <= added'[c][p]
    BY <2>4, <2>6 DEF ClearCart
  <2>7. QED
    BY <2>2, <2>3, <2>5, <2>6, ZenonT(60)
    DEF Next, vars, basket, Arrive, Continue, Abort, PayRead, PriceLine, PayCharge, PaySave,
        OrderCreate, OrderCommit, RecordPurchase, AddRead, AddCount, AddRate, RemoveRead,
        HolidayPromotion, ChangeMembership
<1>2. ASSUME NEW p \in Products PROVE addToCartRate'[p] <= created'[p]
  <2>1. /\ created[p] \in Nat /\ created'[p] \in Nat /\ created[p] <= created'[p]
        /\ addToCartRate[p] \in Nat /\ addToCartRate[p] <= created[p]
    BY Growth DEF Growing, TypeOK, RateNotInflated
  <2>2. CASE addToCartRate'[p] = addToCartRate[p]
    BY <2>1, <2>2
  <2>3. ASSUME NEW r \in Requests, AddRate(r) PROVE addToCartRate'[p] <= created'[p]
    <3>1. CASE arg[r].product = p
      BY <2>3, <3>1 DEF AddRate, TypeOK, CartersRemember, Carting
    <3>2. CASE arg[r].product # p
      BY <2>2, <2>3, <3>2 DEF AddRate, TypeOK
    <3>3. QED
      BY <3>1, <3>2
  <2>4. QED
    BY <2>2, <2>3, ZenonT(60)
    DEF Next, vars, basket, Arrive, Continue, Abort, PayRead, PriceLine, PayCharge, PaySave,
        OrderCreate, OrderClear, OrderCommit, RecordPurchase, AddRead, AddCount, AddFind,
        AddSave, RemoveRead, RemoveSave, RemoveDestroy, ClearCart, HolidayPromotion,
        ChangeMembership
<1>3. QED
  BY <1>1, <1>2 DEF CartNotInflated, RateNotInflated

-----------------------------------------------------------------------------
(* What a step does to the charge in a handler's hands.                    *)
HoldsNone(s) == pc'[s] \notin Charged /\ arg'[s].intent = None
HoldsOn(s)   == /\ pc[s] \in Charged /\ pc'[s] \in Charged
                /\ arg'[s].intent = arg[s].intent
Charges(s, i) ==
    /\ PayCharge(s) /\ pc'[s] \in Charged
    /\ arg'[s].intent = i /\ bill[i] = NoBill /\ bill'[i] # NoBill

LEMMA ChargeStep ==
    IInv /\ [Next]_vars =>
        \A s \in Requests : HoldsNone(s) \/ HoldsOn(s) \/ \E i \in Intents : Charges(s, i)
<1> SUFFICES ASSUME IInv, [Next]_vars, NEW s \in Requests
             PROVE  HoldsNone(s) \/ HoldsOn(s) \/ \E i \in Intents : Charges(s, i)
  OBVIOUS
<1> TypeOK /\ PayersRemember
  BY DEF IInv
<1>0. pc[s] \in Charged <=> arg[s].intent # None
  BY DEF IInv, ChargesInHand
<1>1. CASE Rests(s)
  BY <1>0, <1>1 DEF Rests, HoldsNone, HoldsOn
<1>2. CASE Finish(s)
  BY <1>2, Records DEF Finish, HoldsNone, Charged, TypeOK
<1>3. CASE Arrive(s)
  <2>1. ASSUME NEW c \in Customers, NEW spend \in Spends \cup {0}, PayRead(s, c, spend)
        PROVE  HoldsNone(s)
    BY <2>1 DEF PayRead, Begin, NoArg, HoldsNone, Charged, TypeOK
  <2>2. ASSUME NEW c \in Customers, NEW p \in Products, RemoveRead(s, c, p) PROVE HoldsNone(s)
    BY <2>2 DEF RemoveRead, Begin, NoArg, HoldsNone, Charged, TypeOK
  <2>3. ASSUME NEW c \in Customers, NEW p \in Products, NEW quantity \in Quantities,
               AddRead(s, c, p, quantity)
        PROVE  HoldsNone(s)
    BY <2>3 DEF AddRead, Begin, NoArg, HoldsNone, Charged, TypeOK
  <2>4. QED
    BY <1>3, <2>1, <2>2, <2>3 DEF Arrive
<1>4. ASSUME NEW line \in Lines, PriceLine(s, line) PROVE HoldsNone(s)
  <2>1. pc[s] = "pay.price" /\ pc'[s] \in {"pay.price", "pay.charge"}
    BY <1>4 DEF PriceLine, Proceed, TypeOK
  <2>2. arg'[s] = [arg[s] EXCEPT !.prices = Append(arg[s].prices, line)] /\ arg[s] \in Arg
    BY <1>4 DEF PriceLine, TypeOK
  <2>3. arg'[s].intent = arg[s].intent
    BY <2>2 DEF Arg
  <2>4. QED
    BY <1>0, <2>1, <2>3 DEF HoldsNone, Charged
<1>5. CASE PayCharge(s) /\ ~Finish(s)
  <2>1. PICK i \in Intents :
           /\ bill[i] = NoBill
           /\ bill' = [bill EXCEPT ![i] = [customer |-> arg[s].customer, prices |-> arg[s].prices]]
           /\ Proceed(s, "pay.charge", "pay.save")
           /\ arg' = [arg EXCEPT ![s] = [arg[s] EXCEPT !.intent = i, !.prices = <<>>]]
    BY <1>5, ZenonT(60) DEF PayCharge
  <2>2. arg'[s] = [arg[s] EXCEPT !.intent = i, !.prices = <<>>] /\ arg[s] \in Arg
    BY <2>1 DEF TypeOK
  <2>3. arg'[s].intent = i
    BY <2>2 DEF Arg
  <2>4. arg[s].customer # None
    BY <2>1, NoneAssumption DEF Proceed, PayersRemember, Paying
  <2>5. bill'[i] # NoBill
    BY <2>1, <2>4 DEF NoBill, TypeOK
  <2>6. pc'[s] \in Charged
    BY <2>1 DEF Proceed, Charged, TypeOK
  <2>7. QED
    BY <1>5, <2>1, <2>3, <2>5, <2>6 DEF Charges
<1>6. CASE PaySave(s)
  <2>1. pc[s] = "pay.save" /\ pc'[s] = "order.create"
    BY <1>6 DEF PaySave, Proceed, TypeOK
  <2>2. arg'[s] = [NoArg EXCEPT !.customer = arg[s].customer, !.intent = arg[s].intent]
    BY <1>6 DEF PaySave, TypeOK
  <2>3. QED
    BY <2>1, <2>2 DEF HoldsOn, Charged, NoArg
<1>7. CASE OrderCreate(s) \/ OrderClear(s)
  BY <1>7 DEF OrderCreate, OrderClear, Proceed, HoldsOn, Charged, TypeOK
<1>8. CASE (AddCount(s) \/ AddFind(s)) /\ ~Finish(s)
  <2>1. pc[s] \in Carting /\ pc'[s] \in Carting
    BY <1>8 DEF AddCount, AddFind, Proceed, TypeOK, Carting
  <2>2. arg'[s].intent = arg[s].intent
    <3>1. CASE arg' = arg
      BY <3>1
    <3>2. ASSUME NEW n, arg' = [arg EXCEPT ![s] = [arg[s] EXCEPT !.seen = n]]
          PROVE  arg'[s].intent = arg[s].intent
      <4>1. arg'[s] = [arg[s] EXCEPT !.seen = n] /\ arg[s] \in Arg
        BY <3>2 DEF TypeOK
      <4>2. QED
        BY <4>1 DEF Arg
    <3>3. QED
      BY <1>8, <3>1, <3>2 DEF AddCount, AddFind, Read
  <2>3. QED
    BY <1>0, <2>1, <2>2 DEF HoldsNone, Carting, Charged
<1>9. Rests(s) \/ Works(s)
  BY SlotStep
<1>10. QED
  BY <1>1, <1>2, <1>3, <1>4, <1>5, <1>6, <1>7, <1>8, <1>9
  DEF Works, Continue, OrderCommit, AddSave, AddRate, RemoveSave, RemoveDestroy, Abort

(* How the order of a charge changes.                                      *)
LEMMA OrderStep ==
    IInv /\ [Next]_vars =>
        \A i \in Intents :
            \/ order'[i] = order[i]
            \/ \E r \in Requests : arg[r].intent = i /\ OrderCreate(r) /\ order'[i] = "inserted"
            \/ \E r \in Requests : arg[r].intent = i /\ OrderCommit(r) /\ order'[i] = "committed"
            \/ \E r \in Requests : arg[r].intent = i /\ Abort(r) /\ order'[i] = "none"
<1> SUFFICES ASSUME IInv, [Next]_vars, NEW i \in Intents
             PROVE  \/ order'[i] = order[i]
                    \/ \E r \in Requests :
                          arg[r].intent = i /\ OrderCreate(r) /\ order'[i] = "inserted"
                    \/ \E r \in Requests :
                          arg[r].intent = i /\ OrderCommit(r) /\ order'[i] = "committed"
                    \/ \E r \in Requests :
                          arg[r].intent = i /\ Abort(r) /\ order'[i] = "none"
  OBVIOUS
<1> order \in [Intents -> {"none", "inserted", "committed"}]
  BY DEF IInv, TypeOK
<1>1. ASSUME NEW r \in Requests, OrderCreate(r)
      PROVE  order'[i] = order[i] \/ (arg[r].intent = i /\ order'[i] = "inserted")
  BY <1>1 DEF OrderCreate
<1>2. ASSUME NEW r \in Requests, OrderCommit(r)
      PROVE  order'[i] = order[i] \/ (arg[r].intent = i /\ order'[i] = "committed")
  BY <1>2 DEF OrderCommit
<1>3. ASSUME NEW r \in Requests, Abort(r)
      PROVE  order'[i] = order[i] \/ (arg[r].intent = i /\ order'[i] = "none")
  BY <1>3 DEF Abort
<1>4. QED
  BY <1>1, <1>2, <1>3, ZenonT(60)
  DEF Next, vars, sales, Arrive, Continue, PayRead, PriceLine, PayCharge, PaySave, OrderClear,
      RecordPurchase, AddRead, AddCount, AddFind, AddSave, AddRate, RemoveRead, RemoveSave,
      RemoveDestroy, ClearCart, HolidayPromotion, ChangeMembership

LEMMA HandStep == IInv /\ [Next]_vars => ChargesInHand'
<1> SUFFICES ASSUME IInv, [Next]_vars PROVE ChargesInHand'
  OBVIOUS
<1> TypeOK /\ ChargesInHand /\ SalesAreCharged
  BY DEF IInv
<1>1. \A s \in Requests : HoldsNone(s) \/ HoldsOn(s) \/ \E i \in Intents : Charges(s, i)
  BY ChargeStep
<1>2. \A s \in Requests : arg[s].intent \in Intents \cup {None}
  BY Records DEF TypeOK
<1>3. ASSUME NEW s \in Requests PROVE pc'[s] \in Charged <=> arg'[s].intent # None
  BY <1>1, <1>3, NoneAssumption DEF HoldsNone, HoldsOn, Charges, ChargesInHand
<1>4. ASSUME NEW s \in Requests, arg'[s].intent # None
      PROVE  bill'[arg'[s].intent] # NoBill /\ order'[arg'[s].intent] # "committed"
  <2>1. CASE HoldsOn(s)
    <3>1. PICK i \in Intents : i = arg[s].intent /\ i = arg'[s].intent
      BY <1>2, <1>4, <2>1 DEF HoldsOn
    <3>2. bill[i] # NoBill /\ order[i] # "committed"
      BY <1>4, <3>1 DEF ChargesInHand
    <3>3. bill'[i] # NoBill
      BY <3>2, Growth DEF Growing
    <3>4. ASSUME NEW r \in Requests, arg[r].intent = i, OrderCommit(r) PROVE FALSE
      <4>1. r = s
        BY <1>4, <3>1, <3>4 DEF ChargesInHand
      <4>2. QED
        BY <2>1, <3>4, <4>1 DEF OrderCommit, Finish, HoldsOn, Charged, TypeOK
    <3>5. order'[i] # "committed"
      BY <3>2, <3>4, OrderStep
    <3>6. QED
      BY <3>1, <3>3, <3>5
  <2>2. ASSUME NEW i \in Intents, Charges(s, i)
        PROVE  bill'[arg'[s].intent] # NoBill /\ order'[arg'[s].intent] # "committed"
    <3>1. order[i] = "none"
      BY <2>2 DEF Charges, SalesAreCharged, TypeOK
    <3>2. order' = order
      BY <2>2 DEF Charges, PayCharge
    <3>3. QED
      BY <2>2, <3>1, <3>2 DEF Charges
  <2>3. QED
    BY <1>1, <1>4, <2>1, <2>2 DEF HoldsNone
<1>5. ASSUME NEW s \in Requests, NEW u \in Requests, s # u, arg'[s].intent = arg'[u].intent,
             arg'[s].intent # None
      PROVE  FALSE
  <2>1. ASSUME NEW x \in Requests, NEW y \in Requests, NEW i \in Intents, x # y, Charges(x, i),
               arg'[y].intent = i
        PROVE  FALSE
    <3>1. Works(x)
      BY <2>1 DEF Charges, Works, Continue
    <3>2. Rests(y)
      BY <2>1, <3>1, OthersRest
    <3>3. arg[y].intent = i
      BY <2>1, <3>2 DEF Rests
    <3>4. bill[i] # NoBill
      BY <3>3, NoneAssumption DEF ChargesInHand
    <3>5. QED
      BY <2>1, <3>4 DEF Charges
  <2>2. HoldsOn(s)
    <3>1. ASSUME NEW i \in Intents, Charges(s, i) PROVE FALSE
      BY <1>5, <2>1, <3>1 DEF Charges
    <3>2. QED
      BY <1>1, <1>5, <3>1 DEF HoldsNone
  <2>3. HoldsOn(u)
    <3>1. ASSUME NEW i \in Intents, Charges(u, i) PROVE FALSE
      BY <1>5, <2>1, <3>1 DEF Charges
    <3>2. QED
      BY <1>1, <1>5, <3>1 DEF HoldsNone
  <2>4. QED
    BY <1>5, <2>2, <2>3 DEF HoldsOn, ChargesInHand
<1>6. QED
  BY <1>3, <1>4, <1>5 DEF ChargesInHand

LEMMA SalesStep == IInv /\ [Next]_vars => SalesAreCharged'
<1> SUFFICES ASSUME IInv, [Next]_vars, NEW i \in Intents
             PROVE  /\ order'[i] # "none" => bill'[i] # NoBill
                    /\ (\E line \in Lines : sold'[i][line] > 0) => order'[i] = "committed"
  BY DEF SalesAreCharged
<1> TypeOK /\ ChargesInHand /\ SalesAreCharged
  BY DEF IInv
<1>1. bill[i] # NoBill => bill'[i] # NoBill
  BY Growth DEF Growing
<1>2. \A r \in Requests : arg[r].intent = i => bill[i] # NoBill /\ order[i] # "committed"
  BY NoneAssumption DEF ChargesInHand
<1>3. order'[i] # "none" => bill'[i] # NoBill
  BY <1>1, <1>2, OrderStep DEF SalesAreCharged
<1>4. CASE sold'[i] = sold[i]
  BY <1>2, <1>3, <1>4, OrderStep DEF SalesAreCharged
<1>5. ASSUME NEW j \in Intents, NEW line \in Lines, RecordPurchase(j, line), sold'[i] # sold[i]
      PROVE  order'[i] = "committed"
  BY <1>5 DEF RecordPurchase, TypeOK
<1>6. CASE sold'[i] # sold[i]
  <2>1. \E j \in Intents, line \in Lines : RecordPurchase(j, line)
    BY <1>6, ZenonT(60)
    DEF Next, vars, sales, Arrive, Continue, Abort, PayRead, PriceLine, PayCharge, PaySave,
        OrderCreate, OrderClear, OrderCommit, AddRead, AddCount, AddFind, AddSave, AddRate,
        RemoveRead, RemoveSave, RemoveDestroy, ClearCart, HolidayPromotion, ChangeMembership
  <2>2. QED
    BY <1>3, <1>5, <1>6, <2>1
<1>7. QED
  BY <1>4, <1>6

-----------------------------------------------------------------------------
(* Rows of a cart and handlers that have passed the check are finitely many.*)
LEMMA Counts ==
    \A c \in Customers :
        /\ IsFiniteSet(RowsIn(c)) /\ Cardinality(RowsIn(c)) \in Nat
        /\ IsFiniteSet(Passed(c)) /\ Cardinality(Passed(c)) \in Nat
        /\ Cardinality(Passed(c)) <= Cardinality(Requests)
<1> SUFFICES ASSUME NEW c \in Customers
             PROVE  /\ IsFiniteSet(RowsIn(c)) /\ Cardinality(RowsIn(c)) \in Nat
                    /\ IsFiniteSet(Passed(c)) /\ Cardinality(Passed(c)) \in Nat
                    /\ Cardinality(Passed(c)) <= Cardinality(Requests)
  OBVIOUS
<1>1. RowsIn(c) \in SUBSET Products /\ Passed(c) \in SUBSET Requests
  BY DEF RowsIn, Passed
<1>2. QED
  BY <1>1, FiniteAssumption, FS_Subset, FS_CardinalityType

LEMMA CountsPrime ==
    \A c \in Customers :
        /\ IsFiniteSet(RowsIn(c)') /\ Cardinality(RowsIn(c)') \in Nat
        /\ IsFiniteSet(Passed(c)') /\ Cardinality(Passed(c)') \in Nat
        /\ Cardinality(Passed(c)') <= Cardinality(Requests)
<1> SUFFICES ASSUME NEW c \in Customers
             PROVE  /\ IsFiniteSet(RowsIn(c)') /\ Cardinality(RowsIn(c)') \in Nat
                    /\ IsFiniteSet(Passed(c)') /\ Cardinality(Passed(c)') \in Nat
                    /\ Cardinality(Passed(c)') <= Cardinality(Requests)
  OBVIOUS
<1>1. RowsIn(c)' \in SUBSET Products /\ Passed(c)' \in SUBSET Requests
  BY DEF RowsIn, Passed
<1>2. QED
  BY <1>1, FiniteAssumption, FS_Subset, FS_CardinalityType

LEMMA InitCounted == Init => RowsAreCounted
<1> SUFFICES ASSUME Init, NEW c \in Customers
             PROVE  Cardinality(RowsIn(c)) + Cardinality(Passed(c))
                        <= CartItemLimit + Cardinality(Requests) - 1
  BY DEF RowsAreCounted
<1>1. RowsIn(c) = {} /\ Passed(c) = {}
  BY DEF Init, RowsIn, Passed
<1>2. Cardinality(RowsIn(c)) = 0 /\ Cardinality(Passed(c)) = 0
  BY <1>1, FS_EmptySet
<1>3. Cardinality(Requests) \in Nat \ {0}
  BY FiniteAssumption, FS_EmptySet, FS_CardinalityType
<1>4. QED
  BY <1>2, <1>3, QuantityAssumption

(* addItemToCart alone makes a row.                                        *)
Inserts(r, c) ==
    AddFind(r) /\ arg[r].customer = c /\ cart[c][arg[r].product] = 0

(* No row is made by other steps.                                          *)
LEMMA RowsShrink ==
    ASSUME IInv, [Next]_vars, NEW c \in Customers, \A r \in Requests : ~Inserts(r, c)
    PROVE  RowsIn(c)' \subseteq RowsIn(c)
<1> SUFFICES ASSUME NEW p \in Products, cart[c][p] = 0 PROVE cart'[c][p] = 0
  BY DEF RowsIn
<1> TypeOK /\ CartersRemember /\ PayersRemember
  BY DEF IInv
<1>1. ASSUME NEW d \in Customers, NEW q \in Products, NEW n,
             cart' = [cart EXCEPT ![d][q] = n], n = 0 \/ d # c \/ q # p
      PROVE  cart'[c][p] = 0
  BY <1>1 DEF TypeOK
<1>2. ASSUME NEW r \in Requests, AddFind(r) \/ AddSave(r) \/ RemoveSave(r) \/ RemoveDestroy(r)
      PROVE  cart'[c][p] = 0
  <2>1. PICK d \in Customers, q \in Products : d = arg[r].customer /\ q = arg[r].product
    BY <1>2 DEF AddFind, AddSave, RemoveSave, RemoveDestroy, Proceed, CartersRemember, Carting
  <2>2. CASE AddFind(r)
    <3>1. CASE cart[d][q] = 0
      <4>1. d # c
        BY <2>1, <2>2, <3>1 DEF Inserts
      <4>2. cart' = [cart EXCEPT ![d][q] = arg[r].amount]
        BY <2>1, <2>2, <3>1 DEF AddFind
      <4>3. QED
        BY <1>1, <4>1, <4>2
    <3>2. CASE cart[d][q] # 0
      BY <2>1, <2>2, <3>2 DEF AddFind
    <3>3. QED
      BY <3>1, <3>2
  <2>3. CASE AddSave(r)
    <3>1. cart' = [cart EXCEPT ![d][q] = IF cart[d][q] = 0 THEN 0 ELSE arg[r].seen + arg[r].amount]
      BY <2>1, <2>3 DEF AddSave
    <3>2. QED
      BY <1>1, <3>1
  <2>4. CASE RemoveSave(r)
    <3>1. cart' = [cart EXCEPT ![d][q] = IF cart[d][q] = 0 THEN 0 ELSE arg[r].seen - 1]
      BY <2>1, <2>4 DEF RemoveSave
    <3>2. QED
      BY <1>1, <3>1
  <2>5. CASE RemoveDestroy(r)
    BY <1>1, <2>1, <2>5 DEF RemoveDestroy
  <2>6. QED
    BY <1>2, <2>2, <2>3, <2>4, <2>5
<1>3. ASSUME NEW d \in Customers, RemoveProducts(d) PROVE cart'[c][p] = 0
  BY <1>3 DEF RemoveProducts, TypeOK
<1>4. ASSUME NEW r \in Requests, OrderClear(r) PROVE cart'[c][p] = 0
  <2>1. arg[r].customer \in Customers
    BY <1>4 DEF OrderClear, Proceed, PayersRemember, Paying
  <2>2. QED
    BY <1>3, <1>4, <2>1 DEF OrderClear
<1>5. ASSUME NEW d \in Customers, ClearCart(d) PROVE cart'[c][p] = 0
  BY <1>3, <1>5 DEF ClearCart
<1>6. QED
  BY <1>2, <1>4, <1>5, ZenonT(60)
  DEF Next, vars, basket, Arrive, Continue, Abort, PayRead, PriceLine, PayCharge, PaySave,
      OrderCreate, OrderCommit, RecordPurchase, AddRead, AddCount, AddRate, RemoveRead,
      HolidayPromotion, ChangeMembership

(* addItemToCart alone lets a handler pass, and only where there is room.  *)
LEMMA PassedShrink ==
    ASSUME IInv, [Next]_vars, NEW c \in Customers,
           \A r \in Requests : ~(AddCount(r) /\ arg[r].customer = c
                                             /\ Cardinality(RowsIn(c)) < CartItemLimit)
    PROVE  Passed(c)' \subseteq Passed(c)
<1> SUFFICES ASSUME NEW r \in Requests, pc'[r] = "add.find", arg'[r].customer = c
             PROVE  pc[r] = "add.find" /\ arg[r].customer = c
  BY DEF Passed
<1> TypeOK
  BY DEF IInv
<1>1. CASE Rests(r)
  BY <1>1 DEF Rests
<1>2. CASE Works(r)
  <2>1. ASSUME NEW a, NEW step, Begin(r, a, step), step # "add.find" PROVE FALSE
    BY <2>1 DEF Begin, TypeOK
  <2>2. ASSUME NEW at, NEW step, Proceed(r, at, step), step # "add.find" PROVE FALSE
    BY <2>2 DEF Proceed, TypeOK
  <2>3. ~Finish(r)
    BY DEF Finish, TypeOK
  <2>4. CASE AddCount(r)
    BY <2>3, <2>4 DEF AddCount, TypeOK
  <2>5. ~Arrive(r)
    BY <2>1 DEF Arrive, PayRead, AddRead, RemoveRead
  <2>6. ~(\E line \in Lines : PriceLine(r, line))
    BY <2>2 DEF PriceLine
  <2>7. ~(PayCharge(r) \/ PaySave(r) \/ OrderCreate(r) \/ OrderClear(r) \/ OrderCommit(r))
    BY <2>2, <2>3 DEF PayCharge, PaySave, OrderCreate, OrderClear, OrderCommit
  <2>8. ~(AddFind(r) \/ AddSave(r) \/ AddRate(r) \/ RemoveSave(r) \/ RemoveDestroy(r) \/ Abort(r))
    BY <2>2, <2>3 DEF AddFind, AddSave, AddRate, RemoveSave, RemoveDestroy, Abort
  <2>9. QED
    BY <1>2, <2>4, <2>5, <2>6, <2>7, <2>8 DEF Works, Continue
<1>3. QED
  BY <1>1, <1>2, SlotStep

LEMMA CountStep == IInv /\ RowsAreCounted /\ [Next]_vars => RowsAreCounted'
<1> SUFFICES ASSUME IInv, RowsAreCounted, [Next]_vars, NEW c \in Customers
             PROVE  Cardinality(RowsIn(c)') + Cardinality(Passed(c)')
                        <= CartItemLimit + Cardinality(Requests) - 1
  BY DEF RowsAreCounted
<1> TypeOK /\ CartersRemember
  BY DEF IInv
<1>1. /\ Cardinality(RowsIn(c)) \in Nat /\ Cardinality(RowsIn(c)') \in Nat
      /\ Cardinality(Passed(c)) \in Nat /\ Cardinality(Passed(c)') \in Nat
      /\ Cardinality(Passed(c)') <= Cardinality(Requests)
      /\ Cardinality(Requests) \in Nat /\ CartItemLimit \in Nat
  BY Counts, CountsPrime, FiniteAssumption, QuantityAssumption, FS_CardinalityType
<1>2. Cardinality(RowsIn(c)) + Cardinality(Passed(c)) <= CartItemLimit + Cardinality(Requests) - 1
  BY DEF RowsAreCounted
<1>3. ASSUME NEW r \in Requests, Inserts(r, c)
      PROVE  Cardinality(RowsIn(c)') + Cardinality(Passed(c)')
                 <= Cardinality(RowsIn(c)) + Cardinality(Passed(c))
  <2> DEFINE p == arg[r].product
  <2>1. /\ p \in Products /\ pc[r] = "add.find" /\ arg[r].customer = c /\ cart[c][p] = 0
        /\ cart' = [cart EXCEPT ![c][p] = arg[r].amount] /\ pc'[r] = "add.rate" /\ arg' = arg
    BY <1>3 DEF Inserts, AddFind, Proceed, CartersRemember, Carting, TypeOK
  <2>2. RowsIn(c)' \subseteq RowsIn(c) \cup {p}
    BY <2>1 DEF RowsIn, TypeOK
  <2>3. Passed(c)' \subseteq Passed(c) \ {r}
    <3>1. \A s \in Requests : s # r => pc'[s] = pc[s]
      BY <1>3 DEF Inserts, AddFind, Proceed, TypeOK
    <3>2. QED
      BY <2>1, <3>1 DEF Passed
  <2>4. r \in Passed(c) /\ p \notin RowsIn(c)
    BY <2>1 DEF Passed, RowsIn
  <2>5. Cardinality(RowsIn(c)') <= Cardinality(RowsIn(c)) + 1
    <3>1. /\ IsFiniteSet(RowsIn(c) \cup {p})
          /\ Cardinality(RowsIn(c) \cup {p}) = Cardinality(RowsIn(c)) + 1
      BY <2>4, Counts, FS_AddElement
    <3>2. QED
      BY <2>2, <3>1, FS_Subset
  <2>6. Cardinality(Passed(c)') <= Cardinality(Passed(c)) - 1
    <3>1. /\ IsFiniteSet(Passed(c) \ {r})
          /\ Cardinality(Passed(c) \ {r}) = Cardinality(Passed(c)) - 1
      BY <2>4, Counts, FS_RemoveElement
    <3>2. QED
      BY <2>3, <3>1, FS_Subset
  <2>7. QED
    BY <1>1, <2>5, <2>6
<1>4. ASSUME NEW r \in Requests, AddCount(r), arg[r].customer = c,
             Cardinality(RowsIn(c)) < CartItemLimit
      PROVE  Cardinality(RowsIn(c)') = Cardinality(RowsIn(c))
  BY <1>4 DEF AddCount, RowsIn, basket
<1>5. ASSUME NEW r \in Requests, AddCount(r), arg[r].customer = c,
             Cardinality(RowsIn(c)) < CartItemLimit
      PROVE  Cardinality(RowsIn(c)') + Cardinality(Passed(c)')
                 <= CartItemLimit + Cardinality(Requests) - 1
  BY <1>1, <1>4, <1>5
<1>6. ASSUME \A r \in Requests : ~Inserts(r, c),
             \A r \in Requests : ~(AddCount(r) /\ arg[r].customer = c
                                               /\ Cardinality(RowsIn(c)) < CartItemLimit)
      PROVE  Cardinality(RowsIn(c)') + Cardinality(Passed(c)')
                 <= Cardinality(RowsIn(c)) + Cardinality(Passed(c))
  <2>1. RowsIn(c)' \subseteq RowsIn(c) /\ Passed(c)' \subseteq Passed(c)
    BY <1>6, RowsShrink, PassedShrink
  <2>2. Cardinality(RowsIn(c)') <= Cardinality(RowsIn(c))
    BY <2>1, Counts, FS_Subset
  <2>3. Cardinality(Passed(c)') <= Cardinality(Passed(c))
    BY <2>1, Counts, FS_Subset
  <2>4. QED
    BY <1>1, <2>2, <2>3
<1>7. QED
  BY <1>1, <1>2, <1>3, <1>5, <1>6

-----------------------------------------------------------------------------
(* With one handler at a time, a balance is always the one that was read.  *)
LEMMA InitBalance == Init => BooksBalance
  BY PointsAssumption DEF Init, BooksBalance

LEMMA BalanceStep == OneByOne /\ IInv /\ BooksBalance /\ [Next]_vars => BooksBalance'
<1> SUFFICES ASSUME OneByOne, IInv, BooksBalance, [Next]_vars PROVE BooksBalance'
  OBVIOUS
<1> TypeOK /\ PayersRemember
  BY DEF IInv
<1>1. \A r, s \in Requests : r = s
  BY DEF OneByOne
<1>2. \A c \in Customers : points[c] \in Int /\ granted[c] \in Nat /\ spent[c] \in Nat
  BY DEF TypeOK
<1>3. \A r \in Requests : arg[r].seen \in Nat /\ arg[r].amount \in Nat
  BY Records DEF TypeOK
(* The handler, if there is one, and what it does to one customer.         *)
<1>4. ASSUME UNCHANGED <<points, granted, spent, pc, arg>> PROVE BooksBalance'
  BY <1>4 DEF BooksBalance
<1>5. ASSUME NEW r \in Requests, UNCHANGED <<points, granted, spent>>, pc[r] # "pay.save",
             pc'[r] \notin {"pay.price", "pay.charge", "pay.save"}
      PROVE  BooksBalance'
  BY <1>1, <1>5 DEF BooksBalance
<1>6. ASSUME NEW r \in Requests, NEW c \in Customers, NEW spend \in Spends \cup {0},
             PayRead(r, c, spend)
      PROVE  BooksBalance'
  <2> DEFINE a == [NoArg EXCEPT !.customer = c, !.seen = points[c], !.amount = spend,
                                !.member = membership[c]]
  <2>1. /\ UNCHANGED <<points, granted, spent>> /\ pc[r] = "idle"
        /\ pc'[r] = "pay.price" /\ arg'[r] = a
    BY <1>6 DEF PayRead, Begin, wallet, TypeOK
  <2>2. a.seen = points[c] /\ a.customer = c
    BY DEF NoArg
  <2> HIDE DEF a
  <2>3. QED
    BY <1>1, <2>1, <2>2 DEF BooksBalance
<1>7. ASSUME NEW r \in Requests, NEW line \in Lines, PriceLine(r, line) PROVE BooksBalance'
  <2> DEFINE a == [arg[r] EXCEPT !.prices = Append(arg[r].prices, line)]
  <2>1. /\ UNCHANGED <<points, granted, spent>> /\ pc[r] = "pay.price"
        /\ pc'[r] \in {"pay.price", "pay.charge"} /\ arg'[r] = a
    BY <1>7 DEF PriceLine, Proceed, wallet, TypeOK
  <2>2. a.seen = arg[r].seen /\ a.customer = arg[r].customer
    BY DEF TypeOK, Arg
  <2> HIDE DEF a
  <2>3. QED
    BY <1>1, <2>1, <2>2 DEF BooksBalance
<1>8. ASSUME NEW r \in Requests, PayCharge(r) PROVE BooksBalance'
  <2>1. CASE Finish(r) /\ UNCHANGED <<bill, spent>>
    BY <1>5, <1>8, <2>1 DEF PayCharge, Finish, TypeOK
  <2>2. ASSUME NEW i \in Intents, spent' = [spent EXCEPT ![arg[r].customer] = @ + arg[r].amount],
               Proceed(r, "pay.charge", "pay.save"),
               arg' = [arg EXCEPT ![r] = [arg[r] EXCEPT !.intent = i, !.prices = <<>>]]
        PROVE  BooksBalance'
    <3> DEFINE a == [arg[r] EXCEPT !.intent = i, !.prices = <<>>]
               c == arg[r].customer
    <3>1. /\ UNCHANGED <<points, granted>> /\ pc[r] = "pay.charge" /\ pc'[r] = "pay.save"
          /\ arg'[r] = a
      BY <1>8, <2>2 DEF PayCharge, Proceed, TypeOK
    <3>2. a.seen = arg[r].seen /\ a.customer = c /\ a.amount = arg[r].amount
      BY DEF TypeOK, Arg
    <3>3. c \in Customers
      BY <3>1 DEF PayersRemember, Paying
    <3>4. /\ spent'[c] = spent[c] + arg[r].amount
          /\ \A d \in Customers \ {c} : spent'[d] = spent[d]
      BY <2>2, <3>3 DEF TypeOK
    <3> HIDE DEF a, c
    <3>5. points[c] = granted[c] - spent[c] /\ arg[r].seen = points[c]
      BY <1>1, <3>1, <3>3 DEF BooksBalance, c
    <3>6. points'[c] = granted'[c] - spent'[c] + arg[r].amount
      BY <1>2, <1>3, <3>1, <3>3, <3>4, <3>5
    <3>7. \A d \in Customers \ {c} : points'[d] = granted'[d] - spent'[d]
      BY <1>1, <3>1, <3>4 DEF BooksBalance
    <3>8. arg'[r].seen = points'[arg'[r].customer] /\ arg'[r].customer = c
          /\ arg'[r].amount = arg[r].amount
      BY <3>1, <3>2, <3>5
    <3>9. QED
      BY <1>1, <3>1, <3>6, <3>7, <3>8 DEF BooksBalance
  <2>3. QED
    BY <1>8, <2>1, <2>2, ZenonT(60) DEF PayCharge
<1>9. ASSUME NEW r \in Requests, PaySave(r) PROVE BooksBalance'
  <2> DEFINE c == arg[r].customer
             e == Earned(arg[r].member)
  <2>1. pc[r] = "pay.save" /\ pc'[r] = "order.create" /\ UNCHANGED spent
    BY <1>9 DEF PaySave, Proceed, TypeOK
  <2>2. c \in Customers
    BY <2>1 DEF PayersRemember, Paying
  <2>3. e \in Nat
    BY Records, EarnedIsNat DEF TypeOK
  <2>4. /\ points'[c] = arg[r].seen - arg[r].amount + e /\ granted'[c] = granted[c] + e
        /\ \A d \in Customers \ {c} : points'[d] = points[d] /\ granted'[d] = granted[d]
    BY <1>9, <2>2 DEF PaySave, TypeOK
  <2> HIDE DEF c, e
  <2>5. arg[r].seen = points[c] /\ points[c] = granted[c] - spent[c] + arg[r].amount
    BY <2>1 DEF BooksBalance, c
  <2>6. points'[c] = granted'[c] - spent'[c]
    BY <1>2, <1>3, <2>1, <2>2, <2>3, <2>4, <2>5
  <2>7. \A d \in Customers \ {c} : points'[d] = granted'[d] - spent'[d]
    BY <1>1, <2>1, <2>4 DEF BooksBalance, c
  <2>8. QED
    BY <1>1, <2>1, <2>6, <2>7 DEF BooksBalance
<1>10. ASSUME NEW r \in Requests, OrderCreate(r) \/ OrderClear(r) \/ OrderCommit(r) PROVE BooksBalance'
  BY <1>5, <1>10 DEF OrderCreate, OrderClear, OrderCommit, Proceed, Finish, wallet, TypeOK
<1>11. ASSUME NEW r \in Requests,
              AddCount(r) \/ AddFind(r) \/ AddSave(r) \/ AddRate(r) \/ RemoveSave(r) \/ RemoveDestroy(r)
       PROVE  BooksBalance'
  BY <1>5, <1>11 DEF AddCount, AddFind, AddSave, AddRate, RemoveSave, RemoveDestroy, Proceed,
                     Finish, wallet, TypeOK
<1>12. ASSUME NEW r \in Requests, NEW c \in Customers, NEW p \in Products,
              RemoveRead(r, c, p) \/ \E quantity \in Quantities : AddRead(r, c, p, quantity)
       PROVE  BooksBalance'
  BY <1>5, <1>12 DEF RemoveRead, AddRead, Begin, wallet, TypeOK
<1>13. ~HolidayPromotion /\ \A r \in Requests : ~Abort(r)
  BY DEF OneByOne, HolidayPromotion, Abort, TypeOK
<1>14. QED
  BY <1>4, <1>6, <1>7, <1>8, <1>9, <1>10, <1>11, <1>12, <1>13
  DEF Next, vars, wallet, Arrive, Continue, RecordPurchase, ClearCart, ChangeMembership

-----------------------------------------------------------------------------
(* The inductive invariant holds in every reachable state, for any number  *)
(* of customers, products, charges and handlers under way.                 *)
THEOREM Invariance == Spec => []IInv
<1>1. IInv /\ [Next]_vars => IInv'
  BY TypeStep, PayersStep, CartersStep, WalletStep, CartStep, HandStep, SalesStep DEF IInv
<1>2. QED
  BY InitInvariant, <1>1, PTL DEF Spec

(* The customers' rows, carts and charges and the handlers keep to their   *)
(* types; above all, no more purchase rows than items are written.         *)
THEOREM TypeCorrect == Spec => []TypeOK
<1>1. IInv => TypeOK
  BY DEF IInv
<1>2. QED
  BY Invariance, <1>1, PTL

(* Lost updates of processPayment leave a balance between what is left of  *)
(* the welcome points and all that was granted.                            *)
THEOREM PointsKept == Spec => []PointsWithinHistory
<1>1. IInv => PointsWithinHistory
  BY DEF IInv
<1>2. QED
  BY Invariance, <1>1, PTL

(* No interleaving of checkouts drives a balance below zero.               *)
THEOREM PointsNatural == Spec => []PointsNeverNegative
<1>1. IInv => PointsNeverNegative
  BY DEF IInv
<1>2. QED
  BY Invariance, <1>1, PTL

(* What was sold has an order, and what was ordered has been charged.      *)
THEOREM SalesCharged == Spec => []SalesAreCharged
<1>1. IInv => SalesAreCharged
  BY DEF IInv
<1>2. QED
  BY Invariance, <1>1, PTL

(* Lost updates of CartService never add to a cart what nobody put there.  *)
THEOREM CartKept == Spec => []CartNotInflated
<1>1. IInv => CartNotInflated
  BY DEF IInv
<1>2. QED
  BY Invariance, <1>1, PTL

(* addToCartRate never counts more rows than there were.                   *)
THEOREM RateKept == Spec => []RateNotInflated
<1>1. IInv => RateNotInflated
  BY DEF IInv
<1>2. QED
  BY Invariance, <1>1, PTL

(* CART_ITEM_LIMIT is exceeded by no more handlers than can have passed the *)
(* check together, however many rows the cart had before.                  *)
THEOREM OverflowBounded == Spec => []CartOverflowBounded
<1>1. IInv /\ RowsAreCounted /\ [Next]_vars => RowsAreCounted'
  BY CountStep
<1>2. RowsAreCounted => CartOverflowBounded
  <2> SUFFICES ASSUME RowsAreCounted, NEW c \in Customers
               PROVE  Cardinality(RowsIn(c)) <= CartItemLimit + Cardinality(Requests) - 1
    BY DEF CartOverflowBounded
  <2>1. Cardinality(RowsIn(c)) \in Nat /\ Cardinality(Passed(c)) \in Nat
        /\ Cardinality(Requests) \in Nat /\ CartItemLimit \in Nat
    BY Counts, FiniteAssumption, QuantityAssumption, FS_CardinalityType
  <2>2. QED
    BY <2>1 DEF RowsAreCounted
<1>3. QED
  BY Invariance, InitCounted, <1>1, <1>2, PTL DEF Spec

(* With one handler at a time, no failure and no promotion, the balance     *)
(* between two handlers is what was granted less what was spent.           *)
THEOREM LedgerKept == OneByOne => (Spec => []LedgerExact)
<1>1. IInv /\ BooksBalance => LedgerExact
  BY DEF BooksBalance, LedgerExact
<1>2. SUFFICES ASSUME OneByOne PROVE Spec => []LedgerExact
  OBVIOUS
<1>3. IInv /\ BooksBalance /\ [Next]_vars => BooksBalance'
  BY <1>2, BalanceStep
<1>4. QED
  BY Invariance, InitBalance, <1>1, <1>3, PTL DEF Spec

=============================================================================
