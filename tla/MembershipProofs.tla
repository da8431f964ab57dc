-------------------------- MODULE MembershipProofs --------------------------
(***************************************************************************)
(* What is proved of the memberships: what holds however handlers and jobs *)
(* interleave (Started), and what one that is alone still owes.            *)
(***************************************************************************)
EXTENDS MembershipProperties, FiniteSetTheorems, WellFoundedInduction, TLAPS

(* The records handlers, jobs and subscriptions are, once.                 *)
LEMMA ArgFields == \A a \in Arg :
    /\ a.customer \in Customers \cup {None}
    /\ a.type \in Types \cup {None}
    /\ a.seen \in Levels
    /\ a.price \in 0..PriceChanges
    /\ a.amount \in Nat
    /\ a.credit \in Int
    /\ a.trial \in BOOLEAN
    /\ a.cheaper \in BOOLEAN
    /\ a.job \in Jobs \cup {None}
    /\ a.subs \in SUBSET Ids
    /\ a.affected \in SUBSET Customers
  BY DEF Arg

LEMMA NoArgs == NoArg \in Arg
  BY BoundAssumption DEF Arg, NoArg, Levels

LEMMA ArgUpdates == \A a \in Arg :
    /\ \A b \in BOOLEAN : [a EXCEPT !.trial = b] \in Arg
    /\ \A n \in Nat : [a EXCEPT !.amount = n] \in Arg
    /\ \A n \in Int : [a EXCEPT !.credit = n] \in Arg
    /\ \A p \in 0..PriceChanges : [a EXCEPT !.price = p] \in Arg
    /\ \A c \in Customers : [a EXCEPT !.customer = c] \in Arg
    /\ \A j \in Jobs : [a EXCEPT !.job = j] \in Arg
    /\ \A s : [a EXCEPT !.subs = @ \ {s}] \in Arg
    /\ \A c : [a EXCEPT !.affected = @ \ {c}] \in Arg
    /\ \A ss \in SUBSET Ids, cs \in SUBSET Customers :
          [a EXCEPT !.subs = ss, !.affected = cs] \in Arg
    /\ \A c : [a EXCEPT !.affected = @ \ {c}, !.customer = None, !.job = None] \in Arg
<1> USE DEF Arg
<1> TAKE a \in Arg
<1>1. /\ \A b \in BOOLEAN : [a EXCEPT !.trial = b] \in Arg
      /\ \A n \in Nat : [a EXCEPT !.amount = n] \in Arg
      /\ \A n \in Int : [a EXCEPT !.credit = n] \in Arg
      /\ \A p \in 0..PriceChanges : [a EXCEPT !.price = p] \in Arg
  OBVIOUS
<1>2. /\ \A c \in Customers : [a EXCEPT !.customer = c] \in Arg
      /\ \A j \in Jobs : [a EXCEPT !.job = j] \in Arg
  OBVIOUS
<1>3. \A s : [a EXCEPT !.subs = @ \ {s}] \in Arg
  OBVIOUS
<1>4. \A c : [a EXCEPT !.affected = @ \ {c}] \in Arg
  OBVIOUS
<1>5. ASSUME NEW ss \in SUBSET Ids, NEW cs \in SUBSET Customers
      PROVE  [a EXCEPT !.subs = ss, !.affected = cs] \in Arg
  OBVIOUS
<1>6. \A c : [a EXCEPT !.affected = @ \ {c}, !.customer = None, !.job = None] \in Arg
  OBVIOUS
<1>7. QED
  BY <1>1, <1>2, <1>3, <1>4, <1>5, <1>6

LEMMA Prices == 0 \in 0..PriceChanges
  BY BoundAssumption

LEMMA InitStarted == Init => Started
<1> SUFFICES ASSUME Init PROVE Started
  OBVIOUS
<1> USE DEF Init
<1>1. NoSub \in Sub /\ NoJob \in Job
  BY Prices DEF NoSub, Sub, NoJob, Job, Live, Levels
<1>2. TypeOK
  BY <1>1, NoArgs, Prices DEF TypeOK, Steps, Levels
<1>3. HandlersKnow
  BY DEF HandlersKnow, Knows, At, ToSubscribe, ToConfirm, ToCancel, ToAdd, ToPrice, ToReplace
<1>4. SubsAreOwned /\ JobsAreOwned /\ MembershipBacked
  BY DEF SubsAreOwned, JobsAreOwned, MembershipBacked, NoSub, NoJob
<1>5. QED
  BY <1>2, <1>3, <1>4 DEF Started

-----------------------------------------------------------------------------
(* What the parts of handlers keep.                                        *)
LEMMA FinishTyped == ASSUME TypeOK, NEW r \in Requests, Finish(r)
                     PROVE  pc' \in [Requests -> Steps] /\ arg' \in [Requests -> Arg]
  BY NoArgs DEF TypeOK, Finish, Steps

LEMMA GotoTyped == ASSUME TypeOK, NEW r \in Requests, NEW step \in Steps, Goto(r, step)
                   PROVE  pc' \in [Requests -> Steps]
  BY DEF TypeOK, Goto

LEMMA SetSubTyped == ASSUME TypeOK, NEW s, NEW state \in Live \cup {"ended"}, SetSub(s, state)
                     PROVE  sub' \in [Ids -> Sub]
  BY ZenonT(60) DEF TypeOK, SetSub, Sub

LEMMA CreateSubTyped ==
    ASSUME TypeOK, NEW c \in Customers, NEW t \in Types, NEW p \in 0..PriceChanges,
           CreateSub(c, t, p)
    PROVE  sub' \in [Ids -> Sub] /\ held' \in [Customers -> SUBSET Types]
<1>1. [state |-> "active", customer |-> c, type |-> t, price |-> p] \in Sub
  BY DEF Sub, Live
<1>2. QED
  BY <1>1 DEF TypeOK, CreateSub

LEMMA SaveTyped ==
    ASSUME TypeOK, NEW c, NEW seen, NEW level \in Levels, SaveMembership(c, seen, level)
    PROVE  membership' \in [Customers -> Levels]
  BY DEF TypeOK, SaveMembership

LEMMA OweTyped == ASSUME TypeOK, NEW c, Owe(c)
                  PROVE  owed' \in [Customers -> Nat]
<1>1. owed' = [d \in Customers |-> IF d = c THEN owed[d] + Prorated ELSE owed[d]]
  BY DEF TypeOK, Owe
<1>2. \A d \in Customers : owed[d] + Prorated \in Nat
  BY AmountAssumption DEF TypeOK
<1>3. QED
  BY <1>1, <1>2 DEF TypeOK

LEMMA CreditTyped == ASSUME TypeOK, NEW c, Credit(c, Prorated)
                     PROVE  credit' \in [Customers -> Int]
<1>1. credit' = [d \in Customers |-> IF d = c THEN credit[d] + Prorated ELSE credit[d]]
  BY DEF TypeOK, Credit
<1>2. \A d \in Customers : credit[d] + Prorated \in Int
  BY AmountAssumption DEF TypeOK
<1>3. QED
  BY <1>1, <1>2 DEF TypeOK

LEMMA StepNames ==
    /\ ToSubscribe \subseteq Steps /\ ToCancel \subseteq Steps
    /\ ToPrice \subseteq Steps /\ ToConfirm \subseteq Steps
  BY DEF ToSubscribe, ToCancel, ToPrice, ToReplace, ToAdd, ToConfirm, Steps

-----------------------------------------------------------------------------
(* Handlers keep the types: those that begin, subscribe, and cancel.       *)
LEMMA ArriveTyped == ASSUME Started, NEW r \in Requests, Arrive(r), alone' \in BOOLEAN
                     PROVE  TypeOK'
<1> USE DEF Started, TypeOK, money, stripe, queue, Begin
<1>1. ASSUME NEW a \in Arg, NEW step \in Steps, Begin(r, a, step)
      PROVE  pc' \in [Requests -> Steps] /\ arg' \in [Requests -> Arg]
  BY <1>1
<1>2. ASSUME NEW c \in Customers, CancelRead(r, c) PROVE TypeOK'
  <2>1. [NoArg EXCEPT !.customer = c, !.seen = membership[c]] \in Arg
    BY NoArgs DEF Arg, NoArg
  <2>2. QED
    BY <1>1, <1>2, <2>1 DEF CancelRead, Steps
<1>3. ASSUME NEW c \in Customers, ConfirmRead(r, c) PROVE TypeOK'
  <2>1. entry[c] \in Jobs /\ job[entry[c]].type \in Types
    BY <1>3 DEF ConfirmRead, JobsAreOwned
  <2>2. price[job[entry[c]].type] \in 0..PriceChanges
    BY <2>1
  <2>3. [NoArg EXCEPT !.customer = c, !.type = job[entry[c]].type,
                      !.price = price[job[entry[c]].type], !.job = entry[c]] \in Arg
    BY <2>1, <2>2, NoArgs DEF Arg, NoArg
  <2>4. QED
    BY <1>1, <1>3, <2>3 DEF ConfirmRead, Steps
<1>4. ASSUME NEW c \in Customers, NEW t \in Types, SubscribeRead(r, c, t) PROVE TypeOK'
  <2>1. [NoArg EXCEPT !.customer = c, !.type = t, !.seen = membership[c], !.price = price[t]]
           \in Arg
    BY NoArgs DEF Arg, NoArg
  <2>2. QED
    BY <1>1, <1>4, <2>1 DEF SubscribeRead, Steps
<1>5. ASSUME NEW t \in Types, NEW cheaper \in Cheaper, PriceRead(r, t, cheaper) PROVE TypeOK'
  <2>1. [NoArg EXCEPT !.type = t, !.price = price[t], !.cheaper = cheaper] \in Arg
    BY NoArgs, CheaperAssumption DEF Arg, NoArg
  <2>2. QED
    BY <1>1, <1>5, <2>1 DEF PriceRead, Steps
<1>6. QED
  BY <1>2, <1>3, <1>4, <1>5 DEF Arrive

LEMMA SubscribeTyped ==
    ASSUME Started, NEW r \in Requests, alone' \in BOOLEAN,
           \/ SubscribeList(r) \/ SubscribeCancel(r) \/ SubscribeFinalize(r)
           \/ SubscribeCreate(r) \/ SubscribeSave(r)
    PROVE  TypeOK'
<1> TypeOK /\ HandlersKnow
  BY DEF Started
<1> USE DEF money, stripe, queue
<1> arg[r] \in Arg
  BY DEF TypeOK
<1>1. ASSUME SubscribeList(r) PROVE TypeOK'
  <2>1. CASE Finish(r)
    BY <1>1, <2>1, FinishTyped DEF SubscribeList, TypeOK
  <2>2. CASE Goto(r, "subscribe.cancel") /\ UNCHANGED arg
    BY <1>1, <2>2, GotoTyped DEF SubscribeList, TypeOK, Steps
  <2>3. CASE Goto(r, "subscribe.create")
             /\ arg' = [arg EXCEPT ![r].trial = ~HasCanceled(arg[r].customer)]
    <3>1. HasCanceled(arg[r].customer) \in BOOLEAN
      BY DEF HasCanceled
    <3>2. [arg[r] EXCEPT !.trial = ~HasCanceled(arg[r].customer)] \in Arg
      BY <3>1, ArgUpdates
    <3>3. arg' \in [Requests -> Arg]
      BY <2>3, <3>2 DEF TypeOK
    <3>4. QED
      BY <1>1, <2>3, <3>3, GotoTyped DEF SubscribeList, TypeOK, Steps
  <2>4. QED
    BY <1>1, <2>1, <2>2, <2>3 DEF SubscribeList
<1>2. ASSUME SubscribeCancel(r) PROVE TypeOK'
  <2>1. sub' \in [Ids -> Sub]
    BY <1>2, SetSubTyped DEF SubscribeCancel, TypeOK
  <2>2. owed' \in [Customers -> Nat]
    BY <1>2, OweTyped DEF SubscribeCancel, TypeOK
  <2>3. pc' \in [Requests -> Steps]
    BY <1>2, GotoTyped DEF SubscribeCancel, Steps
  <2>4. QED
    BY <1>2, <2>1, <2>2, <2>3 DEF SubscribeCancel, TypeOK
<1>3. ASSUME SubscribeFinalize(r) PROVE TypeOK'
  BY <1>3, CreditTyped, GotoTyped DEF SubscribeFinalize, TypeOK, Steps
<1>4. ASSUME SubscribeCreate(r) PROVE TypeOK'
  <2>1. /\ arg[r].customer \in Customers /\ arg[r].type \in Types
        /\ arg[r].price \in 0..PriceChanges
    BY <1>4, ArgFields DEF SubscribeCreate, HandlersKnow, Knows, At, ToSubscribe
  <2>2. CASE Finish(r) /\ UNCHANGED <<sub, held, trials>>
    BY <1>4, <2>2, FinishTyped DEF SubscribeCreate, TypeOK
  <2>3. CASE /\ CreateSub(arg[r].customer, arg[r].type, arg[r].price)
             /\ trials' = [trials EXCEPT ![arg[r].customer] = IF arg[r].trial THEN @ + 1 ELSE @]
             /\ Goto(r, "subscribe.save") /\ UNCHANGED arg
    <3>1. sub' \in [Ids -> Sub] /\ held' \in [Customers -> SUBSET Types]
      BY <2>1, <2>3, CreateSubTyped
    <3>2. trials' \in [Customers -> Nat]
      BY <2>1, <2>3 DEF TypeOK
    <3>3. pc' \in [Requests -> Steps]
      BY <2>3, GotoTyped DEF Steps
    <3>4. QED
      BY <1>4, <2>3, <3>1, <3>2, <3>3 DEF SubscribeCreate, TypeOK
  <2>4. QED
    BY <1>4, <2>2, <2>3 DEF SubscribeCreate
<1>5. ASSUME SubscribeSave(r) PROVE TypeOK'
  <2>1. arg[r].type \in Levels
    BY <1>5 DEF SubscribeSave, HandlersKnow, Knows, At, ToSubscribe, Levels
  <2>2. QED
    BY <1>5, <2>1, SaveTyped, FinishTyped DEF SubscribeSave, TypeOK
<1>6. QED
  BY <1>1, <1>2, <1>3, <1>4, <1>5

LEMMA CancelTyped ==
    ASSUME Started, NEW r \in Requests, alone' \in BOOLEAN,
           \/ CancelStripe(r) \/ CancelInvoice(r) \/ CancelFinalize(r)
           \/ CancelRetrieve(r) \/ CancelBalance(r) \/ CancelSave(r)
    PROVE  TypeOK'
<1> TypeOK /\ HandlersKnow
  BY DEF Started
<1> USE DEF money, stripe, queue
<1> arg[r] \in Arg
  BY DEF TypeOK
<1>1. ASSUME CancelStripe(r) PROVE TypeOK'
  <2>1. sub' \in [Ids -> Sub]
    BY <1>1, SetSubTyped DEF CancelStripe, TypeOK, Live
  <2>2. owed' \in [Customers -> Nat]
    BY <1>1, OweTyped DEF CancelStripe, TypeOK
  <2>3. pc' \in [Requests -> Steps] /\ arg' \in [Requests -> Arg]
    BY <1>1, GotoTyped, FinishTyped DEF CancelStripe, TypeOK, Steps
  <2>4. QED
    BY <1>1, <2>1, <2>2, <2>3 DEF CancelStripe, TypeOK
<1>2. ASSUME CancelInvoice(r) PROVE TypeOK'
  <2>1. PICK paid \in Charges :
            LET amount == IF Prorated > paid THEN paid ELSE Prorated IN
            /\ refund' = [refund EXCEPT ![arg[r].customer] = @ + amount]
            /\ arg' = [arg EXCEPT ![r].amount = amount]
    BY <1>2 DEF CancelInvoice
  <2> DEFINE amount == IF Prorated > paid THEN paid ELSE Prorated
  <2>2. amount \in Nat
    BY AmountAssumption
  <2> HIDE DEF amount
  <2>3. refund' = [refund EXCEPT ![arg[r].customer] = @ + amount]
    BY <2>1 DEF amount
  <2>4. refund' \in [Customers -> Nat]
    <3>1. refund[arg[r].customer] + amount \in Nat
      BY <1>2, <2>2 DEF CancelInvoice, HandlersKnow, Knows, At, ToCancel, TypeOK
    <3>2. QED
      BY <2>3, <3>1 DEF TypeOK
  <2>5. [arg[r] EXCEPT !.amount = amount] \in Arg
    BY <2>2, ArgUpdates
  <2>6. arg' \in [Requests -> Arg]
    BY <2>1, <2>5 DEF TypeOK, amount
  <2>7. QED
    BY <1>2, <2>4, <2>6, GotoTyped DEF CancelInvoice, TypeOK, Steps
<1>3. ASSUME CancelFinalize(r) PROVE TypeOK'
  BY <1>3, CreditTyped, GotoTyped DEF CancelFinalize, TypeOK, Steps
<1>4. ASSUME CancelRetrieve(r) PROVE TypeOK'
  <2>1. credit[arg[r].customer] \in Int
    BY <1>4 DEF CancelRetrieve, HandlersKnow, Knows, At, ToCancel, TypeOK
  <2>2. [arg[r] EXCEPT !.credit = credit[arg[r].customer]] \in Arg
    BY <2>1, ArgUpdates
  <2>3. arg' \in [Requests -> Arg]
    BY <1>4, <2>2 DEF CancelRetrieve, TypeOK
  <2>4. QED
    BY <1>4, <2>3, GotoTyped DEF CancelRetrieve, TypeOK, Steps
<1>5. ASSUME CancelBalance(r) PROVE TypeOK'
  <2>1. arg[r].credit - arg[r].amount \in Int
    BY ArgFields
  <2>2. credit' \in [Customers -> Int]
    BY <1>5, <2>1 DEF CancelBalance, TypeOK
  <2>3. QED
    BY <1>5, <2>2, GotoTyped DEF CancelBalance, TypeOK, Steps
<1>6. ASSUME CancelSave(r) PROVE TypeOK'
  BY <1>6, SaveTyped, FinishTyped DEF CancelSave, TypeOK, Levels
<1>7. QED
  BY <1>1, <1>2, <1>3, <1>4, <1>5, <1>6

(* Handlers keep the types: those that change a price, and confirm one.    *)
LEMMA PriceTyped ==
    ASSUME Started, NEW r \in Requests, alone' \in BOOLEAN,
           \/ PriceList(r) \/ PriceCancel(r) \/ PriceUpdate(r) \/ PriceCreate(r)
           \/ PriceCheck(r) \/ PriceAdd(r) \/ PriceStore(r) \/ PriceSave(r)
    PROVE  TypeOK'
<1> TypeOK /\ HandlersKnow
  BY DEF Started
<1> USE DEF money, stripe, queue
<1> arg[r] \in Arg
  BY DEF TypeOK
<1>1. ASSUME PriceList(r) PROVE TypeOK'
  <2> DEFINE listed == {s \in Ids : /\ sub[s].state \in Live
                                    /\ sub[s].type = arg[r].type /\ sub[s].price = arg[r].price}
             subs == {s \in listed : Cardinality({o \in listed : o > s}) < Page}
             affected == {sub[s].customer : s \in subs}
  <2>1. subs \in SUBSET Ids /\ affected \in SUBSET Customers
    BY DEF Started, SubsAreOwned, Live
  <2>2. [arg[r] EXCEPT !.subs = subs, !.affected = affected] \in Arg
    BY <2>1, ArgUpdates
  <2>3. arg' = [arg EXCEPT ![r] = [arg[r] EXCEPT !.subs = subs, !.affected = affected]]
    BY <1>1 DEF PriceList, TypeOK
  <2>4. arg' \in [Requests -> Arg]
    BY <2>2, <2>3 DEF TypeOK
  <2>5. QED
    BY <1>1, <2>4, GotoTyped DEF PriceList, TypeOK, Steps
<1>2. ASSUME PriceCancel(r) PROVE TypeOK'
  <2>1. PICK s \in arg[r].subs :
            /\ arg' = [arg EXCEPT ![r].subs = @ \ {s}]
            /\ IF sub[s].state \in Live THEN SetSub(s, "canceling") ELSE UNCHANGED sub
    BY <1>2 DEF PriceCancel
  <2>2. arg' = [arg EXCEPT ![r] = [arg[r] EXCEPT !.subs = @ \ {s}]]
    BY <2>1
  <2>3. arg' \in [Requests -> Arg]
    BY <2>2, ArgUpdates DEF TypeOK
  <2>4. sub' \in [Ids -> Sub]
    BY <2>1, SetSubTyped DEF TypeOK, Live
  <2>5. QED
    BY <1>2, <2>3, <2>4 DEF PriceCancel, TypeOK
<1>3. ASSUME PriceUpdate(r) PROVE TypeOK'
  <2>1. arg[r].type \in Types
    BY <1>3 DEF PriceUpdate, HandlersKnow, Knows, At, ToPrice
  <2>2. priced[arg[r].type] + 1 \in 0..PriceChanges
    BY <1>3, <2>1, BoundAssumption DEF PriceUpdate, TypeOK
  <2>3. arg' \in [Requests -> Arg]
    BY <1>3, <2>2, ArgUpdates DEF PriceUpdate, TypeOK
  <2>4. priced' \in [Types -> 0..PriceChanges]
    BY <1>3, <2>2 DEF PriceUpdate, TypeOK
  <2>5. pc' \in [Requests -> Steps]
    BY <1>3, GotoTyped DEF PriceUpdate, Steps
  <2>6. QED
    BY <1>3, <2>3, <2>4, <2>5 DEF PriceUpdate, TypeOK
<1>4. ASSUME PriceCreate(r) PROVE TypeOK'
  <2>1. PICK c \in arg[r].affected :
            /\ arg' = [arg EXCEPT ![r] = [arg[r] EXCEPT !.affected = @ \ {c}]]
            /\ CreateSub(c, arg[r].type, arg[r].price)
    BY <1>4 DEF PriceCreate
  <2>2. c \in Customers /\ arg[r].type \in Types /\ arg[r].price \in 0..PriceChanges
    BY <1>4, ArgFields DEF PriceCreate, HandlersKnow, Knows, At, ToPrice, ToReplace
  <2>3. arg' \in [Requests -> Arg]
    BY <2>1, ArgUpdates DEF TypeOK
  <2>4. QED
    BY <1>4, <2>1, <2>2, <2>3, CreateSubTyped DEF PriceCreate, TypeOK
<1>5. ASSUME PriceCheck(r) PROVE TypeOK'
  <2>1. PICK c \in arg[r].affected :
            IF entry[c] # None
               THEN arg' = [arg EXCEPT ![r] = [arg[r] EXCEPT !.affected = @ \ {c}]] /\ UNCHANGED pc
               ELSE arg' = [arg EXCEPT ![r] = [arg[r] EXCEPT !.customer = c]] /\ Goto(r, "price.add")
    BY <1>5 DEF PriceCheck
  <2>2. c \in Customers
    BY ArgFields
  <2>3. CASE arg' = [arg EXCEPT ![r] = [arg[r] EXCEPT !.affected = @ \ {c}]] /\ UNCHANGED pc
    <3>1. [arg[r] EXCEPT !.affected = @ \ {c}] \in Arg
      BY ArgUpdates
    <3>2. QED
      BY <1>5, <2>3, <3>1 DEF PriceCheck, TypeOK
  <2>4. CASE arg' = [arg EXCEPT ![r] = [arg[r] EXCEPT !.customer = c]] /\ Goto(r, "price.add")
    <3>1. [arg[r] EXCEPT !.customer = c] \in Arg
      BY <2>2, ArgUpdates
    <3>2. QED
      BY <1>5, <2>4, <3>1, GotoTyped DEF PriceCheck, TypeOK, Steps
  <2>5. QED
    BY <2>1, <2>3, <2>4
<1>6. ASSUME PriceAdd(r) PROVE TypeOK'
  <2> DEFINE added == [state |-> "waiting", customer |-> arg[r].customer,
                       type |-> arg[r].type, seen |-> "free"]
  <2>1. PICK j \in Jobs :
            job' = [job EXCEPT ![j] = added] /\ arg' = [arg EXCEPT ![r] = [arg[r] EXCEPT !.job = j]]
    BY <1>6 DEF PriceAdd
  <2>2. added \in Job
    BY ArgFields DEF Job, Levels
  <2>3. arg' \in [Requests -> Arg] /\ job' \in [Jobs -> Job]
    BY <2>1, <2>2, ArgUpdates DEF TypeOK
  <2>4. QED
    BY <1>6, <2>3, GotoTyped DEF PriceAdd, TypeOK, Steps
<1>7. ASSUME PriceStore(r) PROVE TypeOK'
  <2>1. arg' = [arg EXCEPT ![r] = [arg[r] EXCEPT !.affected = @ \ {arg[r].customer},
                                                !.customer = None, !.job = None]]
    BY <1>7 DEF PriceStore, TypeOK
  <2>2. arg' \in [Requests -> Arg]
    BY <2>1, ArgUpdates DEF TypeOK
  <2>3. entry' \in [Customers -> Jobs \cup {None}]
    BY <1>7, ArgFields DEF PriceStore, TypeOK
  <2>4. QED
    BY <1>7, <2>2, <2>3, GotoTyped DEF PriceStore, TypeOK, Steps
<1>8. ASSUME PriceSave(r) PROVE TypeOK'
  <2>1. price' \in [Types -> 0..PriceChanges]
    BY <1>8, ArgFields DEF PriceSave, TypeOK
  <2>2. QED
    BY <1>8, <2>1, FinishTyped DEF PriceSave, TypeOK
<1>9. QED
  BY <1>1, <1>2, <1>3, <1>4, <1>5, <1>6, <1>7, <1>8

LEMMA ConfirmTyped ==
    ASSUME Started, NEW r \in Requests, alone' \in BOOLEAN,
           ConfirmDel(r) \/ ConfirmRemove(r) \/ ConfirmCreate(r)
    PROVE  TypeOK'
<1> TypeOK /\ HandlersKnow
  BY DEF Started
<1> USE DEF money, stripe, queue
<1>1. ASSUME ConfirmDel(r) PROVE TypeOK'
  BY <1>1, GotoTyped DEF ConfirmDel, TypeOK, Steps
<1>2. ASSUME ConfirmRemove(r) PROVE TypeOK'
  <2>1. CASE job[arg[r].job].state = "waiting"
    <3>1. arg[r].job \in Jobs
      BY <1>2 DEF ConfirmRemove, HandlersKnow, Knows, At
    <3>2. [job[arg[r].job] EXCEPT !.state = "removed"] \in Job
      BY <3>1, SMTT(60) DEF TypeOK, Job
    <3>3. job' \in [Jobs -> Job]
      BY <1>2, <2>1, <3>2 DEF ConfirmRemove, TypeOK
    <3>4. QED
      BY <1>2, <2>1, <3>3, GotoTyped DEF ConfirmRemove, TypeOK, Steps
  <2>2. CASE job[arg[r].job].state = "active"
    BY <1>2, <2>2, FinishTyped DEF ConfirmRemove, TypeOK
  <2>3. CASE job[arg[r].job].state \notin {"waiting", "active"}
    <3>1. Goto(r, "confirm.create") /\ UNCHANGED <<job, arg>>
      BY <1>2, <2>3 DEF ConfirmRemove
    <3>2. QED
      BY <1>2, <3>1, GotoTyped DEF ConfirmRemove, TypeOK, Steps
  <2>4. QED
    BY <2>1, <2>2, <2>3
<1>3. ASSUME ConfirmCreate(r) PROVE TypeOK'
  <2>1. arg[r].customer \in Customers /\ arg[r].type \in Types /\ arg[r].price \in 0..PriceChanges
    BY <1>3, ArgFields DEF ConfirmCreate, HandlersKnow, Knows, At, ToConfirm, TypeOK
  <2>2. sub' \in [Ids -> Sub] /\ held' \in [Customers -> SUBSET Types]
    BY <1>3, <2>1, CreateSubTyped DEF ConfirmCreate, TypeOK
  <2>3. QED
    BY <1>3, <2>2, FinishTyped DEF ConfirmCreate, TypeOK
<1>4. QED
  BY <1>1, <1>2, <1>3

LEMMA JobFields ==
    ASSUME NEW i \in Job, NEW state \in {"none", "waiting", "active", "done", "removed"},
           NEW seen \in Levels
    PROVE  [i EXCEPT !.state = state, !.seen = seen] \in Job
  BY DEF Job

LEMMA JobTyped ==
    ASSUME NEW f \in [Jobs -> Job], NEW j \in Jobs, NEW state, NEW seen,
           [f[j] EXCEPT !.state = state, !.seen = seen] \in Job
    PROVE  [f EXCEPT ![j].state = state, ![j].seen = seen] \in [Jobs -> Job]
<1>1. [f EXCEPT ![j].state = state, ![j].seen = seen]
         = [f EXCEPT ![j] = [f[j] EXCEPT !.state = state, !.seen = seen]]
  OBVIOUS
<1>2. QED
  BY <1>1

(* The others keep the types.                                              *)
LEMMA OthersTyped ==
    ASSUME Started, alone' \in BOOLEAN,
           \/ \E j \in Jobs : JobRead(j) \/ JobSave(j) \/ JobFail(j)
           \/ \E s \in Ids : PeriodEnds(s)
           \/ \E r \in Requests : Abort(r) \/ SettleFails(r)
    PROVE  TypeOK'
<1> TypeOK
  BY DEF Started
<1> USE DEF money, stripe, queue
<1>1. ASSUME NEW j \in Jobs, JobRead(j) PROVE TypeOK'
  <2>1. membership[job[j].customer] \in Levels
    BY <1>1 DEF JobRead, Started, JobsAreOwned, TypeOK
  <2>2. [job[j] EXCEPT !.state = "active", !.seen = membership[job[j].customer]] \in Job
    BY <2>1, JobFields DEF TypeOK
  <2>3. job' \in [Jobs -> Job]
    BY <1>1, <2>2, JobTyped DEF JobRead, TypeOK
  <2>4. QED
    BY <1>1, <2>3 DEF JobRead, TypeOK
<1>2. ASSUME NEW j \in Jobs, JobSave(j) PROVE TypeOK'
  <2>1. [job[j] EXCEPT !.state = "done", !.seen = "free"] \in Job
    BY JobFields DEF TypeOK, Levels
  <2>2. job' \in [Jobs -> Job]
    BY <1>2, <2>1, JobTyped DEF JobSave, TypeOK
  <2>3. QED
    BY <1>2, <2>2, SaveTyped DEF JobSave, TypeOK, Levels
<1>3. ASSUME NEW j \in Jobs, JobFail(j) PROVE TypeOK'
  <2>1. [job[j] EXCEPT !.state = "waiting", !.seen = "free"] \in Job
    BY JobFields DEF TypeOK, Levels
  <2>2. job' \in [Jobs -> Job]
    BY <1>3, <2>1, JobTyped DEF JobFail, TypeOK
  <2>3. QED
    BY <1>3, <2>2 DEF JobFail, TypeOK
<1>4. ASSUME NEW s \in Ids, PeriodEnds(s) PROVE TypeOK'
  BY <1>4, SetSubTyped DEF PeriodEnds, TypeOK
<1>5. ASSUME NEW r \in Requests, Abort(r) PROVE TypeOK'
  BY <1>5, FinishTyped DEF Abort, TypeOK
<1>6. ASSUME NEW r \in Requests, SettleFails(r) PROVE TypeOK'
  <2>1. PICK s : \/ arg' = [arg EXCEPT ![r] = [arg[r] EXCEPT !.subs = @ \ {s}]]
                 \/ arg' = [arg EXCEPT ![r] = [arg[r] EXCEPT !.affected = @ \ {s}]]
    BY <1>6 DEF SettleFails
  <2>2. /\ [arg[r] EXCEPT !.subs = @ \ {s}] \in Arg
        /\ [arg[r] EXCEPT !.affected = @ \ {s}] \in Arg
    BY ArgUpdates DEF TypeOK
  <2>3. arg' \in [Requests -> Arg]
    BY <2>1, <2>2 DEF TypeOK
  <2>4. QED
    BY <1>6, <2>3 DEF SettleFails, TypeOK
<1>7. QED
  BY <1>1, <1>2, <1>3, <1>4, <1>5, <1>6

LEMMA TypeStep == Started /\ [Next]_vars => TypeOK'
<1> SUFFICES ASSUME Started, [Next]_vars PROVE TypeOK'
  OBVIOUS
<1>1. CASE UNCHANGED vars
  BY <1>1 DEF vars, stripe, money, queue, Started, TypeOK
<1>2. CASE Next
  <2>1. alone' \in BOOLEAN
    BY <1>2 DEF Next, Goes, OneAtATime, Started, TypeOK
  <2>2. CASE Step
    BY <2>1, <2>2, ArriveTyped, SubscribeTyped, CancelTyped, PriceTyped, ConfirmTyped, OthersTyped
    DEF Step, Continue
  <2>3. CASE Fault
    BY <2>1, <2>3, OthersTyped DEF Fault
  <2>4. QED
    BY <1>2, <2>2, <2>3 DEF Next
<1>3. QED
  BY <1>1, <1>2

-----------------------------------------------------------------------------
(* What is created stays: types held, subscriptions, and jobs.             *)
Lasting ==
    /\ \A c \in Customers : held[c] \subseteq held'[c]
    /\ \A s \in Ids : sub[s].state # "none" =>
          /\ sub'[s].state # "none" /\ sub'[s].customer = sub[s].customer
          /\ sub'[s].type = sub[s].type /\ sub'[s].price = sub[s].price
          /\ sub'[s].state = "active" => sub[s].state = "active"
    /\ \A j \in Jobs : job[j].state # "none" =>
          /\ job'[j].state # "none"
          /\ job'[j].customer = job[j].customer /\ job'[j].type = job[j].type

LEMMA SetSubLasts ==
    ASSUME TypeOK, NEW i, NEW state \in {"canceling", "ended"}, SetSub(i, state),
           UNCHANGED <<held, job>>
    PROVE  Lasting
  BY DEF TypeOK, SetSub, Lasting, Sub

LEMMA CreateSubLasts ==
    ASSUME TypeOK, NEW c \in Customers, NEW t \in Types, NEW p, CreateSub(c, t, p), UNCHANGED job
    PROVE  Lasting
  BY DEF TypeOK, CreateSub, Lasting

LEMMA Lasts == Started /\ [Next]_vars => Lasting
<1> SUFFICES ASSUME Started, [Next]_vars PROVE Lasting
  OBVIOUS
<1> TypeOK /\ HandlersKnow
  BY DEF Started
<1> USE DEF stripe, queue
<1>1. CASE UNCHANGED <<sub, held, job>>
  BY <1>1 DEF Lasting
<1>2. ASSUME NEW r \in Requests, SubscribeCancel(r) PROVE Lasting
  BY <1>1, <1>2, SetSubLasts DEF SubscribeCancel
<1>3. ASSUME NEW r \in Requests, SubscribeCreate(r) PROVE Lasting
  <2>1. arg[r].customer \in Customers /\ arg[r].type \in Types
    BY <1>3 DEF SubscribeCreate, HandlersKnow, Knows, At, ToSubscribe
  <2>2. QED
    BY <1>1, <1>3, <2>1, CreateSubLasts DEF SubscribeCreate
<1>4. ASSUME NEW r \in Requests, CancelStripe(r) PROVE Lasting
  BY <1>1, <1>4, SetSubLasts DEF CancelStripe
<1>5. ASSUME NEW r \in Requests, PriceCancel(r) PROVE Lasting
  BY <1>1, <1>5, SetSubLasts DEF PriceCancel
<1>6. ASSUME NEW r \in Requests, PriceCreate(r) PROVE Lasting
  <2>1. arg[r].affected \subseteq Customers /\ arg[r].type \in Types
    BY <1>6, ArgFields DEF PriceCreate, HandlersKnow, Knows, At, ToPrice, ToReplace, TypeOK
  <2>2. QED
    BY <1>6, <2>1, CreateSubLasts DEF PriceCreate
<1>7. ASSUME NEW r \in Requests, PriceAdd(r) PROVE Lasting
  BY <1>7 DEF PriceAdd, Lasting, TypeOK, NoJob
<1>8. ASSUME NEW r \in Requests, ConfirmRemove(r) PROVE Lasting
  <2>1. CASE job' = [job EXCEPT ![arg[r].job].state = "removed"]
    BY <1>8, <2>1 DEF ConfirmRemove, Lasting, TypeOK, Job
  <2>2. QED
    BY <1>1, <1>8, <2>1 DEF ConfirmRemove
<1>9. ASSUME NEW r \in Requests, ConfirmCreate(r) PROVE Lasting
  <2>1. arg[r].customer \in Customers /\ arg[r].type \in Types
    BY <1>9 DEF ConfirmCreate, HandlersKnow, Knows, At, ToConfirm
  <2>2. QED
    BY <1>1, <1>9, <2>1, CreateSubLasts DEF ConfirmCreate
<1>10. ASSUME NEW j \in Jobs, JobRead(j) \/ JobSave(j) \/ JobFail(j) PROVE Lasting
  <2>1. PICK state, seen :
            /\ state \in {"active", "done", "waiting"}
            /\ job' = [job EXCEPT ![j].state = state, ![j].seen = seen]
    BY <1>10 DEF JobRead, JobSave, JobFail
  <2>2. /\ job'[j].state # "none" /\ job'[j].customer = job[j].customer
        /\ job'[j].type = job[j].type
        /\ \A i \in Jobs \ {j} : job'[i] = job[i]
    BY <2>1 DEF TypeOK, Job
  <2>3. UNCHANGED <<sub, held>>
    BY <1>10 DEF JobRead, JobSave, JobFail
  <2>4. QED
    BY <2>2, <2>3 DEF Lasting
<1>11. ASSUME NEW s \in Ids, PeriodEnds(s) PROVE Lasting
  BY <1>11, SetSubLasts DEF PeriodEnds
<1>12. ASSUME NEW r \in Requests, Arrive(r) PROVE Lasting
  BY <1>1, <1>12 DEF Arrive, SubscribeRead, CancelRead, PriceRead, ConfirmRead
<1>13. ASSUME NEW r \in Requests,
              \/ SubscribeList(r) \/ SubscribeFinalize(r) \/ SubscribeSave(r)
              \/ CancelInvoice(r) \/ CancelFinalize(r) \/ CancelRetrieve(r)
              \/ CancelBalance(r) \/ CancelSave(r)
       PROVE  Lasting
  BY <1>1, <1>13 DEF SubscribeList, SubscribeFinalize, SubscribeSave, CancelInvoice,
                     CancelFinalize, CancelRetrieve, CancelBalance, CancelSave
<1>14. ASSUME NEW r \in Requests,
              \/ PriceList(r) \/ PriceUpdate(r) \/ PriceCheck(r) \/ PriceStore(r) \/ PriceSave(r)
              \/ ConfirmDel(r) \/ Abort(r) \/ SettleFails(r)
       PROVE  Lasting
  BY <1>1, <1>14 DEF PriceList, PriceUpdate, PriceCheck, PriceStore, PriceSave,
                     ConfirmDel, Abort, SettleFails
<1>15. CASE UNCHANGED vars
  BY <1>1, <1>15 DEF vars
<1>16. QED
  BY <1>2, <1>3, <1>4, <1>5, <1>6, <1>7, <1>8, <1>9, <1>10, <1>11, <1>12, <1>13, <1>14, <1>15
  DEF Next, Step, Fault, Continue

(* A step of one handler leaves the others where they are.                 *)
Elsewhere(r) == \A q \in Requests \ {r} : pc'[q] = pc[q] /\ arg'[q] = arg[q]

LEMMA KnowsElsewhere ==
    ASSUME Started, Lasting, NEW q \in Requests, pc'[q] = pc[q], arg'[q] = arg[q]
    PROVE  Knows(q)'
<1> USE DEF Started, TypeOK, Lasting
<1>1. Knows(q)
  BY DEF HandlersKnow
<1>2. At(q, ToSubscribe \cup ToConfirm \cup ToCancel \cup ToAdd)' => (arg[q].customer \in Customers)'
  BY <1>1 DEF Knows, At
<1>3. At(q, ToSubscribe \cup ToConfirm \cup ToPrice)' => (arg[q].type \in Types)'
  BY <1>1 DEF Knows, At
<1>4. At(q, {"subscribe.save"})' => (arg[q].type \in held[arg[q].customer])'
  BY <1>1 DEF Knows, At, ToSubscribe
<1>5. At(q, {"price.store", "confirm.del", "confirm.remove"})' =>
          (arg[q].job \in Jobs /\ job[arg[q].job].state # "none")'
  BY <1>1 DEF Knows, At
<1>6. QED
  BY <1>2, <1>3, <1>4, <1>5 DEF Knows

LEMMA KnowsOneByOne ==
    ASSUME Started, Lasting, NEW r \in Requests, Elsewhere(r), Knows(r)'
    PROVE  HandlersKnow'
  BY KnowsElsewhere DEF HandlersKnow, Elsewhere

LEMMA Idle == ASSUME NEW r \in Requests, TypeOK, Finish(r)
              PROVE  Knows(r)' /\ Elsewhere(r)
  BY DEF TypeOK, Finish, Knows, At, Elsewhere,
         ToSubscribe, ToCancel, ToConfirm, ToPrice, ToReplace, ToAdd

LEMMA KnowStep == Started /\ [Next]_vars => HandlersKnow'
<1> SUFFICES ASSUME Started, [Next]_vars PROVE HandlersKnow'
  OBVIOUS
<1> TypeOK /\ HandlersKnow
  BY DEF Started
<1>0. Lasting
  BY Lasts
<1> USE DEF Goto, Elsewhere
<1>1. CASE UNCHANGED <<pc, arg>>
  BY <1>0, <1>1, KnowsElsewhere DEF HandlersKnow
<1>2. ASSUME NEW r \in Requests, Finish(r) PROVE HandlersKnow'
  BY <1>0, <1>2, Idle, KnowsOneByOne
<1>3. ASSUME NEW r \in Requests, Arrive(r) PROVE HandlersKnow'
  <2>1. Elsewhere(r)
    BY <1>3 DEF Arrive, SubscribeRead, CancelRead, PriceRead, ConfirmRead, Begin, TypeOK
  <2>2. ASSUME NEW c \in Customers, NEW t \in Types, SubscribeRead(r, c, t) PROVE Knows(r)'
    BY <2>2 DEF SubscribeRead, Begin, Knows, At, ToSubscribe, ToCancel, ToConfirm,
                ToPrice, ToReplace, ToAdd, TypeOK, NoArg
  <2>3. ASSUME NEW c \in Customers, CancelRead(r, c) PROVE Knows(r)'
    BY <2>3 DEF CancelRead, Begin, Knows, At, ToSubscribe, ToCancel, ToConfirm,
                ToPrice, ToReplace, ToAdd, TypeOK, NoArg
  <2>4. ASSUME NEW c \in Customers, ConfirmRead(r, c) PROVE Knows(r)'
    <3>1. entry[c] \in Jobs /\ job[entry[c]].type \in Types /\ job[entry[c]].state # "none"
      BY <2>4 DEF ConfirmRead, Started, JobsAreOwned, TypeOK
    <3>2. /\ pc'[r] = "confirm.del" /\ arg'[r].customer = c
          /\ arg'[r].type = job[entry[c]].type /\ arg'[r].job = entry[c]
      BY <2>4 DEF ConfirmRead, Begin, TypeOK, NoArg
    <3>3. job' = job
      BY <2>4 DEF ConfirmRead, queue
    <3>4. QED
      BY <3>1, <3>2, <3>3 DEF Knows, At, ToSubscribe, ToCancel, ToConfirm, ToPrice, ToReplace, ToAdd
  <2>5. ASSUME NEW t \in Types, NEW cheaper \in Cheaper, PriceRead(r, t, cheaper) PROVE Knows(r)'
    BY <2>5 DEF PriceRead, Begin, Knows, At, ToSubscribe, ToCancel, ToConfirm,
                ToPrice, ToReplace, ToAdd, TypeOK, NoArg
  <2>6. Knows(r)'
    BY <1>3, <2>2, <2>3, <2>4, <2>5 DEF Arrive
  <2>7. QED
    BY <1>0, <2>1, <2>6, KnowsOneByOne
<1>4. ASSUME NEW r \in Requests,
             \/ SubscribeList(r) \/ SubscribeCancel(r) \/ SubscribeFinalize(r) \/ SubscribeSave(r)
      PROVE  HandlersKnow'
  <2>1. CASE Finish(r)
    BY <1>2, <2>1
  <2>2. CASE ~Finish(r)
    <3>1. /\ pc'[r] \in {"subscribe.cancel", "subscribe.finalize", "subscribe.create"}
          /\ pc[r] \in {"subscribe.list", "subscribe.cancel", "subscribe.finalize"}
          /\ arg'[r].customer = arg[r].customer /\ arg'[r].type = arg[r].type
          /\ Elsewhere(r)
      BY <1>4, <2>2 DEF SubscribeList, SubscribeCancel, SubscribeFinalize, SubscribeSave, TypeOK, Arg
    <3>2. Knows(r)'
      BY <3>1 DEF HandlersKnow, Knows, At, ToSubscribe, ToCancel, ToConfirm, ToPrice, ToReplace, ToAdd
    <3>3. QED
      BY <1>0, <3>1, <3>2, KnowsOneByOne
  <2>3. QED
    BY <2>1, <2>2
<1>5. ASSUME NEW r \in Requests, SubscribeCreate(r) PROVE HandlersKnow'
  <2>1. CASE Finish(r)
    BY <1>2, <2>1
  <2>2. CASE ~Finish(r)
    <3>1. arg[r].customer \in Customers /\ arg[r].type \in Types
      BY <1>5 DEF SubscribeCreate, HandlersKnow, Knows, At, ToSubscribe
    <3>2. /\ pc'[r] = "subscribe.save" /\ arg' = arg /\ Elsewhere(r)
          /\ arg[r].type \in held'[arg[r].customer]
      BY <1>5, <2>2, <3>1 DEF SubscribeCreate, CreateSub, TypeOK
    <3>3. Knows(r)'
      BY <3>1, <3>2 DEF Knows, At, ToSubscribe, ToCancel, ToConfirm, ToPrice, ToReplace, ToAdd
    <3>4. QED
      BY <1>0, <3>2, <3>3, KnowsOneByOne
  <2>3. QED
    BY <2>1, <2>2
<1>6. ASSUME NEW r \in Requests,
             \/ CancelStripe(r) \/ CancelInvoice(r) \/ CancelFinalize(r)
             \/ CancelRetrieve(r) \/ CancelBalance(r) \/ CancelSave(r)
      PROVE  HandlersKnow'
  <2>1. CASE Finish(r)
    BY <1>2, <2>1
  <2>2. CASE ~Finish(r)
    <3>1. /\ pc'[r] \in ToCancel /\ pc[r] \in ToCancel
          /\ arg'[r].customer = arg[r].customer /\ Elsewhere(r)
      BY <1>6, <2>2 DEF CancelStripe, CancelInvoice, CancelFinalize, CancelRetrieve,
                        CancelBalance, CancelSave, TypeOK, Arg, ToCancel
    <3>2. Knows(r)'
      BY <3>1 DEF HandlersKnow, Knows, At, ToSubscribe, ToCancel, ToConfirm, ToPrice, ToReplace, ToAdd
    <3>3. QED
      BY <1>0, <3>1, <3>2, KnowsOneByOne
  <2>3. QED
    BY <2>1, <2>2
<1>7. ASSUME NEW r \in Requests,
             \/ PriceList(r) \/ PriceCancel(r) \/ PriceUpdate(r) \/ PriceCreate(r)
             \/ PriceStore(r) \/ PriceSave(r) \/ SettleFails(r)
      PROVE  HandlersKnow'
  <2>1. CASE Finish(r)
    BY <1>2, <2>1
  <2>2. CASE ~Finish(r)
    <3>1. /\ pc'[r] \in {"price.cancel", "price.create", "price.check"}
          /\ pc[r] \in ToPrice /\ arg'[r].type = arg[r].type /\ Elsewhere(r)
      BY <1>7, <2>2 DEF PriceList, PriceCancel, PriceUpdate, PriceCreate, PriceStore,
                        PriceSave, SettleFails, TypeOK, Arg, ToPrice, ToReplace, ToAdd
    <3>2. Knows(r)'
      BY <3>1 DEF HandlersKnow, Knows, At, ToSubscribe, ToCancel, ToConfirm, ToPrice, ToReplace, ToAdd
    <3>3. QED
      BY <1>0, <3>1, <3>2, KnowsOneByOne
  <2>3. QED
    BY <2>1, <2>2
<1>8. ASSUME NEW r \in Requests, PriceCheck(r) PROVE HandlersKnow'
  <2>1. arg[r].type \in Types /\ arg[r].affected \subseteq Customers
    BY <1>8, ArgFields DEF PriceCheck, HandlersKnow, Knows, At, ToPrice, ToReplace, TypeOK
  <2>2. /\ pc'[r] \in {"price.check", "price.add"}
        /\ pc'[r] = "price.add" => arg'[r].customer \in Customers
        /\ arg'[r].type = arg[r].type /\ Elsewhere(r)
    BY <1>8, <2>1 DEF PriceCheck, TypeOK, Arg
  <2>3. Knows(r)'
    BY <2>1, <2>2 DEF Knows, At, ToSubscribe, ToCancel, ToConfirm, ToPrice, ToReplace, ToAdd
  <2>4. QED
    BY <1>0, <2>2, <2>3, KnowsOneByOne
<1>9. ASSUME NEW r \in Requests, PriceAdd(r) PROVE HandlersKnow'
  <2>1. arg[r].type \in Types /\ arg[r].customer \in Customers
    BY <1>9 DEF PriceAdd, HandlersKnow, Knows, At, ToPrice, ToReplace, ToAdd
  <2>2. /\ pc'[r] = "price.store" /\ arg'[r].customer = arg[r].customer
        /\ arg'[r].type = arg[r].type /\ Elsewhere(r)
        /\ arg'[r].job \in Jobs /\ job'[arg'[r].job].state # "none"
    BY <1>9 DEF PriceAdd, TypeOK, Arg
  <2>3. Knows(r)'
    BY <2>1, <2>2 DEF Knows, At, ToSubscribe, ToCancel, ToConfirm, ToPrice, ToReplace, ToAdd
  <2>4. QED
    BY <1>0, <2>2, <2>3, KnowsOneByOne
<1>10. ASSUME NEW r \in Requests, ConfirmDel(r) \/ ConfirmRemove(r) \/ ConfirmCreate(r)
       PROVE  HandlersKnow'
  <2>1. CASE Finish(r)
    BY <1>2, <2>1
  <2>2. CASE ~Finish(r)
    <3>1. /\ pc[r] \in {"confirm.del", "confirm.remove"}
          /\ pc'[r] \in {"confirm.remove", "confirm.create"}
          /\ arg' = arg /\ Elsewhere(r)
      BY <1>10, <2>2 DEF ConfirmDel, ConfirmRemove, ConfirmCreate, TypeOK
    <3>2. Knows(r)'
      BY <1>0, <3>1 DEF Lasting, HandlersKnow, Knows, At, ToSubscribe, ToCancel, ToConfirm,
                        ToPrice, ToReplace, ToAdd
    <3>3. QED
      BY <1>0, <3>1, <3>2, KnowsOneByOne
  <2>3. QED
    BY <2>1, <2>2
<1>11. ASSUME NEW j \in Jobs, JobRead(j) \/ JobSave(j) \/ JobFail(j) PROVE HandlersKnow'
  BY <1>1, <1>11 DEF JobRead, JobSave, JobFail
<1>12. ASSUME NEW s \in Ids, PeriodEnds(s) PROVE HandlersKnow'
  BY <1>1, <1>12 DEF PeriodEnds
<1>13. CASE UNCHANGED vars
  BY <1>1, <1>13 DEF vars
<1>14. QED
  BY <1>2, <1>3, <1>4, <1>5, <1>6, <1>7, <1>8, <1>9, <1>10, <1>11, <1>12, <1>13
  DEF Next, Step, Fault, Continue, Abort

-----------------------------------------------------------------------------
(* The newest of a customer's subscriptions exists: a set of ids has a     *)
(* largest, since inclusion of finite sets is well-founded.                *)
LEMMA Largest == ASSUME NEW n \in Nat, NEW T \in SUBSET (1..n), T # {}
                 PROVE  \E x \in T : \A y \in T : y <= x
<1> DEFINE Above(x) == {t \in T : x <= t}
           Tails == {Above(x) : x \in T}
<1>1. IsFiniteSet(T)
  <2>1. 1 \in Int /\ n \in Int
    OBVIOUS
  <2>2. IsFiniteSet(1..n)
    BY <2>1, FS_Interval
  <2>3. QED
    BY <2>2, FS_Subset
<1>2. \A x \in T : Above(x) \in FiniteSubsetsOf(T)
  BY <1>1, FS_Subset DEF FiniteSubsetsOf
<1>3. Tails \subseteq FiniteSubsetsOf(T) /\ Tails # {}
  <2> HIDE DEF Above
  <2> QED BY <1>2
<1>4. PICK U \in Tails : \A V \in Tails : ~(<<V, U>> \in StrictSubsetOrdering(T))
  BY <1>3, FS_StrictSubsetOrderingWellFounded, WFMin
<1>5. PICK x \in T : U = Above(x)
  OBVIOUS
<1>6. ASSUME NEW y \in T, ~(y <= x) PROVE FALSE
  <2>1. x \in Int /\ y \in Int /\ \A t \in T : t \in Int
    OBVIOUS
  <2>2. \A t \in Above(y) : t \in Above(x)
    BY <1>6, <2>1
  <2>3. x \in Above(x) /\ x \notin Above(y)
    BY <1>6, <2>1
  <2>4. Above(y) \in SUBSET T /\ U \in SUBSET T /\ Above(y) \subseteq U /\ Above(y) # U
    BY <1>5, <2>2, <2>3
  <2>5. <<Above(y), U>> \in StrictSubsetOrdering(T)
    <3> HIDE DEF Above
    <3> QED BY <2>4 DEF StrictSubsetOrdering
  <2>6. QED
    BY <1>4, <2>5
<1>7. QED
  BY <1>6

LEMMA NewestLives == ASSUME NEW c, LiveOf(c) # {}
                     PROVE  Newest(c) \in LiveOf(c)
<1>1. LiveOf(c) \in SUBSET (1..Subscriptions)
  BY DEF LiveOf, Ids
<1>2. \E s \in LiveOf(c) : \A o \in LiveOf(c) : o <= s
  BY <1>1, Largest, BoundAssumption
<1>3. QED
  BY <1>2 DEF Newest

LEMMA SetSubKeeps ==
    ASSUME TypeOK, NEW i \in Ids, NEW state \in Live \cup {"ended"}, SetSub(i, state),
           sub[i].state # "none"
    PROVE  \A s \in Ids : sub[s].state = "none" => sub'[s] = sub[s]
  BY DEF TypeOK, SetSub

LEMMA SubsStep == Started /\ [Next]_vars => SubsAreOwned'
<1> SUFFICES ASSUME Started, [Next]_vars PROVE SubsAreOwned'
  OBVIOUS
<1> TypeOK /\ HandlersKnow /\ SubsAreOwned
  BY DEF Started
<1>0. Lasting
  BY Lasts
<1> USE DEF stripe
<1>1. CASE \A s \in Ids : sub[s].state = "none" => sub'[s] = sub[s]
  BY <1>0, <1>1 DEF Lasting, SubsAreOwned
<1>2. CASE UNCHANGED sub
  BY <1>1, <1>2
<1>3. ASSUME NEW c \in Customers, NEW t \in Types, NEW p, CreateSub(c, t, p) PROVE SubsAreOwned'
  BY <1>3 DEF CreateSub, SubsAreOwned, TypeOK
<1>4. ASSUME NEW i \in Ids, NEW state \in Live \cup {"ended"}, SetSub(i, state), sub[i].state \in Live
      PROVE  SubsAreOwned'
  BY <1>1, <1>4, SetSubKeeps DEF Live
<1>5. ASSUME NEW c, LiveOf(c) # {} PROVE Newest(c) \in Ids /\ sub[Newest(c)].state \in Live
  BY <1>5, NewestLives DEF LiveOf
<1>6. ASSUME NEW r \in Requests, SubscribeCancel(r) PROVE SubsAreOwned'
  BY <1>2, <1>4, <1>5, <1>6 DEF SubscribeCancel
<1>7. ASSUME NEW r \in Requests, SubscribeCreate(r) PROVE SubsAreOwned'
  <2>1. arg[r].customer \in Customers /\ arg[r].type \in Types
    BY <1>7 DEF SubscribeCreate, HandlersKnow, Knows, At, ToSubscribe
  <2>2. QED
    BY <1>2, <1>3, <1>7, <2>1 DEF SubscribeCreate
<1>8. ASSUME NEW r \in Requests, CancelStripe(r) PROVE SubsAreOwned'
  BY <1>2, <1>4, <1>5, <1>8 DEF CancelStripe, Live
<1>9. ASSUME NEW r \in Requests, PriceCancel(r) PROVE SubsAreOwned'
  BY <1>2, <1>4, <1>9, ArgFields DEF PriceCancel, Live, TypeOK
<1>10. ASSUME NEW r \in Requests, PriceCreate(r) PROVE SubsAreOwned'
  <2>1. arg[r].affected \subseteq Customers /\ arg[r].type \in Types
    BY <1>10, ArgFields DEF PriceCreate, HandlersKnow, Knows, At, ToPrice, ToReplace, TypeOK
  <2>2. QED
    BY <1>3, <1>10, <2>1 DEF PriceCreate
<1>11. ASSUME NEW r \in Requests, ConfirmCreate(r) PROVE SubsAreOwned'
  <2>1. arg[r].customer \in Customers /\ arg[r].type \in Types
    BY <1>11 DEF ConfirmCreate, HandlersKnow, Knows, At, ToConfirm
  <2>2. QED
    BY <1>2, <1>3, <1>11, <2>1 DEF ConfirmCreate
<1>12. ASSUME NEW s \in Ids, PeriodEnds(s) PROVE SubsAreOwned'
  BY <1>4, <1>12 DEF PeriodEnds, Live
<1>13. ASSUME NEW r \in Requests, Arrive(r) PROVE SubsAreOwned'
  BY <1>2, <1>13 DEF Arrive, SubscribeRead, CancelRead, PriceRead, ConfirmRead
<1>14. ASSUME NEW r \in Requests,
              \/ SubscribeList(r) \/ SubscribeFinalize(r) \/ SubscribeSave(r)
              \/ CancelInvoice(r) \/ CancelFinalize(r) \/ CancelRetrieve(r)
              \/ CancelBalance(r) \/ CancelSave(r)
       PROVE  SubsAreOwned'
  BY <1>2, <1>14 DEF SubscribeList, SubscribeFinalize, SubscribeSave, CancelInvoice,
                     CancelFinalize, CancelRetrieve, CancelBalance, CancelSave
<1>15. ASSUME NEW r \in Requests,
              \/ PriceList(r) \/ PriceUpdate(r) \/ PriceCheck(r) \/ PriceAdd(r)
              \/ PriceStore(r) \/ PriceSave(r) \/ ConfirmDel(r) \/ ConfirmRemove(r)
              \/ Abort(r) \/ SettleFails(r)
       PROVE  SubsAreOwned'
  BY <1>2, <1>15 DEF PriceList, PriceUpdate, PriceCheck, PriceAdd, PriceStore, PriceSave,
                     ConfirmDel, ConfirmRemove, Abort, SettleFails
<1>16. ASSUME NEW j \in Jobs, JobRead(j) \/ JobSave(j) \/ JobFail(j) PROVE SubsAreOwned'
  BY <1>2, <1>16 DEF JobRead, JobSave, JobFail
<1>17. CASE UNCHANGED vars
  BY <1>2, <1>17 DEF vars
<1>18. QED
  BY <1>6, <1>7, <1>8, <1>9, <1>10, <1>11, <1>12, <1>13, <1>14, <1>15, <1>16, <1>17
  DEF Next, Step, Fault, Continue

LEMMA JobsStep == Started /\ [Next]_vars => JobsAreOwned'
<1> SUFFICES ASSUME Started, [Next]_vars PROVE JobsAreOwned'
  OBVIOUS
<1> TypeOK /\ HandlersKnow /\ JobsAreOwned
  BY DEF Started
<1>0. Lasting
  BY Lasts
<1> USE DEF queue
<1>1. ASSUME \A j \in Jobs : job[j].state = "none" => job'[j] = job[j],
             \A c \in Customers : entry'[c] # None => entry'[c] \in Jobs /\ job[entry'[c]].state # "none"
      PROVE  JobsAreOwned'
  BY <1>0, <1>1 DEF Lasting, JobsAreOwned
<1>2. CASE UNCHANGED queue
  BY <1>1, <1>2 DEF JobsAreOwned, TypeOK
<1>3. ASSUME NEW r \in Requests, PriceAdd(r) PROVE JobsAreOwned'
  <2>1. arg[r].type \in Types /\ arg[r].customer \in Customers
    BY <1>3 DEF PriceAdd, HandlersKnow, Knows, At, ToPrice, ToReplace, ToAdd
  <2>2. PICK j \in Jobs :
            job' = [job EXCEPT ![j] = [state |-> "waiting", customer |-> arg[r].customer,
                                       type |-> arg[r].type, seen |-> "free"]]
    BY <1>3 DEF PriceAdd
  <2>3. entry' = entry
    BY <1>3 DEF PriceAdd
  <2>4. QED
    BY <1>0, <2>1, <2>2, <2>3 DEF Lasting, JobsAreOwned, TypeOK
<1>4. ASSUME NEW r \in Requests, PriceStore(r) PROVE JobsAreOwned'
  <2>1. arg[r].job \in Jobs /\ job[arg[r].job].state # "none"
    BY <1>4 DEF PriceStore, HandlersKnow, Knows, At
  <2>2. QED
    BY <1>1, <1>4, <2>1 DEF PriceStore, JobsAreOwned, TypeOK
<1>5. ASSUME NEW r \in Requests, ConfirmDel(r) PROVE JobsAreOwned'
  BY <1>1, <1>5 DEF ConfirmDel, JobsAreOwned, TypeOK
<1>6. ASSUME NEW j \in Jobs, NEW state, NEW seen, job[j].state # "none", UNCHANGED entry,
             job' = [job EXCEPT ![j].state = state, ![j].seen = seen]
      PROVE  JobsAreOwned'
  BY <1>1, <1>6 DEF JobsAreOwned, TypeOK
<1>7. ASSUME NEW r \in Requests, ConfirmRemove(r) PROVE JobsAreOwned'
  <2>1. arg[r].job \in Jobs /\ job[arg[r].job].state # "none"
    BY <1>7 DEF ConfirmRemove, HandlersKnow, Knows, At
  <2>2. UNCHANGED job \/ job' = [job EXCEPT ![arg[r].job].state = "removed"]
    BY <1>7 DEF ConfirmRemove
  <2>3. UNCHANGED entry
    BY <1>7 DEF ConfirmRemove
  <2>4. QED
    BY <1>1, <1>2, <2>1, <2>2, <2>3 DEF JobsAreOwned, TypeOK
<1>8. ASSUME NEW j \in Jobs, JobRead(j) \/ JobSave(j) \/ JobFail(j) PROVE JobsAreOwned'
  <2>1. PICK state, seen : job' = [job EXCEPT ![j].state = state, ![j].seen = seen]
    BY <1>8 DEF JobRead, JobSave, JobFail
  <2>2. job[j].state # "none" /\ UNCHANGED entry
    BY <1>8 DEF JobRead, JobSave, JobFail
  <2>3. QED
    BY <1>6, <2>1, <2>2
<1>9. ASSUME NEW s \in Ids, PeriodEnds(s) PROVE JobsAreOwned'
  BY <1>2, <1>9 DEF PeriodEnds
<1>10. ASSUME NEW r \in Requests, Arrive(r) PROVE JobsAreOwned'
  BY <1>2, <1>10 DEF Arrive, SubscribeRead, CancelRead, PriceRead, ConfirmRead
<1>11. ASSUME NEW r \in Requests,
              \/ SubscribeList(r) \/ SubscribeCancel(r) \/ SubscribeFinalize(r)
              \/ SubscribeCreate(r) \/ SubscribeSave(r)
              \/ CancelStripe(r) \/ CancelInvoice(r) \/ CancelFinalize(r) \/ CancelRetrieve(r)
              \/ CancelBalance(r) \/ CancelSave(r)
       PROVE  JobsAreOwned'
  BY <1>2, <1>11 DEF SubscribeList, SubscribeCancel, SubscribeFinalize, SubscribeCreate,
                     SubscribeSave, CancelStripe, CancelInvoice, CancelFinalize,
                     CancelRetrieve, CancelBalance, CancelSave
<1>12. ASSUME NEW r \in Requests,
              \/ PriceList(r) \/ PriceCancel(r) \/ PriceUpdate(r) \/ PriceCreate(r)
              \/ PriceCheck(r) \/ PriceSave(r) \/ ConfirmCreate(r) \/ Abort(r) \/ SettleFails(r)
       PROVE  JobsAreOwned'
  BY <1>2, <1>12 DEF PriceList, PriceCancel, PriceUpdate, PriceCreate, PriceCheck, PriceSave,
                     ConfirmCreate, Abort, SettleFails
<1>13. CASE UNCHANGED vars
  BY <1>2, <1>13 DEF vars
<1>14. QED
  BY <1>3, <1>4, <1>5, <1>7, <1>8, <1>9, <1>10, <1>11, <1>12, <1>13
  DEF Next, Step, Fault, Continue

LEMMA BackedStep == Started /\ [Next]_vars => MembershipBacked'
<1> SUFFICES ASSUME Started, [Next]_vars PROVE MembershipBacked'
  OBVIOUS
<1> TypeOK /\ HandlersKnow /\ MembershipBacked
  BY DEF Started
<1>0. Lasting
  BY Lasts
<1>1. CASE \A c \in Customers :
             membership'[c] # "free" => membership'[c] \in held[c]
  BY <1>0, <1>1 DEF Lasting, MembershipBacked
<1>2. CASE UNCHANGED membership
  BY <1>1, <1>2 DEF MembershipBacked
<1>3. ASSUME NEW c, NEW seen, SaveMembership(c, seen, "free") PROVE MembershipBacked'
  BY <1>1, <1>3 DEF SaveMembership, MembershipBacked, TypeOK
<1>4. ASSUME NEW r \in Requests, SubscribeSave(r) PROVE MembershipBacked'
  <2>1. arg[r].type \in held[arg[r].customer]
    BY <1>4 DEF SubscribeSave, HandlersKnow, Knows, At
  <2>2. QED
    BY <1>1, <1>4, <2>1 DEF SubscribeSave, SaveMembership, MembershipBacked, TypeOK
<1>5. ASSUME NEW r \in Requests, CancelSave(r) PROVE MembershipBacked'
  BY <1>3, <1>5 DEF CancelSave
<1>6. ASSUME NEW j \in Jobs, JobRead(j) \/ JobSave(j) \/ JobFail(j) PROVE MembershipBacked'
  BY <1>2, <1>3, <1>6 DEF JobRead, JobSave, JobFail
<1>7. ASSUME NEW s \in Ids, PeriodEnds(s) PROVE MembershipBacked'
  BY <1>2, <1>7 DEF PeriodEnds
<1>8. ASSUME NEW r \in Requests, Arrive(r) PROVE MembershipBacked'
  BY <1>2, <1>8 DEF Arrive, SubscribeRead, CancelRead, PriceRead, ConfirmRead
<1>9. ASSUME NEW r \in Requests,
              \/ SubscribeList(r) \/ SubscribeCancel(r) \/ SubscribeFinalize(r) \/ SubscribeCreate(r)
              \/ CancelStripe(r) \/ CancelInvoice(r) \/ CancelFinalize(r) \/ CancelRetrieve(r)
              \/ CancelBalance(r)
      PROVE  MembershipBacked'
  BY <1>2, <1>9 DEF SubscribeList, SubscribeCancel, SubscribeFinalize, SubscribeCreate,
                    CancelStripe, CancelInvoice, CancelFinalize, CancelRetrieve, CancelBalance
<1>10. ASSUME NEW r \in Requests,
              \/ PriceList(r) \/ PriceCancel(r) \/ PriceUpdate(r) \/ PriceCreate(r)
              \/ PriceCheck(r) \/ PriceAdd(r) \/ PriceStore(r) \/ PriceSave(r)
              \/ ConfirmDel(r) \/ ConfirmRemove(r) \/ ConfirmCreate(r) \/ Abort(r) \/ SettleFails(r)
       PROVE  MembershipBacked'
  BY <1>2, <1>10 DEF PriceList, PriceCancel, PriceUpdate, PriceCreate, PriceCheck, PriceAdd,
                     PriceStore, PriceSave, ConfirmDel, ConfirmRemove, ConfirmCreate, Abort,
                     SettleFails
<1>11. CASE UNCHANGED vars
  BY <1>2, <1>11 DEF vars
<1>12. QED
  BY <1>4, <1>5, <1>6, <1>7, <1>8, <1>9, <1>10, <1>11 DEF Next, Step, Fault, Continue

LEMMA StartedStep == Started /\ [Next]_vars => Started'
  BY TypeStep, KnowStep, SubsStep, JobsStep, BackedStep DEF Started

-----------------------------------------------------------------------------
(* While handlers run one at a time.                                       *)
LEMMA TwoMembers == ASSUME NEW S, IsFiniteSet(S), NEW x \in S, NEW y \in S, x # y
                    PROVE  2 <= Cardinality(S)
<1>1. IsFiniteSet({x}) /\ Cardinality({x}) = 1
  BY FS_Singleton
<1>2. Cardinality({x} \cup {y}) = 2
  BY <1>1, FS_AddElement
<1>3. Cardinality({x} \cup {y}) <= Cardinality(S)
  BY FS_Subset
<1>4. QED
  BY <1>2, <1>3

LEMMA OneMember == ASSUME NEW S, IsFiniteSet(S), NEW x \in S
                   PROVE  1 <= Cardinality(S)
<1>1. Cardinality({x}) = 1
  BY FS_Singleton
<1>2. Cardinality({x}) <= Cardinality(S)
  BY FS_Subset
<1>3. QED
  BY <1>1, <1>2

LEMMA AtMostOne ==
    ASSUME NEW S, NEW T, IsFiniteSet(S), IsFiniteSet(T), Cardinality(S) + Cardinality(T) <= 1
    PROVE  /\ \A x, y \in S : x = y
           /\ \A x, y \in T : x = y
           /\ S = {} \/ T = {}
<1>1. Cardinality(S) \in Nat /\ Cardinality(T) \in Nat
  BY FS_CardinalityType
<1>2. ~(2 <= Cardinality(S)) /\ ~(2 <= Cardinality(T))
  BY <1>1
<1>3. ~(1 <= Cardinality(S) /\ 1 <= Cardinality(T))
  BY <1>1
<1>4. QED
  BY <1>2, <1>3, TwoMembers, OneMember

LEMMA SolitudeStep == Solitude /\ [Next]_vars => Solitude'
<1> SUFFICES ASSUME Solitude, [Next]_vars, alone' PROVE Solitude'
  BY DEF Solitude
<1>1. CASE UNCHANGED vars
  BY <1>1 DEF vars, queue, Solitude, Busy, Working
<1>2. CASE Next
  <2>1. (Cardinality(Busy) + Cardinality(Working) <= 1)'
    BY <1>2 DEF Next, Goes, OneAtATime
  <2>2. IsFiniteSet(Busy') /\ IsFiniteSet(Working')
    BY FiniteAssumption, FS_Subset DEF Busy, Working
  <2>3. /\ \A r, q \in Busy' : r = q
        /\ \A i, j \in Working' : i = j
        /\ Busy' = {} \/ Working' = {}
    <3> HIDE DEF Busy, Working
    <3> QED BY <2>1, <2>2, AtMostOne
  <2>4. QED
    BY <2>3 DEF Solitude
<1>3. QED
  BY <1>1, <1>2

(* The handler that takes a step is the only one.                          *)
LEMMA OnlyHandler ==
    ASSUME Solitude, Solitude', alone, alone', NEW r \in Requests, Elsewhere(r),
           pc[r] # "idle" \/ pc'[r] # "idle"
    PROVE  \A q \in Requests \ {r} : pc[q] = "idle" /\ pc'[q] = "idle"
  BY DEF Solitude, Busy, Elsewhere

LEMMA AloneBefore == [Next]_vars /\ alone' => alone /\ (Step \/ UNCHANGED vars)
  BY DEF Next, Goes, vars

(* Whose steps they are.                                                   *)
LEMMA Steppers ==
    ASSUME TypeOK, NEW r \in Requests, Arrive(r) \/ Continue(r)
    PROVE  Elsewhere(r) /\ (pc[r] # "idle" \/ pc'[r] # "idle")
<1> USE DEF TypeOK, Elsewhere, Goto, Finish, Begin
<1>1. CASE Arrive(r)
  BY <1>1 DEF Arrive, SubscribeRead, CancelRead, PriceRead, ConfirmRead
<1>2. CASE SubscribeList(r) \/ SubscribeCancel(r) \/ SubscribeFinalize(r)
           \/ SubscribeCreate(r) \/ SubscribeSave(r)
  BY <1>2 DEF SubscribeList, SubscribeCancel, SubscribeFinalize, SubscribeCreate, SubscribeSave
<1>3. CASE CancelStripe(r) \/ CancelInvoice(r) \/ CancelFinalize(r) \/ CancelRetrieve(r)
           \/ CancelBalance(r) \/ CancelSave(r)
  BY <1>3 DEF CancelStripe, CancelInvoice, CancelFinalize, CancelRetrieve, CancelBalance, CancelSave
<1>4. CASE PriceList(r) \/ PriceCancel(r) \/ PriceUpdate(r) \/ PriceCreate(r)
           \/ PriceCheck(r) \/ PriceAdd(r) \/ PriceStore(r) \/ PriceSave(r)
  BY <1>4 DEF PriceList, PriceCancel, PriceUpdate, PriceCreate, PriceCheck, PriceAdd,
              PriceStore, PriceSave
<1>5. CASE ConfirmDel(r) \/ ConfirmRemove(r) \/ ConfirmCreate(r)
  BY <1>5 DEF ConfirmDel, ConfirmRemove, ConfirmCreate
<1>6. QED
  BY <1>1, <1>2, <1>3, <1>4, <1>5 DEF Continue

-----------------------------------------------------------------------------
(* The money: what a lone handler owes makes up for the difference.        *)
Balance(r) == \A c \in Customers :
    /\ refund[c] + credit[c] + (IF pc[r] # "idle" /\ arg[r].customer = c THEN Due(r) ELSE 0) = owed[c]
    /\ pc[r] = "cancel.balance" /\ arg[r].customer = c => arg[r].credit = credit[c]

LEMMA BalanceOfOne ==
    ASSUME TypeOK, alone, MoneyBalances, NEW r \in Requests,
           \A q \in Requests \ {r} : pc[q] = "idle"
    PROVE  Balance(r)
<1> SUFFICES ASSUME NEW c \in Customers
             PROVE  /\ refund[c] + credit[c]
                          + (IF pc[r] # "idle" /\ arg[r].customer = c THEN Due(r) ELSE 0) = owed[c]
                    /\ pc[r] = "cancel.balance" /\ arg[r].customer = c => arg[r].credit = credit[c]
  BY DEF Balance
<1>1. CASE pc[r] # "idle" /\ arg[r].customer = c
  BY <1>1 DEF MoneyBalances
<1>2. CASE ~(pc[r] # "idle" /\ arg[r].customer = c)
  BY <1>2 DEF MoneyBalances, TypeOK
<1>3. QED
  BY <1>1, <1>2

LEMMA OneBalances ==
    ASSUME TypeOK', NEW r \in Requests, Balance(r)',
           \A q \in Requests \ {r} : pc'[q] = "idle"
    PROVE  MoneyBalances'
<1> SUFFICES ASSUME NEW c \in Customers
             PROVE  /\ \A q \in Requests : pc'[q] # "idle" /\ arg'[q].customer = c =>
                          /\ (refund[c] + credit[c] + Due(q) = owed[c])'
                          /\ pc'[q] = "cancel.balance" => arg'[q].credit = credit'[c]
                    /\ (\A q \in Requests : pc'[q] # "idle" => arg'[q].customer # c) =>
                          refund'[c] + credit'[c] = owed'[c]
  BY DEF MoneyBalances
<1>1. CASE pc'[r] # "idle" /\ arg'[r].customer = c
  BY <1>1 DEF Balance
<1>2. CASE ~(pc'[r] # "idle" /\ arg'[r].customer = c)
  BY <1>2 DEF Balance, TypeOK
<1>3. QED
  BY <1>1, <1>2

Debts == {"subscribe.finalize", "cancel.invoice", "cancel.finalize", "cancel.retrieve", "cancel.balance"}

LEMMA NoDebt ==
    ASSUME NEW r \in Requests, Balance(r), UNCHANGED money,
           pc[r] \notin Debts, pc'[r] \notin Debts
    PROVE  Balance(r)'
<1>1. Due(r) = 0 /\ Due(r)' = 0
  BY DEF Due, Debts
<1>2. QED
  BY <1>1 DEF Balance, money, Debts

LEMMA BalanceStep ==
    ASSUME TypeOK, HandlersKnow, NEW r \in Requests, Balance(r), Arrive(r) \/ Continue(r)
    PROVE  Balance(r)'
<1> USE DEF TypeOK
<1> arg[r] \in Arg
  OBVIOUS
<1>1. ASSUME SubscribeCancel(r) PROVE Balance(r)'
  <2>1. CASE Goto(r, "subscribe.create") /\ UNCHANGED owed
    BY <1>1, <2>1, NoDebt DEF SubscribeCancel, Goto, money, Debts
  <2>2. CASE Goto(r, "subscribe.finalize") /\ Owe(arg[r].customer)
    BY <1>1, <2>2, AmountAssumption DEF SubscribeCancel, Goto, Owe, Balance, Due
  <2>3. QED
    BY <1>1, <2>1, <2>2 DEF SubscribeCancel
<1>2. ASSUME SubscribeFinalize(r) PROVE Balance(r)'
  BY <1>2, AmountAssumption DEF SubscribeFinalize, Goto, Credit, Balance, Due
<1>3. ASSUME CancelStripe(r) PROVE Balance(r)'
  <2>1. CASE Goto(r, "cancel.invoice") /\ Owe(arg[r].customer) /\ UNCHANGED arg
    BY <1>3, <2>1, AmountAssumption DEF CancelStripe, Goto, Owe, Balance, Due
  <2>2. CASE pc'[r] \in {"idle", "cancel.save"} /\ UNCHANGED owed
    BY <1>3, <2>2, NoDebt DEF CancelStripe, money, Debts
  <2>3. QED
    BY <1>3, <2>1, <2>2 DEF CancelStripe, Goto, Finish
<1>4. ASSUME CancelInvoice(r) PROVE Balance(r)'
  <2>1. PICK amount \in Nat :
            /\ refund' = [refund EXCEPT ![arg[r].customer] = @ + amount]
            /\ arg' = [arg EXCEPT ![r].amount = amount]
    BY <1>4, AmountAssumption DEF CancelInvoice
  <2>2. /\ pc[r] = "cancel.invoice" /\ pc'[r] = "cancel.finalize"
        /\ arg'[r].customer = arg[r].customer /\ arg'[r].amount = amount
        /\ UNCHANGED <<credit, owed>>
    BY <1>4, <2>1 DEF CancelInvoice, Goto, Arg
  <2>3. Due(r) = Prorated /\ Due(r)' = Prorated - amount
    BY <2>2 DEF Due
  <2>4. QED
    BY <2>1, <2>2, <2>3, AmountAssumption DEF Balance
<1>5. ASSUME CancelFinalize(r) PROVE Balance(r)'
  <2>1. /\ pc[r] = "cancel.finalize" /\ arg' = arg /\ UNCHANGED <<refund, owed>>
        /\ pc'[r] = IF arg[r].amount = 0 THEN "cancel.save" ELSE "cancel.retrieve"
        /\ credit' = [credit EXCEPT ![arg[r].customer] = @ + Prorated]
    BY <1>5 DEF CancelFinalize, Goto, Credit
  <2>2. Due(r) = Prorated - arg[r].amount /\ Due(r)' = 0 - arg[r].amount
    BY <2>1, ArgFields DEF Due
  <2>3. QED
    BY <2>1, <2>2, AmountAssumption, ArgFields DEF Balance
<1>6. ASSUME CancelRetrieve(r) PROVE Balance(r)'
  <2>1. /\ pc[r] = "cancel.retrieve" /\ pc'[r] = "cancel.balance" /\ UNCHANGED money
        /\ arg'[r].customer = arg[r].customer /\ arg'[r].amount = arg[r].amount
        /\ arg'[r].credit = credit[arg[r].customer]
    BY <1>6 DEF CancelRetrieve, Goto, Arg
  <2>2. Due(r)' = Due(r)
    BY <2>1 DEF Due
  <2>3. QED
    BY <2>1, <2>2 DEF Balance, money
<1>7. ASSUME CancelBalance(r) PROVE Balance(r)'
  <2>1. /\ pc[r] = "cancel.balance" /\ pc'[r] = "cancel.save" /\ arg' = arg
        /\ UNCHANGED <<refund, owed>>
        /\ credit' = [credit EXCEPT ![arg[r].customer] = arg[r].credit - arg[r].amount]
    BY <1>7 DEF CancelBalance, Goto
  <2>2. Due(r) = 0 - arg[r].amount /\ Due(r)' = 0
    BY <2>1 DEF Due
  <2>3. QED
    BY <2>1, <2>2, ArgFields DEF Balance
<1>8. ASSUME SubscribeList(r) \/ SubscribeCreate(r) \/ SubscribeSave(r) \/ CancelSave(r)
      PROVE  Balance(r)'
  BY <1>8, NoDebt DEF SubscribeList, SubscribeCreate, SubscribeSave, CancelSave, Goto, Finish, Debts
<1>9. ASSUME \/ PriceList(r) \/ PriceCancel(r) \/ PriceUpdate(r) \/ PriceCreate(r)
             \/ PriceCheck(r) \/ PriceAdd(r) \/ PriceStore(r) \/ PriceSave(r)
      PROVE  Balance(r)'
  BY <1>9, NoDebt DEF PriceList, PriceCancel, PriceUpdate, PriceCreate, PriceCheck, PriceAdd,
                      PriceStore, PriceSave, Goto, Finish, Debts
<1>10. ASSUME ConfirmDel(r) \/ ConfirmRemove(r) \/ ConfirmCreate(r) PROVE Balance(r)'
  BY <1>10, NoDebt DEF ConfirmDel, ConfirmRemove, ConfirmCreate, Goto, Finish, Debts
<1>11. ASSUME Arrive(r) PROVE Balance(r)'
  BY <1>11, NoDebt DEF Arrive, SubscribeRead, CancelRead, PriceRead, ConfirmRead, Begin, Debts
<1>12. QED
  BY <1>1, <1>2, <1>3, <1>4, <1>5, <1>6, <1>7, <1>8, <1>9, <1>10, <1>11 DEF Continue

LEMMA MoneyStep == IInv /\ [Next]_vars => MoneyBalances'
<1> SUFFICES ASSUME IInv, [Next]_vars, alone' PROVE MoneyBalances'
  BY DEF MoneyBalances
<1>1. Started /\ TypeOK /\ HandlersKnow /\ Solitude /\ MoneyBalances /\ TypeOK' /\ Solitude'
  BY TypeStep, SolitudeStep DEF IInv, Started
<1>2. alone /\ (Step \/ UNCHANGED vars)
  BY AloneBefore
<1>3. CASE UNCHANGED <<money, pc, arg>>
  BY <1>1, <1>2, <1>3 DEF MoneyBalances, money, Due
<1>4. ASSUME NEW r \in Requests, Arrive(r) \/ Continue(r) PROVE MoneyBalances'
  <2>1. \A q \in Requests \ {r} : pc[q] = "idle" /\ pc'[q] = "idle"
    BY <1>1, <1>2, <1>4, Steppers, OnlyHandler
  <2>2. Balance(r)
    BY <1>1, <1>2, <2>1, BalanceOfOne
  <2>3. Balance(r)'
    BY <1>1, <1>4, <2>2, BalanceStep
  <2>4. QED
    BY <1>1, <2>1, <2>3, OneBalances
<1>5. ASSUME NEW j \in Jobs, JobRead(j) \/ JobSave(j) PROVE MoneyBalances'
  BY <1>3, <1>5 DEF JobRead, JobSave
<1>6. ASSUME NEW s \in Ids, PeriodEnds(s) PROVE MoneyBalances'
  BY <1>3, <1>6 DEF PeriodEnds
<1>7. QED
  BY <1>2, <1>3, <1>4, <1>5, <1>6 DEF Step, vars

-----------------------------------------------------------------------------
(* Trials: counted by subscriptions, and given to who has none.            *)
LEMMA CountStep ==
    ASSUME Started, [Next]_vars, \A c \in Customers : trials[c] > 0 => ~NoSubOf(c)
    PROVE  \A c \in Customers : trials'[c] > 0 => ~NoSubOf(c)'
<1>0. Lasting
  BY Lasts
<1>1. \A c \in Customers : ~NoSubOf(c) => ~NoSubOf(c)'
  BY <1>0 DEF Lasting, NoSubOf
<1>2. CASE UNCHANGED trials
  BY <1>1, <1>2
<1>3. ASSUME NEW r \in Requests, SubscribeCreate(r), ~UNCHANGED trials
      PROVE  \A c \in Customers : trials'[c] > 0 => ~NoSubOf(c)'
  <2>1. arg[r].customer \in Customers
    BY <1>3 DEF SubscribeCreate, Started, HandlersKnow, Knows, At, ToSubscribe
  <2>2. /\ CreateSub(arg[r].customer, arg[r].type, arg[r].price)
        /\ trials' = [trials EXCEPT ![arg[r].customer] = IF arg[r].trial THEN @ + 1 ELSE @]
    BY <1>3 DEF SubscribeCreate
  <2> TypeOK
    BY DEF Started
  <2>3. ASSUME NEW c \in Customers, c = arg[r].customer PROVE ~NoSubOf(c)'
    <3>1. PICK s \in Ids : sub' = [sub EXCEPT ![s] = [state |-> "active", customer |-> c,
                                        type |-> arg[r].type, price |-> arg[r].price]]
      BY <2>2, <2>3 DEF CreateSub
    <3>2. sub'[s].state = "active" /\ sub'[s].customer = c
      BY <3>1 DEF TypeOK
    <3>3. QED
      BY <3>2 DEF NoSubOf
  <2>4. \A c \in Customers \ {arg[r].customer} : trials'[c] = trials[c]
    BY <2>2 DEF TypeOK
  <2>5. QED
    BY <1>1, <2>3, <2>4
<1>4. ASSUME NEW r \in Requests, Arrive(r) PROVE UNCHANGED trials
  BY <1>4 DEF Arrive, SubscribeRead, CancelRead, PriceRead, ConfirmRead, stripe
<1>5. ASSUME NEW r \in Requests, Continue(r), ~SubscribeCreate(r) PROVE UNCHANGED trials
  BY <1>5 DEF Continue, stripe, SubscribeList, SubscribeCancel, SubscribeFinalize, SubscribeSave,
              CancelStripe, CancelInvoice, CancelFinalize, CancelRetrieve, CancelBalance,
              CancelSave, PriceList, PriceCancel, PriceUpdate, PriceCreate, PriceCheck, PriceAdd,
              PriceStore, PriceSave, ConfirmDel, ConfirmRemove, ConfirmCreate
<1>6. ASSUME NEW j \in Jobs, JobRead(j) \/ JobSave(j) \/ JobFail(j) PROVE UNCHANGED trials
  BY <1>6 DEF JobRead, JobSave, JobFail, stripe
<1>7. ASSUME NEW s \in Ids, PeriodEnds(s) PROVE UNCHANGED trials
  BY <1>7 DEF PeriodEnds
<1>8. ASSUME NEW r \in Requests, Abort(r) \/ SettleFails(r) PROVE UNCHANGED trials
  BY <1>8 DEF Abort, SettleFails, stripe
<1>9. QED
  BY <1>2, <1>3, <1>4, <1>5, <1>6, <1>7, <1>8 DEF Next, Step, Fault, vars, stripe

Trial(r) ==
    /\ At(r, {"subscribe.list", "subscribe.cancel", "subscribe.finalize"}) => ~arg[r].trial
    /\ At(r, {"subscribe.create"}) /\ arg[r].trial => NoSubOf(arg[r].customer)

LEMMA NoTrial ==
    ASSUME NEW r \in Requests,
           pc'[r] \notin {"subscribe.list", "subscribe.cancel", "subscribe.finalize", "subscribe.create"}
    PROVE  Trial(r)'
  BY DEF Trial, At

LEMMA TrialStep ==
    ASSUME TypeOK, NEW r \in Requests, Trial(r), Arrive(r) \/ Continue(r)
    PROVE  Trial(r)'
<1> USE DEF TypeOK, Goto, Finish, Begin
<1> arg[r] \in Arg
  OBVIOUS
<1>1. ASSUME NEW c \in Customers, NEW t \in Types, SubscribeRead(r, c, t) PROVE Trial(r)'
  BY <1>1 DEF SubscribeRead, Trial, At, NoArg
<1>2. ASSUME Arrive(r), \A c \in Customers, t \in Types : ~SubscribeRead(r, c, t) PROVE Trial(r)'
  BY <1>2, NoTrial DEF Arrive, CancelRead, PriceRead, ConfirmRead
<1>3. ASSUME SubscribeList(r) PROVE Trial(r)'
  <2>1. CASE pc'[r] \in {"subscribe.cancel", "idle"}
    BY <1>3, <2>1 DEF SubscribeList, Trial, At
  <2>2. CASE /\ LiveOf(arg[r].customer) = {} /\ pc'[r] = "subscribe.create"
             /\ arg' = [arg EXCEPT ![r].trial = ~HasCanceled(arg[r].customer)]
    <3>1. HasCanceled(arg[r].customer) \in BOOLEAN
      BY DEF HasCanceled
    <3>2. arg'[r].customer = arg[r].customer /\ arg'[r].trial = ~HasCanceled(arg[r].customer)
      BY <2>2, <3>1 DEF Arg
    <3>3. sub' = sub
      BY <1>3 DEF SubscribeList, stripe
    <3>4. \A s \in Ids : sub[s].state \in {"active", "canceling", "none", "ended"}
      BY DEF Sub, Live
    <3>5. ~HasCanceled(arg[r].customer) => NoSubOf(arg[r].customer)
      BY <2>2, <3>4 DEF LiveOf, HasCanceled, NoSubOf, Live
    <3>6. QED
      BY <2>2, <3>2, <3>3, <3>5 DEF Trial, At, NoSubOf
  <2>3. QED
    BY <1>3, <2>1, <2>2 DEF SubscribeList
<1>4. ASSUME SubscribeCancel(r) \/ SubscribeFinalize(r) PROVE Trial(r)'
  BY <1>4 DEF SubscribeCancel, SubscribeFinalize, Trial, At
<1>5. ASSUME Continue(r), ~SubscribeList(r), ~SubscribeCancel(r), ~SubscribeFinalize(r)
      PROVE  Trial(r)'
  <2>1. CASE SubscribeCreate(r) \/ SubscribeSave(r)
    BY <2>1, NoTrial DEF SubscribeCreate, SubscribeSave
  <2>2. CASE CancelStripe(r) \/ CancelInvoice(r) \/ CancelFinalize(r) \/ CancelRetrieve(r)
             \/ CancelBalance(r) \/ CancelSave(r)
    BY <2>2, NoTrial DEF CancelStripe, CancelInvoice, CancelFinalize, CancelRetrieve,
                         CancelBalance, CancelSave
  <2>3. CASE PriceList(r) \/ PriceCancel(r) \/ PriceUpdate(r) \/ PriceCreate(r)
             \/ PriceCheck(r) \/ PriceAdd(r) \/ PriceStore(r) \/ PriceSave(r)
    BY <2>3, NoTrial DEF PriceList, PriceCancel, PriceUpdate, PriceCreate, PriceCheck, PriceAdd,
                         PriceStore, PriceSave
  <2>4. CASE ConfirmDel(r) \/ ConfirmRemove(r) \/ ConfirmCreate(r)
    BY <2>4, NoTrial DEF ConfirmDel, ConfirmRemove, ConfirmCreate
  <2>5. QED
    BY <1>5, <2>1, <2>2, <2>3, <2>4 DEF Continue
<1>6. QED
  BY <1>1, <1>2, <1>3, <1>4, <1>5

LEMMA TrialsStep == IInv /\ [Next]_vars => TrialsCounted'
<1> SUFFICES ASSUME IInv, [Next]_vars PROVE TrialsCounted'
  OBVIOUS
<1>1. /\ Started /\ TypeOK /\ HandlersKnow /\ Solitude /\ TrialsCounted
      /\ TypeOK' /\ Solitude' /\ Lasting
  BY TypeStep, SolitudeStep, Lasts DEF IInv, Started
<1>2. \A c \in Customers : trials'[c] > 0 => ~NoSubOf(c)'
  BY <1>1, CountStep DEF TrialsCounted
<1>3. ASSUME alone' PROVE \A r \in Requests : Trial(r)'
  <2>1. alone /\ (Step \/ UNCHANGED vars)
    BY <1>3, AloneBefore
  <2>2. \A r \in Requests : Trial(r)
    BY <1>1, <2>1 DEF TrialsCounted, Trial
  <2>3. CASE UNCHANGED <<pc, arg, sub>>
    BY <2>2, <2>3 DEF Trial, At, NoSubOf
  <2>4. ASSUME NEW r \in Requests, Arrive(r) \/ Continue(r) PROVE \A q \in Requests : Trial(q)'
    <3>1. \A q \in Requests \ {r} : pc'[q] = "idle"
      BY <1>1, <1>3, <2>1, <2>4, Steppers, OnlyHandler
    <3>2. Trial(r)'
      BY <1>1, <2>2, <2>4, TrialStep
    <3>3. QED
      BY <3>1, <3>2, NoTrial
  <2>5. ASSUME NEW j \in Jobs, JobRead(j) \/ JobSave(j) PROVE \A r \in Requests : Trial(r)'
    BY <2>3, <2>5 DEF JobRead, JobSave, stripe
  <2>6. ASSUME NEW s \in Ids, PeriodEnds(s) PROVE \A r \in Requests : Trial(r)'
    <3>1. \A i \in Ids : sub'[i].state # "none" =>
             sub[i].state # "none" /\ sub'[i].customer = sub[i].customer
      BY <1>1, <2>6 DEF PeriodEnds, SetSub, TypeOK, Sub
    <3>2. UNCHANGED <<pc, arg>>
      BY <2>6 DEF PeriodEnds
    <3>3. QED
      BY <2>2, <3>1, <3>2 DEF Trial, At, NoSubOf
  <2>7. QED
    BY <2>1, <2>3, <2>4, <2>5, <2>6 DEF Step, vars, stripe
<1>4. ASSUME alone' PROVE \A c \in Customers : trials'[c] <= 1
  <2>1. alone /\ (Step \/ UNCHANGED vars)
    BY <1>4, AloneBefore
  <2>2. \A c \in Customers : trials[c] <= 1
    BY <1>1, <2>1 DEF TrialsCounted, TrialOnce
  <2>3. CASE UNCHANGED trials
    BY <2>2, <2>3
  <2>4. ASSUME NEW r \in Requests, SubscribeCreate(r) PROVE \A c \in Customers : trials'[c] <= 1
    <3>1. arg[r].customer \in Customers /\ pc[r] = "subscribe.create"
      BY <1>1, <2>4 DEF SubscribeCreate, HandlersKnow, Knows, At, ToSubscribe
    <3>2. arg[r].trial => NoSubOf(arg[r].customer)
      BY <1>1, <2>1, <3>1 DEF TrialsCounted, At
    <3>3. arg[r].trial => trials[arg[r].customer] = 0
      BY <1>1, <3>1, <3>2 DEF TrialsCounted, TypeOK
    <3>4. \/ UNCHANGED trials
          \/ trials' = [trials EXCEPT ![arg[r].customer] = IF arg[r].trial THEN @ + 1 ELSE @]
      BY <2>4 DEF SubscribeCreate
    <3>5. QED
      BY <1>1, <2>2, <3>1, <3>3, <3>4 DEF TypeOK
  <2>5. ASSUME NEW r \in Requests, Arrive(r) PROVE UNCHANGED trials
    BY <2>5 DEF Arrive, SubscribeRead, CancelRead, PriceRead, ConfirmRead, stripe
  <2>6. ASSUME NEW r \in Requests, Continue(r), ~SubscribeCreate(r) PROVE UNCHANGED trials
    BY <2>6 DEF Continue, stripe, SubscribeList, SubscribeCancel, SubscribeFinalize, SubscribeSave,
                CancelStripe, CancelInvoice, CancelFinalize, CancelRetrieve, CancelBalance,
                CancelSave, PriceList, PriceCancel, PriceUpdate, PriceCreate, PriceCheck, PriceAdd,
                PriceStore, PriceSave, ConfirmDel, ConfirmRemove, ConfirmCreate
  <2>7. ASSUME NEW j \in Jobs, JobRead(j) \/ JobSave(j) PROVE UNCHANGED trials
    BY <2>7 DEF JobRead, JobSave, stripe
  <2>8. ASSUME NEW s \in Ids, PeriodEnds(s) PROVE UNCHANGED trials
    BY <2>8 DEF PeriodEnds
  <2>9. QED
    BY <2>1, <2>3, <2>4, <2>5, <2>6, <2>7, <2>8 DEF Step, vars, stripe
<1>5. QED
  BY <1>2, <1>3, <1>4 DEF TrialsCounted, TrialOnce, Trial

-----------------------------------------------------------------------------
(* Jobs: each is its customer's entry, or known to the lone handler.       *)
Entering == {"price.add", "price.store", "confirm.del", "confirm.remove"}

Entered(r) ==
    /\ \A j \in Jobs : job[j].state \in {"waiting", "active"} =>
          \/ entry[job[j].customer] = j
          \/ At(r, {"price.store", "confirm.remove"}) /\ arg[r].job = j
    /\ At(r, ToAdd) => entry[arg[r].customer] = None
    /\ At(r, {"price.store"}) => job[arg[r].job].customer = arg[r].customer
    /\ At(r, {"confirm.del"}) => entry[arg[r].customer] = arg[r].job

LEMMA EnteredElsewhere ==
    ASSUME NEW r \in Requests, Entered(r), UNCHANGED queue,
           pc[r] \notin Entering, pc'[r] \notin Entering
    PROVE  Entered(r)'
<1> entry' = entry /\ job' = job
  BY DEF queue
<1> QED
  BY DEF Entered, At, ToAdd, Entering

LEMMA EnteredStep ==
    ASSUME TypeOK, HandlersKnow, JobsAreOwned, NEW r \in Requests, Entered(r),
           pc[r] # "idle" => Working = {}, Arrive(r) \/ Continue(r)
    PROVE  Entered(r)'
<1> USE DEF TypeOK, Goto, Finish, Begin
<1> arg[r] \in Arg
  OBVIOUS
<1>1. ASSUME NEW c \in Customers, ConfirmRead(r, c) PROVE Entered(r)'
  <2>1. /\ pc'[r] = "confirm.del" /\ arg'[r].customer = c /\ arg'[r].job = entry[c]
        /\ pc[r] = "idle" /\ entry' = entry /\ job' = job
    BY <1>1 DEF ConfirmRead, NoArg, queue
  <2>2. QED
    BY <2>1 DEF Entered, At, ToAdd
<1>2. ASSUME Arrive(r), \A c \in Customers : ~ConfirmRead(r, c) PROVE Entered(r)'
  BY <1>2, EnteredElsewhere DEF Arrive, SubscribeRead, CancelRead, PriceRead, Entering
<1>3. ASSUME ConfirmDel(r) PROVE Entered(r)'
  <2>1. /\ pc[r] = "confirm.del" /\ pc'[r] = "confirm.remove" /\ arg' = arg /\ job' = job
        /\ entry' = [entry EXCEPT ![arg[r].customer] = None]
    BY <1>3 DEF ConfirmDel
  <2>2. \A j \in Jobs : job[j].state \in {"waiting", "active"} => job[j].customer \in Customers
    BY DEF JobsAreOwned
  <2>3. QED
    BY <2>1, <2>2 DEF Entered, At, ToAdd
<1>4. ASSUME ConfirmRemove(r) PROVE Entered(r)'
  <2>1. pc[r] = "confirm.remove" /\ entry' = entry /\ arg[r].job \in Jobs
    BY <1>4 DEF ConfirmRemove, HandlersKnow, Knows, At
  <2>2. job[arg[r].job].state # "active"
    BY <2>1 DEF Working
  <2>3. pc'[r] = "confirm.create"
    BY <1>4, <2>1, <2>2 DEF ConfirmRemove
  <2>4. \/ job[arg[r].job].state # "waiting" /\ job' = job
        \/ job' = [job EXCEPT ![arg[r].job].state = "removed"]
    BY <1>4, <2>2 DEF ConfirmRemove
  <2>5. job'[arg[r].job].state \notin {"waiting", "active"}
    BY <2>1, <2>2, <2>4 DEF Job
  <2>6. \A j \in Jobs \ {arg[r].job} : job'[j] = job[j]
    BY <2>4
  <2>7. QED
    BY <2>1, <2>3, <2>5, <2>6 DEF Entered, At, ToAdd
<1>5. ASSUME PriceCheck(r) PROVE Entered(r)'
  <2>1. pc[r] = "price.check" /\ entry' = entry /\ job' = job
    BY <1>5 DEF PriceCheck, queue
  <2>2. CASE pc' = pc
    BY <2>1, <2>2, EnteredElsewhere DEF queue, Entering
  <2>3. ASSUME NEW c \in arg[r].affected, entry[c] = None, pc'[r] = "price.add",
               arg' = [arg EXCEPT ![r].customer = c]
        PROVE  Entered(r)'
    <3>1. arg'[r].customer = c
      BY <2>3 DEF Arg
    <3>2. QED
      BY <2>1, <2>3, <3>1 DEF Entered, At, ToAdd
  <2>4. QED
    BY <1>5, <2>1, <2>2, <2>3 DEF PriceCheck
<1>6. ASSUME PriceAdd(r) PROVE Entered(r)'
  <2>1. PICK j \in Jobs :
            /\ job' = [job EXCEPT ![j] = [state |-> "waiting", customer |-> arg[r].customer,
                                          type |-> arg[r].type, seen |-> "free"]]
            /\ arg' = [arg EXCEPT ![r].job = j]
    BY <1>6 DEF PriceAdd
  <2>2. pc[r] = "price.add" /\ pc'[r] = "price.store" /\ entry' = entry
    BY <1>6 DEF PriceAdd
  <2>3. arg'[r].job = j /\ arg'[r].customer = arg[r].customer
    BY <2>1 DEF Arg
  <2>4. job'[j].customer = arg[r].customer /\ \A i \in Jobs \ {j} : job'[i] = job[i]
    BY <2>1
  <2>5. QED
    BY <2>2, <2>3, <2>4 DEF Entered, At, ToAdd
<1>7. ASSUME PriceStore(r) PROVE Entered(r)'
  <2>1. /\ pc[r] = "price.store" /\ pc'[r] = "price.check" /\ job' = job
        /\ entry' = [entry EXCEPT ![arg[r].customer] = arg[r].job]
    BY <1>7 DEF PriceStore
  <2>2. \A j \in Jobs : job[j].state \in {"waiting", "active"} => job[j].customer \in Customers
    BY DEF JobsAreOwned
  <2>3. entry[arg[r].customer] = None /\ job[arg[r].job].customer = arg[r].customer
    BY <2>1 DEF Entered, At, ToAdd
  <2>4. QED
    BY <2>1, <2>2, <2>3, NoneAssumption DEF Entered, At, ToAdd
<1>8. ASSUME \/ SubscribeList(r) \/ SubscribeCancel(r) \/ SubscribeFinalize(r)
             \/ SubscribeCreate(r) \/ SubscribeSave(r)
      PROVE  Entered(r)'
  BY <1>8, EnteredElsewhere DEF SubscribeList, SubscribeCancel, SubscribeFinalize, SubscribeCreate,
                                SubscribeSave, Entering, queue
<1>9. ASSUME \/ CancelStripe(r) \/ CancelInvoice(r) \/ CancelFinalize(r) \/ CancelRetrieve(r)
             \/ CancelBalance(r) \/ CancelSave(r)
      PROVE  Entered(r)'
  BY <1>9, EnteredElsewhere DEF CancelStripe, CancelInvoice, CancelFinalize, CancelRetrieve,
                                CancelBalance, CancelSave, Entering, queue
<1>10. ASSUME \/ PriceList(r) \/ PriceCancel(r) \/ PriceUpdate(r) \/ PriceCreate(r)
              \/ PriceSave(r) \/ ConfirmCreate(r)
       PROVE  Entered(r)'
  BY <1>10, EnteredElsewhere DEF PriceList, PriceCancel, PriceUpdate, PriceCreate, PriceSave,
                                 ConfirmCreate, Entering, queue
<1>11. QED
  BY <1>1, <1>2, <1>3, <1>4, <1>5, <1>6, <1>7, <1>8, <1>9, <1>10 DEF Continue

LEMMA EnteredJobsStep == IInv /\ [Next]_vars => JobsAreEntered'
<1> SUFFICES ASSUME IInv, [Next]_vars, alone' PROVE JobsAreEntered'
  BY DEF JobsAreEntered
<1>1. /\ Started /\ TypeOK /\ HandlersKnow /\ JobsAreOwned /\ Solitude /\ JobsAreEntered
      /\ TypeOK' /\ Solitude'
  BY TypeStep, SolitudeStep DEF IInv, Started
<1>2. alone /\ (Step \/ UNCHANGED vars)
  BY AloneBefore
<1>3. ASSUME UNCHANGED <<entry, pc, arg>>,
             \A j \in Jobs : /\ job'[j].customer = job[j].customer
                             /\ job'[j].state \in {"waiting", "active"} =>
                                   job[j].state \in {"waiting", "active"}
      PROVE  JobsAreEntered'
  <2>1. \A r \in Requests : At(r, {"price.store"}) => arg[r].job \in Jobs
    BY <1>1 DEF HandlersKnow, Knows, At
  <2>2. QED
    BY <1>1, <1>2, <1>3, <2>1 DEF JobsAreEntered, At, ToAdd
<1>4. ASSUME NEW r \in Requests, Arrive(r) \/ Continue(r) PROVE JobsAreEntered'
  <2>1. \A q \in Requests \ {r} : pc[q] = "idle" /\ pc'[q] = "idle"
    BY <1>1, <1>2, <1>4, Steppers, OnlyHandler
  <2>2. Entered(r)
    BY <1>1, <1>2, <2>1 DEF JobsAreEntered, Entered, At
  <2>3. pc[r] # "idle" => Working = {}
    BY <1>1, <1>2 DEF Solitude, Busy
  <2>4. Entered(r)'
    BY <1>1, <1>4, <2>2, <2>3, EnteredStep
  <2>5. QED
    BY <2>1, <2>4 DEF JobsAreEntered, Entered, At, ToAdd
<1>5. ASSUME NEW j \in Jobs, JobRead(j) \/ JobSave(j) PROVE JobsAreEntered'
  <2>1. /\ UNCHANGED <<entry, pc, arg>> /\ job[j].state \in {"waiting", "active"}
        /\ \E state, seen : job' = [job EXCEPT ![j].state = state, ![j].seen = seen]
    BY <1>5 DEF JobRead, JobSave
  <2>2. \A i \in Jobs : /\ job'[i].customer = job[i].customer
                        /\ i # j => job'[i] = job[i]
    BY <1>1, <2>1 DEF TypeOK, Job
  <2>3. QED
    BY <1>3, <2>1, <2>2
<1>6. ASSUME NEW s \in Ids, PeriodEnds(s) PROVE JobsAreEntered'
  BY <1>3, <1>6 DEF PeriodEnds, queue
<1>7. QED
  BY <1>2, <1>3, <1>4, <1>5, <1>6 DEF Step, vars, queue

-----------------------------------------------------------------------------
(* Prices: subscriptions have the document's, but for the type whose price *)
(* the lone handler is replacing.                                          *)
Holding   == ToSubscribe \cup ToConfirm \cup {"price.list"}
Replacers == {"price.cancel"} \cup ToReplace

Priced(r) ==
    /\ At(r, Holding) => arg[r].price = price[arg[r].type]
    /\ \A s \in Ids : sub[s].state = "active" =>
          IF At(r, Replacers) /\ arg[r].type = sub[s].type
             THEN /\ At(r, {"price.cancel"}) => s \in arg[r].subs \/ PageAhead(s)
                  /\ At(r, ToReplace) => sub[s].price = arg[r].price \/ PageAhead(s)
             ELSE sub[s].price = price[sub[s].type] \/ PageAhead(s)

Kept == \A s \in Ids : sub[s].state # "none" =>
    sub'[s].state # "none" /\ sub'[s].type = sub[s].type /\ sub'[s].price = sub[s].price

(* A page that is ahead of a subscription stays ahead of it.               *)
StillAhead == \A s \in Ids : sub[s].state # "none" /\ PageAhead(s) => PageAhead(s)'

NoneNew == /\ \A s \in Ids : sub'[s].state = "active" =>
                  /\ sub[s].state = "active"
                  /\ sub'[s].type = sub[s].type /\ sub'[s].price = sub[s].price
           /\ StillAhead

LEMMA KeptAhead == Kept => StillAhead
<1> SUFFICES ASSUME Kept, NEW s \in Ids, sub[s].state # "none", PageAhead(s) PROVE PageAhead(s)'
  BY DEF StillAhead
<1> DEFINE ahead == {o \in Ids : /\ o > s /\ sub[o].state # "none"
                                 /\ sub[o].type = sub[s].type /\ sub[o].price = sub[s].price}
<1>1. ahead \subseteq ahead'
  BY DEF Kept
<1>2. IsFiniteSet(Ids)
  BY BoundAssumption, FS_Interval DEF Ids
<1>3. IsFiniteSet(ahead')
  BY <1>2, FS_Subset
<1>4. Cardinality(ahead) <= Cardinality(ahead')
  <2> HIDE DEF ahead
  <2>1. IsFiniteSet(ahead)
    BY <1>1, <1>3, FS_Subset
  <2>2. QED
    BY <1>1, <1>3, <2>1, FS_Subset
<1>5. Cardinality(ahead) \in Nat /\ Cardinality(ahead') \in Nat
  BY <1>1, <1>3, FS_Subset, FS_CardinalityType
<1>6. Cardinality(ahead) >= Page
  BY DEF PageAhead
<1>7. Cardinality(ahead') >= Page
  <2> HIDE DEF ahead
  <2> QED BY <1>4, <1>5, <1>6, PageAssumption
<1>8. QED
  BY <1>7 DEF PageAhead

LEMMA SameSubs == UNCHANGED sub => NoneNew
<1> SUFFICES ASSUME UNCHANGED sub PROVE NoneNew
  OBVIOUS
<1>1. Kept
  BY DEF Kept
<1>2. QED
  BY <1>1, KeptAhead DEF NoneNew

LEMMA SetSubNoneNew ==
    ASSUME TypeOK, NEW i, NEW state \in {"canceling", "ended"}, SetSub(i, state)
    PROVE  NoneNew
<1>1. Kept
  BY DEF TypeOK, SetSub, Kept, Sub
<1>2. QED
  BY <1>1, KeptAhead DEF TypeOK, SetSub, NoneNew, Sub

LEMMA CreateSubNew ==
    ASSUME TypeOK, NEW c, NEW t, NEW p, CreateSub(c, t, p)
    PROVE  /\ \A s \in Ids : sub'[s].state = "active" =>
                 \/ /\ sub[s].state = "active"
                    /\ sub'[s].type = sub[s].type /\ sub'[s].price = sub[s].price
                 \/ sub'[s].type = t /\ sub'[s].price = p
           /\ StillAhead
<1>1. Kept
  BY DEF TypeOK, CreateSub, Kept
<1>2. QED
  BY <1>1, KeptAhead DEF TypeOK, CreateSub

LEMMA PricedElsewhere ==
    ASSUME NEW r \in Requests, Priced(r), NoneNew, UNCHANGED price,
           pc[r] \notin Replacers, pc'[r] \notin Replacers,
           pc'[r] \in Holding => arg'[r].price = price[arg'[r].type]
    PROVE  Priced(r)'
  BY DEF Priced, NoneNew, StillAhead, At

LEMMA PricedByCreation ==
    ASSUME TypeOK, NEW r \in Requests, Priced(r), UNCHANGED price, pc[r] \in Holding,
           NEW c, CreateSub(c, arg[r].type, arg[r].price) \/ UNCHANGED sub,
           \/ pc'[r] = "idle"
           \/ pc'[r] \in Holding /\ arg' = arg
    PROVE  Priced(r)'
<1>1. pc[r] \notin Replacers /\ pc'[r] \notin Replacers
  BY DEF Holding, Replacers, ToSubscribe, ToConfirm, ToReplace, ToAdd
<1>2. CASE UNCHANGED sub
  BY <1>1, <1>2, PricedElsewhere, SameSubs DEF Priced, At, Holding, ToSubscribe, ToConfirm
<1>3. CASE CreateSub(c, arg[r].type, arg[r].price)
  <2>1. arg[r].price = price[arg[r].type]
    BY DEF Priced, At
  <2>2. "idle" \notin Holding
    BY DEF Holding, ToSubscribe, ToConfirm
  <2>3. QED
    BY <1>1, <1>3, <2>1, <2>2, CreateSubNew DEF Priced, StillAhead, At
<1>4. QED
  BY <1>2, <1>3

LEMMA PricedReplacement ==
    ASSUME NEW r \in Requests, Priced(r), NoneNew, UNCHANGED price,
           pc[r] \in ToReplace, pc'[r] \in ToReplace,
           arg'[r].type = arg[r].type, arg'[r].price = arg[r].price
    PROVE  Priced(r)'
<1>1. /\ pc[r] \in Replacers /\ pc[r] # "price.cancel"
      /\ pc'[r] \in Replacers /\ pc'[r] # "price.cancel" /\ pc'[r] \notin Holding
  BY DEF Replacers, Holding, ToReplace, ToAdd, ToSubscribe, ToConfirm
<1>2. QED
  BY <1>1 DEF Priced, NoneNew, StillAhead, At

LEMMA PricedStep ==
    ASSUME TypeOK, HandlersKnow, NEW r \in Requests, Priced(r), Arrive(r) \/ Continue(r)
    PROVE  Priced(r)'
<1> USE DEF TypeOK, Goto, Finish, Begin
<1> arg[r] \in Arg
  OBVIOUS
<1>0. UNCHANGED sub => NoneNew
  BY SameSubs
<1>1. ASSUME Arrive(r) PROVE Priced(r)'
  <2>1. pc[r] = "idle" /\ UNCHANGED <<sub, price>>
    BY <1>1 DEF Arrive, SubscribeRead, CancelRead, PriceRead, ConfirmRead, stripe
  <2>2. pc'[r] \in {"subscribe.list", "cancel.stripe", "price.list", "confirm.del"}
    BY <1>1 DEF Arrive, SubscribeRead, CancelRead, PriceRead, ConfirmRead
  <2>3. pc'[r] # "cancel.stripe" => arg'[r].price = price[arg'[r].type]
    <3>1. ASSUME NEW c \in Customers, NEW t \in Types, SubscribeRead(r, c, t)
          PROVE  arg'[r].price = price[arg'[r].type]
      BY <3>1 DEF SubscribeRead, NoArg
    <3>2. ASSUME NEW c \in Customers, CancelRead(r, c) PROVE pc'[r] = "cancel.stripe"
      BY <3>2 DEF CancelRead
    <3>3. ASSUME NEW t \in Types, NEW cheaper, PriceRead(r, t, cheaper)
          PROVE  arg'[r].price = price[arg'[r].type]
      BY <3>3 DEF PriceRead, NoArg
    <3>4. ASSUME NEW c \in Customers, ConfirmRead(r, c)
          PROVE  arg'[r].price = price[arg'[r].type]
      BY <3>4 DEF ConfirmRead, NoArg
    <3>5. QED
      BY <1>1, <3>1, <3>2, <3>3, <3>4 DEF Arrive
  <2>4. pc[r] \notin Replacers /\ pc'[r] \notin Replacers /\ "cancel.stripe" \notin Holding
    BY <2>1, <2>2 DEF Replacers, ToReplace, ToAdd, Holding, ToSubscribe, ToConfirm
  <2>5. QED
    BY <1>0, <2>1, <2>3, <2>4, PricedElsewhere
<1>2. ASSUME SubscribeList(r) \/ SubscribeCancel(r) \/ SubscribeFinalize(r) \/ SubscribeSave(r)
      PROVE  Priced(r)'
  <2>1. pc[r] \in ToSubscribe /\ pc'[r] \in ToSubscribe \cup {"idle"} /\ UNCHANGED price
    BY <1>2 DEF SubscribeList, SubscribeCancel, SubscribeFinalize, SubscribeSave, ToSubscribe
  <2>2. NoneNew
    BY <1>0, <1>2, SetSubNoneNew DEF SubscribeList, SubscribeCancel, SubscribeFinalize,
                                     SubscribeSave, stripe
  <2>3. pc'[r] # "idle" => arg'[r].type = arg[r].type /\ arg'[r].price = arg[r].price
    <3>1. CASE SubscribeList(r)
      <4>1. \/ pc'[r] = "idle" \/ arg' = arg
            \/ \E b : arg' = [arg EXCEPT ![r].trial = b]
        BY <3>1 DEF SubscribeList
      <4>2. QED
        BY <4>1 DEF Arg
    <3>2. CASE ~SubscribeList(r)
      BY <1>2, <3>2 DEF SubscribeCancel, SubscribeFinalize, SubscribeSave
    <3>3. QED
      BY <3>1, <3>2
  <2>4. pc[r] \in Holding /\ pc[r] \notin Replacers /\ pc'[r] \notin Replacers /\ "idle" \notin Holding
    BY <2>1 DEF Replacers, ToReplace, ToAdd, Holding, ToSubscribe, ToConfirm
  <2>5. arg[r].price = price[arg[r].type]
    BY <2>4 DEF Priced, At
  <2>6. QED
    BY <2>1, <2>2, <2>3, <2>4, <2>5, PricedElsewhere
<1>3. ASSUME SubscribeCreate(r) PROVE Priced(r)'
  <2>1. /\ pc[r] \in Holding /\ UNCHANGED price
        /\ \/ pc'[r] = "idle"
           \/ pc'[r] \in Holding /\ arg' = arg
    BY <1>3 DEF SubscribeCreate, Holding, ToSubscribe
  <2>2. CreateSub(arg[r].customer, arg[r].type, arg[r].price) \/ UNCHANGED sub
    BY <1>3 DEF SubscribeCreate
  <2>3. QED
    BY <2>1, <2>2, PricedByCreation
<1>4. ASSUME ConfirmCreate(r) PROVE Priced(r)'
  <2>1. pc[r] \in Holding /\ UNCHANGED price /\ pc'[r] = "idle"
    BY <1>4 DEF ConfirmCreate, Holding, ToConfirm
  <2>2. CreateSub(arg[r].customer, arg[r].type, arg[r].price) \/ UNCHANGED sub
    BY <1>4 DEF ConfirmCreate
  <2>3. QED
    BY <2>1, <2>2, PricedByCreation
<1>5. ASSUME ConfirmDel(r) \/ ConfirmRemove(r) PROVE Priced(r)'
  <2>1. /\ pc[r] \in Holding /\ UNCHANGED <<price, sub>>
        /\ \/ pc'[r] = "idle"
           \/ pc'[r] \in Holding /\ arg' = arg
    BY <1>5 DEF ConfirmDel, ConfirmRemove, Holding, ToConfirm, stripe
  <2>2. QED
    BY <2>1, PricedByCreation
<1>6. ASSUME CancelStripe(r) \/ CancelInvoice(r) \/ CancelFinalize(r) \/ CancelRetrieve(r)
             \/ CancelBalance(r) \/ CancelSave(r)
      PROVE  Priced(r)'
  <2>1. pc[r] \in ToCancel /\ pc'[r] \in ToCancel \cup {"idle"} /\ UNCHANGED price
    BY <1>6 DEF CancelStripe, CancelInvoice, CancelFinalize, CancelRetrieve, CancelBalance,
                CancelSave, ToCancel
  <2>2. NoneNew
    BY <1>0, <1>6, SetSubNoneNew DEF CancelStripe, CancelInvoice, CancelFinalize, CancelRetrieve,
                                     CancelBalance, CancelSave, stripe
  <2>3. pc[r] \notin Replacers /\ pc'[r] \notin Replacers /\ pc'[r] \notin Holding
    BY <2>1 DEF Replacers, ToReplace, ToAdd, Holding, ToSubscribe, ToConfirm, ToCancel
  <2>4. QED
    BY <2>1, <2>2, <2>3, PricedElsewhere
<1>7. ASSUME PriceList(r) PROVE Priced(r)'
  <2> DEFINE listed == {s \in Ids : /\ sub[s].state \in Live
                                    /\ sub[s].type = arg[r].type /\ sub[s].price = arg[r].price}
             subs == {s \in listed : Cardinality({o \in listed : o > s}) < Page}
  <2>1. /\ pc[r] = "price.list" /\ pc'[r] = "price.cancel" /\ UNCHANGED <<price, sub>>
        /\ \E cs : arg' = [arg EXCEPT ![r].subs = subs, ![r].affected = cs]
    BY <1>7 DEF PriceList, stripe
  <2>2. arg'[r].subs = subs /\ arg'[r].type = arg[r].type
    <3> HIDE DEF subs
    <3> QED BY <2>1 DEF Arg
  <2>3. arg[r].price = price[arg[r].type]
    BY <2>1 DEF Priced, At, Holding
  <2>4. \A s \in Ids : sub[s].state = "active" =>
            sub[s].price = price[sub[s].type] \/ PageAhead(s)
    BY <2>1 DEF Priced, At, Replacers, ToReplace, ToAdd
  <2>5. ASSUME NEW s \in listed, s \notin subs PROVE PageAhead(s)
    <3> DEFINE newer == {o \in listed : o > s}
               ahead == {o \in Ids : /\ o > s /\ sub[o].state # "none"
                                     /\ sub[o].type = sub[s].type /\ sub[o].price = sub[s].price}
    <3>1. newer \subseteq ahead
      BY <2>5 DEF Live
    <3>2. IsFiniteSet(ahead)
      <4>1. IsFiniteSet(Ids)
        BY BoundAssumption, FS_Interval DEF Ids
      <4>2. QED
        BY <4>1, FS_Subset
    <3>3. ~(Cardinality(newer) < Page)
      BY <2>5
    <3>4. Cardinality(ahead) >= Page
      <4> HIDE DEF newer, ahead
      <4>1. /\ IsFiniteSet(newer) /\ Cardinality(newer) <= Cardinality(ahead)
            /\ Cardinality(newer) \in Nat /\ Cardinality(ahead) \in Nat
        BY <3>1, <3>2, FS_Subset, FS_CardinalityType
      <4>2. QED
        BY <3>3, <4>1, PageAssumption
    <3>5. QED
      BY <3>4 DEF PageAhead
  <2>6. \A s \in Ids : /\ sub'[s] = sub[s]
                       /\ PageAhead(s) => PageAhead(s)'
    BY <2>1 DEF PageAhead
  <2>7. ASSUME NEW s \in Ids, sub[s].state = "active", arg[r].type = sub[s].type
        PROVE  s \in subs \/ PageAhead(s)
    <3>1. CASE PageAhead(s)
      BY <3>1
    <3>2. CASE ~PageAhead(s)
      <4>1. s \in listed
        BY <2>3, <2>4, <2>7, <3>2 DEF Live
      <4>2. QED
        BY <2>5, <4>1
    <3>3. QED
      BY <3>1, <3>2
  <2>8. At(r, {"price.cancel"})' /\ ~At(r, ToReplace)' /\ ~At(r, Holding)' /\ At(r, Replacers)'
    BY <2>1 DEF At, Replacers, ToReplace, ToAdd, Holding, ToSubscribe, ToConfirm
  <2>9. QED
    <3> HIDE DEF subs, listed
    <3> QED BY <2>1, <2>2, <2>4, <2>6, <2>7, <2>8 DEF Priced
<1>8. ASSUME PriceCancel(r) PROVE Priced(r)'
  <2>1. PICK i \in arg[r].subs :
            /\ arg' = [arg EXCEPT ![r].subs = @ \ {i}]
            /\ IF sub[i].state \in Live THEN SetSub(i, "canceling") ELSE UNCHANGED sub
    BY <1>8 DEF PriceCancel
  <2>2. pc[r] = "price.cancel" /\ pc' = pc /\ UNCHANGED price /\ i \in Ids
    BY <1>8, ArgFields DEF PriceCancel
  <2>3. NoneNew
    BY <1>0, <2>1, SetSubNoneNew
  <2>4. sub'[i].state # "active"
    BY <2>1, <2>2 DEF SetSub, Live, Sub
  <2>5. arg'[r].subs = arg[r].subs \ {i} /\ arg'[r].type = arg[r].type
    BY <2>1 DEF Arg
  <2>6. QED
    BY <2>2, <2>3, <2>4, <2>5 DEF Priced, NoneNew, StillAhead, At, Replacers, ToReplace, ToAdd,
                                  Holding, ToSubscribe, ToConfirm
<1>9. ASSUME PriceUpdate(r) PROVE Priced(r)'
  <2>1. /\ pc[r] = "price.cancel" /\ pc'[r] \in {"price.create", "price.check"}
        /\ arg[r].subs = {} /\ UNCHANGED <<price, sub>>
    BY <1>9 DEF PriceUpdate
  <2>2. arg'[r].type = arg[r].type
    BY <1>9 DEF PriceUpdate, Arg
  <2>3. NoneNew
    BY <1>0, <2>1
  <2>4. QED
    BY <2>1, <2>2, <2>3 DEF Priced, NoneNew, StillAhead, At, Replacers, ToReplace, ToAdd, Holding,
                            ToSubscribe, ToConfirm
<1>10. ASSUME PriceCreate(r) PROVE Priced(r)'
  <2>1. PICK c \in arg[r].affected :
            /\ arg' = [arg EXCEPT ![r].affected = @ \ {c}]
            /\ CreateSub(c, arg[r].type, arg[r].price)
    BY <1>10 DEF PriceCreate
  <2>2. pc[r] = "price.create" /\ pc' = pc /\ UNCHANGED price
    BY <1>10 DEF PriceCreate
  <2>3. arg'[r].type = arg[r].type /\ arg'[r].price = arg[r].price
    BY <2>1 DEF Arg
  <2>4. QED
    BY <2>1, <2>2, <2>3, CreateSubNew DEF Priced, StillAhead, At, Replacers, ToReplace, ToAdd,
                                          Holding, ToSubscribe, ToConfirm
<1>11. ASSUME PriceCheck(r) \/ PriceAdd(r) \/ PriceStore(r) PROVE Priced(r)'
  <2>1. pc[r] \in ToReplace /\ pc'[r] \in ToReplace /\ UNCHANGED <<price, sub>>
    BY <1>11 DEF PriceCheck, PriceAdd, PriceStore, ToReplace, ToAdd, stripe
  <2>2. \/ \E c : arg' = [arg EXCEPT ![r].affected = @ \ {c}]
        \/ \E c : arg' = [arg EXCEPT ![r].customer = c]
        \/ \E j : arg' = [arg EXCEPT ![r].job = j]
        \/ \E c : arg' = [arg EXCEPT ![r].affected = @ \ {c}, ![r].customer = None, ![r].job = None]
    BY <1>11 DEF PriceCheck, PriceAdd, PriceStore
  <2>3. arg'[r].type = arg[r].type /\ arg'[r].price = arg[r].price
    <3>1. ASSUME NEW c, arg' = [arg EXCEPT ![r].affected = @ \ {c}]
          PROVE  arg'[r].type = arg[r].type /\ arg'[r].price = arg[r].price
      BY <3>1 DEF Arg
    <3>2. ASSUME NEW c, arg' = [arg EXCEPT ![r].customer = c]
          PROVE  arg'[r].type = arg[r].type /\ arg'[r].price = arg[r].price
      BY <3>2 DEF Arg
    <3>3. ASSUME NEW j, arg' = [arg EXCEPT ![r].job = j]
          PROVE  arg'[r].type = arg[r].type /\ arg'[r].price = arg[r].price
      BY <3>3 DEF Arg
    <3>4. ASSUME NEW c, arg' = [arg EXCEPT ![r].affected = @ \ {c}, ![r].customer = None,
                                           ![r].job = None]
          PROVE  arg'[r].type = arg[r].type /\ arg'[r].price = arg[r].price
      BY <3>4 DEF Arg
    <3>5. QED
      BY <2>2, <3>1, <3>2, <3>3, <3>4
  <2>4. QED
    BY <1>0, <2>1, <2>3, PricedReplacement
<1>12. ASSUME PriceSave(r) PROVE Priced(r)'
  <2>1. /\ pc[r] \in ToReplace /\ pc[r] # "price.cancel" /\ pc'[r] = "idle" /\ UNCHANGED sub
        /\ price' = [price EXCEPT ![arg[r].type] = arg[r].price]
        /\ arg[r].type \in Types
    BY <1>12 DEF PriceSave, stripe, ToReplace, HandlersKnow, Knows, At, ToPrice
  <2>2. pc[r] \in Replacers
    BY <2>1 DEF Replacers
  <2>3. NoneNew
    BY <1>0, <2>1
  <2>4. QED
    BY <2>1, <2>2, <2>3 DEF Priced, NoneNew, StillAhead, At, Replacers, ToReplace, ToAdd, Holding,
                            ToSubscribe, ToConfirm
<1>13. QED
  BY <1>1, <1>2, <1>3, <1>4, <1>5, <1>6, <1>7, <1>8, <1>9, <1>10, <1>11, <1>12 DEF Continue

LEMMA PricesStep == IInv /\ [Next]_vars => PricesAreReplaced'
<1> SUFFICES ASSUME IInv, [Next]_vars, alone' PROVE PricesAreReplaced'
  BY DEF PricesAreReplaced
<1>1. /\ Started /\ TypeOK /\ HandlersKnow /\ Solitude /\ PricesAreReplaced
      /\ TypeOK' /\ Solitude'
  BY TypeStep, SolitudeStep DEF IInv, Started
<1>2. alone /\ (Step \/ UNCHANGED vars)
  BY AloneBefore
<1>3. ASSUME UNCHANGED <<price, pc, arg>>, NoneNew PROVE PricesAreReplaced'
  BY <1>1, <1>2, <1>3 DEF PricesAreReplaced, NoneNew, StillAhead, Replacing, At, ToReplace, ToAdd,
                          ToSubscribe, ToConfirm
<1>4. ASSUME NEW r \in Requests, Arrive(r) \/ Continue(r) PROVE PricesAreReplaced'
  <2>1. \A q \in Requests \ {r} : pc[q] = "idle" /\ pc'[q] = "idle"
    BY <1>1, <1>2, <1>4, Steppers, OnlyHandler
  <2>2. "idle" \notin Holding /\ "idle" \notin Replacers /\ "idle" \notin ToReplace
    BY DEF Holding, Replacers, ToReplace, ToAdd, ToSubscribe, ToConfirm
  <2>3. \A t : Replacing(t) <=> At(r, Replacers) /\ arg[r].type = t
    BY <2>1, <2>2 DEF Replacing, At, Replacers
  <2>4. Priced(r)
    BY <1>1, <1>2, <2>3 DEF PricesAreReplaced, Priced, At, Holding, Replacers
  <2>5. Priced(r)'
    BY <1>1, <1>4, <2>4, PricedStep
  <2>6. \A q \in Requests : At(q, Holding)' => arg'[q].price = price'[arg'[q].type]
    BY <2>1, <2>2, <2>5 DEF Priced, At
  <2>7. ASSUME NEW s \in Ids, sub'[s].state = "active"
        PROVE  (/\ \A q \in Requests : arg[q].type = sub[s].type =>
                     /\ At(q, {"price.cancel"}) => s \in arg[q].subs \/ PageAhead(s)
                     /\ At(q, ToReplace) => sub[s].price = arg[q].price \/ PageAhead(s)
                /\ ~Replacing(sub[s].type) =>
                      sub[s].price = price[sub[s].type] \/ PageAhead(s))'
    <3>1. \A q \in Requests \ {r} : ~At(q, {"price.cancel"})' /\ ~At(q, ToReplace)'
      BY <2>1, <2>2 DEF At
    <3>2. Replacing(sub[s].type)' <=> (At(r, Replacers) /\ arg[r].type = sub[s].type)'
      BY <2>1, <2>2 DEF Replacing, At, Replacers
    <3>3. QED
      BY <2>5, <2>7, <3>1, <3>2 DEF Priced, At, Replacers
  <2>8. QED
    BY <2>6, <2>7 DEF PricesAreReplaced, Holding
<1>5. ASSUME NEW j \in Jobs, JobRead(j) \/ JobSave(j) PROVE PricesAreReplaced'
  BY <1>3, <1>5, SameSubs DEF JobRead, JobSave, stripe
<1>6. ASSUME NEW s \in Ids, PeriodEnds(s) PROVE PricesAreReplaced'
  BY <1>1, <1>3, <1>6, SetSubNoneNew DEF PeriodEnds
<1>7. QED
  BY <1>2, <1>3, <1>4, <1>5, <1>6, SameSubs DEF Step, vars, stripe

-----------------------------------------------------------------------------
LEMMA InitInvariant == Init => IInv
<1> SUFFICES ASSUME Init PROVE IInv
  OBVIOUS
<1>1. Started /\ TypeOK
  BY InitStarted DEF Started
<1>2. \A r \in Requests : pc[r] = "idle"
  BY DEF Init
<1>3. \A j \in Jobs : job[j].state = "none"
  BY DEF Init, NoJob
<1>4. \A s \in Ids : sub[s].state = "none"
  BY DEF Init, NoSub
<1>5. Solitude
  BY <1>2, <1>3 DEF Solitude, Busy, Working
<1>6. TrialsCounted
  BY <1>2 DEF TrialsCounted, TrialOnce, At, Init
<1>7. MoneyBalances
  BY <1>2 DEF MoneyBalances, Init
<1>8. JobsAreEntered
  BY <1>2, <1>3 DEF JobsAreEntered, At, ToAdd
<1>9. PricesAreReplaced
  BY <1>2, <1>4 DEF PricesAreReplaced, At, ToSubscribe, ToConfirm
<1>10. QED
  BY <1>1, <1>5, <1>6, <1>7, <1>8, <1>9 DEF IInv

(* The invariant: however handlers and jobs interleave and die, what they   *)
(* know is true; while they run one at a time, trials, money, jobs and      *)
(* prices are as the lone handler's step says.                              *)
THEOREM Invariance == Spec => []IInv
<1>1. IInv /\ [Next]_vars => IInv'
  BY StartedStep, SolitudeStep, TrialsStep, MoneyStep, EnteredJobsStep, PricesStep DEF IInv
<1>2. QED
  BY <1>1, InitInvariant, PTL DEF Spec

LEMMA RestIsIdle == AtRest => (\A r \in Requests : pc[r] = "idle") /\ Working = {}
<1> SUFFICES ASSUME AtRest PROVE (\A r \in Requests : pc[r] = "idle") /\ Working = {}
  OBVIOUS
<1>1. IsFiniteSet(Busy) /\ IsFiniteSet(Working)
  BY FiniteAssumption, FS_Subset DEF Busy, Working
<1>2. Cardinality(Busy) \in Nat /\ Cardinality(Working) \in Nat
  BY <1>1, FS_CardinalityType
<1>3. Cardinality(Busy) = 0 /\ Cardinality(Working) = 0
  BY <1>2 DEF AtRest
<1>4. Busy = {} /\ Working = {}
  BY <1>1, <1>3, FS_EmptySet
<1>5. QED
  BY <1>4 DEF Busy

(* The columns, Stripe's subscriptions, the hash, the jobs and what         *)
(* handlers hold keep their types, for any number of each.                  *)
THEOREM TypeCorrect == Spec => []TypeOK
<1>1. IInv => TypeOK
  BY DEF IInv, Started
<1>2. QED
  BY <1>1, Invariance, PTL

(* The column customers.membership never names a type Stripe has made the   *)
(* customer no subscription of, wherever handlers and jobs interleave, fail *)
(* or die: createMembershipSubscription writes what Stripe has accepted.    *)
THEOREM Backed == Spec => []MembershipBacked
<1>1. IInv => MembershipBacked
  BY DEF IInv, Started
<1>2. QED
  BY <1>1, Invariance, PTL

(* Handlers that run one at a time give a customer one trial at most, for   *)
(* any number of subscriptions, cancellations and price changes.            *)
THEOREM TrialsGivenOnce == Spec => []TrialOnce
<1>1. IInv => TrialOnce
  BY DEF IInv, TrialsCounted
<1>2. QED
  BY <1>1, Invariance, PTL

(* Handlers that run one at a time give back, on the card or as credit,     *)
(* exactly what was left of the periods they canceled with an invoice,      *)
(* whatever a charge was.                                                   *)
THEOREM PaidBack == Spec => []PaidBackOnce
<1>1. IInv => PaidBackOnce
  <2>1. IInv /\ alone /\ AtRest => \A c \in Customers : refund[c] + credit[c] = owed[c]
    BY RestIsIdle DEF IInv, MoneyBalances
  <2>2. QED
    BY <2>1 DEF PaidBackOnce
<1>2. QED
  BY <1>1, Invariance, PTL

(* Between two handlers that run one at a time, every cancellation job that *)
(* waits is its customer's entry in MembershipCancellationJobs: the link in *)
(* the customer's e-mail removes it.                                        *)
THEOREM Confirmable == Spec => []JobsCanBeConfirmed
<1>1. IInv => JobsCanBeConfirmed
  <2>1. IInv /\ alone /\ AtRest =>
           \A j \in Jobs : job[j].state = "waiting" => entry[job[j].customer] = j
    BY RestIsIdle DEF IInv, JobsAreEntered, At
  <2>2. QED
    BY <2>1 DEF JobsCanBeConfirmed
<1>2. QED
  BY <1>1, Invariance, PTL

(* Between two handlers that run one at a time, every subscription that     *)
(* will be renewed has the price of the membership's document, after any    *)
(* number of price changes, or is one of those that a full page of newer    *)
(* ones at its price kept off the list that changeMembershipPrice reads.    *)
THEOREM PricesFollow == Spec => []NoneAtAnOldPrice
<1>1. IInv => NoneAtAnOldPrice
  <2>1. IInv /\ alone /\ AtRest =>
           \A s \in Ids : sub[s].state = "active" =>
              sub[s].price = price[sub[s].type] \/ PageAhead(s)
    BY RestIsIdle DEF IInv, PricesAreReplaced, Replacing, At, ToReplace, ToAdd
  <2>2. QED
    BY <2>1 DEF NoneAtAnOldPrice
<1>2. QED
  BY <1>1, Invariance, PTL

=============================================================================
