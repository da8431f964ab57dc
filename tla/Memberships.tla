---------------------------- MODULE Memberships ----------------------------
(***************************************************************************)
(* SubscriptionService and the part of PaymentService it calls: customers  *)
(* subscribe to a membership at Stripe, cancel it, and confirm a price     *)
(* that rises; administrators change prices; delayed jobs take memberships *)
(* away.  The column customers.membership, Stripe's subscriptions and the  *)
(* hash MembershipCancellationJobs are three stores without a transaction. *)
(*                                                                         *)
(* pc[r] is the awaited call that the handler in slot r makes next, arg[r] *)
(* what it knows of its input and of what it has read.  The two plans of a *)
(* membership are not told apart: each type has one price.                 *)
(***************************************************************************)
EXTENDS Integers, FiniteSets

CONSTANTS
    Customers,     \* customers with a stripeId
    Types,         \* memberships to pay for: "plus", "premium"
    Requests,      \* slots of handlers under way
    Jobs,          \* ids of jobs in membershipCancellationQueue
    None,          \* no value
    Page,          \* how many subscriptions Stripe lists at once: 10
    Subscriptions, \* bound: how many subscriptions Stripe ever creates
    PriceChanges,  \* bound: how many prices Stripe ever creates for a type
    Cheaper,       \* may a new price be lower than the old one: some Booleans
    Prorated,      \* what the rest of a period is worth
    Charges,       \* what the latest invoice may have charged, 0: nothing
    Faults         \* may an awaited call fail, or the process die

Levels == Types \cup {"free"}

ASSUME FiniteAssumption == IsFiniteSet(Requests) /\ IsFiniteSet(Jobs)
ASSUME NoneAssumption == None \notin Customers \cup Jobs \cup Types
ASSUME TypesAssumption == "free" \notin Types
ASSUME PageAssumption == Page \in Nat \ {0}
ASSUME BoundAssumption == Subscriptions \in Nat /\ PriceChanges \in Nat
ASSUME AmountAssumption == Prorated \in Nat /\ Charges \subseteq Nat
ASSUME CheaperAssumption == Cheaper \subseteq BOOLEAN
ASSUME FaultsAssumption == Faults \in BOOLEAN

VARIABLES
    membership, \* customers.membership
    price,      \* the price id in the document of a membership
    priced,     \* how many prices Stripe has for a type
    sub,        \* Stripe's subscriptions, by order of creation
    credit,     \* what Stripe owes the customer: minus the customer's balance
    refund,     \* what Stripe has returned to the customer's card
    owed,       \* history: what rests of the periods canceled with an invoice
    entry,      \* MembershipCancellationJobs: the job id under a customer
    job,        \* jobs of the queue
    held,       \* history: types a customer ever had a subscription of
    trials,     \* history: trials a customer was given
    alone,      \* history: no two handlers have overlapped, and none has failed
    pc, arg

stripe == <<priced, sub, held, trials>>
money  == <<credit, refund, owed>>
queue  == <<entry, job>>
vars   == <<membership, price, stripe, money, queue, alone, pc, arg>>

Ids == 1..Subscriptions
Live == {"active", "canceling"}
Steps == {"idle", "subscribe.list", "subscribe.cancel", "subscribe.finalize",
          "subscribe.create", "subscribe.save", "cancel.stripe", "cancel.invoice",
          "cancel.finalize", "cancel.retrieve", "cancel.balance", "cancel.save",
          "price.list", "price.cancel", "price.update", "price.create", "price.check",
          "price.add", "price.store", "price.save",
          "confirm.del", "confirm.remove", "confirm.create"}

Sub == [state: Live \cup {"none", "ended"}, customer: Customers \cup {None},
        type: Types \cup {None}, price: 0..PriceChanges]
NoSub == [state |-> "none", customer |-> None, type |-> None, price |-> 0]

Job == [state: {"none", "waiting", "active", "done", "removed"},
        customer: Customers \cup {None}, type: Types \cup {None}, seen: Levels]
NoJob == [state |-> "none", customer |-> None, type |-> None, seen |-> "free"]

Arg == [customer: Customers \cup {None}, type: Types \cup {None}, seen: Levels,
        price: 0..PriceChanges, amount: Nat, credit: Int, trial: BOOLEAN, cheaper: BOOLEAN,
        job: Jobs \cup {None}, subs: SUBSET Ids, affected: SUBSET Customers]
NoArg == [customer |-> None, type |-> None, seen |-> "free", price |-> 0, amount |-> 0,
          credit |-> 0, trial |-> FALSE, cheaper |-> FALSE, job |-> None, subs |-> {}, affected |-> {}]

TypeOK ==
    /\ membership \in [Customers -> Levels]
    /\ price \in [Types -> 0..PriceChanges]
    /\ priced \in [Types -> 0..PriceChanges]
    /\ sub \in [Ids -> Sub]
    /\ credit \in [Customers -> Int] /\ refund \in [Customers -> Nat]
    /\ owed \in [Customers -> Nat]
    /\ entry \in [Customers -> Jobs \cup {None}]
    /\ job \in [Jobs -> Job]
    /\ held \in [Customers -> SUBSET Types]
    /\ trials \in [Customers -> Nat]
    /\ alone \in BOOLEAN
    /\ pc \in [Requests -> Steps]
    /\ arg \in [Requests -> Arg]

Init ==
    /\ membership = [c \in Customers |-> "free"]
    /\ price = [t \in Types |-> 0]
    /\ priced = [t \in Types |-> 0]
    /\ sub = [s \in Ids |-> NoSub]
    /\ credit = [c \in Customers |-> 0]
    /\ refund = [c \in Customers |-> 0]
    /\ owed = [c \in Customers |-> 0]
    /\ entry = [c \in Customers |-> None]
    /\ job = [j \in Jobs |-> NoJob]
    /\ held = [c \in Customers |-> {}]
    /\ trials = [c \in Customers |-> 0]
    /\ alone = TRUE
    /\ pc = [r \in Requests |-> "idle"]
    /\ arg = [r \in Requests |-> NoArg]

-----------------------------------------------------------------------------
(* The parts handlers are made of.                                         *)

Begin(r, a, step) ==
    /\ pc[r] = "idle"
    /\ arg' = [arg EXCEPT ![r] = a]
    /\ pc' = [pc EXCEPT ![r] = step]

Goto(r, step) == pc' = [pc EXCEPT ![r] = step]

Finish(r) ==
    /\ pc' = [pc EXCEPT ![r] = "idle"]
    /\ arg' = [arg EXCEPT ![r] = NoArg]

(* subscriptions.list without a status: what has not ended, newest first.  *)
LiveOf(c) == {s \in Ids : sub[s].state \in Live /\ sub[s].customer = c}
Newest(c) == CHOOSE s \in LiveOf(c) : \A o \in LiveOf(c) : o <= s
HasCanceled(c) == \E s \in Ids : sub[s].state = "ended" /\ sub[s].customer = c

SetSub(s, state) == sub' = [sub EXCEPT ![s].state = state]

(* subscriptions.create.                                                   *)
CreateSub(c, t, p) == \E s \in Ids :
    /\ sub[s].state = "none"
    /\ \A o \in Ids : o < s => sub[o].state # "none"
    /\ sub' = [sub EXCEPT ![s] = [state |-> "active", customer |-> c, type |-> t, price |-> p]]
    /\ held' = [held EXCEPT ![c] = @ \cup {t}]

(* Sequelize saves only a column that differs from what was read.          *)
SaveMembership(c, seen, level) ==
    membership' = IF seen = level THEN membership ELSE [membership EXCEPT ![c] = level]

Owe(c) == owed' = [owed EXCEPT ![c] = @ + Prorated]
Credit(c, amount) == credit' = [credit EXCEPT ![c] = @ + amount]

-----------------------------------------------------------------------------
(* createMembershipSubscription                                            *)

SubscribeRead(r, c, t) ==
    /\ Begin(r, [NoArg EXCEPT !.customer = c, !.type = t, !.seen = membership[c],
                              !.price = price[t]], "subscribe.list")
    /\ UNCHANGED <<membership, price, money, stripe, queue>>

(* Canceled subscriptions are not looked at: faulty.                       *)
SubscribeListAlwaysTrial(r) ==
    /\ pc[r] = "subscribe.list"
    /\ IF LiveOf(arg[r].customer) # {}
          THEN Goto(r, "subscribe.cancel") /\ UNCHANGED arg
          ELSE Goto(r, "subscribe.create") /\ arg' = [arg EXCEPT ![r].trial = TRUE]
    /\ UNCHANGED <<membership, price, money, stripe, queue>>

(* A customer who has a subscription of this type goes on only when the    *)
(* plan is another one.  Only a customer who never had one gets a trial.   *)
SubscribeList(r) ==
    LET a == arg[r] IN
    /\ pc[r] = "subscribe.list"
    /\ \/ LiveOf(a.customer) # {} /\ Goto(r, "subscribe.cancel") /\ UNCHANGED arg
       \/ LiveOf(a.customer) # {} /\ a.type = a.seen /\ Finish(r)
       \/ /\ LiveOf(a.customer) = {}
          /\ Goto(r, "subscribe.create")
          /\ arg' = [arg EXCEPT ![r].trial = ~HasCanceled(a.customer)]
    /\ UNCHANGED <<membership, price, money, stripe, queue>>

(* cancelMembershipSubscriptionWithProrate: but for a trial, the rest of   *)
(* the period is invoiced, and credited when the invoice is finalized.     *)
SubscribeCancel(r) ==
    LET c == arg[r].customer IN
    /\ pc[r] = "subscribe.cancel"
    /\ IF LiveOf(c) = {} THEN UNCHANGED sub ELSE SetSub(Newest(c), "ended")
    /\ \/ Goto(r, "subscribe.create") /\ UNCHANGED owed
       \/ LiveOf(c) # {} /\ Goto(r, "subscribe.finalize") /\ Owe(c)
    /\ UNCHANGED <<membership, price, priced, held, trials, credit, refund, queue, arg>>

SubscribeFinalize(r) ==
    /\ pc[r] = "subscribe.finalize"
    /\ Goto(r, "subscribe.create")
    /\ Credit(arg[r].customer, Prorated)
    /\ UNCHANGED <<membership, price, stripe, refund, owed, queue, arg>>

(* Stripe's refusal is caught and forgotten: faulty.                       *)
SubscribeCreateUnchecked(r) ==
    /\ pc[r] = "subscribe.create"
    /\ \/ CreateSub(arg[r].customer, arg[r].type, arg[r].price)
       \/ UNCHANGED <<sub, held>>
    /\ Goto(r, "subscribe.save")
    /\ UNCHANGED <<membership, price, money, priced, trials, queue, arg>>

(* Stripe may refuse: no card, or a promotion code that does not exist.    *)
SubscribeCreate(r) ==
    LET a == arg[r] IN
    /\ pc[r] = "subscribe.create"
    /\ \/ /\ CreateSub(a.customer, a.type, a.price)
          /\ trials' = [trials EXCEPT ![a.customer] = IF a.trial THEN @ + 1 ELSE @]
          /\ Goto(r, "subscribe.save")
          /\ UNCHANGED arg
       \/ Finish(r) /\ UNCHANGED <<sub, held, trials>>
    /\ UNCHANGED <<membership, price, money, priced, queue>>

SubscribeSave(r) ==
    /\ pc[r] = "subscribe.save"
    /\ SaveMembership(arg[r].customer, arg[r].seen, arg[r].type)
    /\ Finish(r)
    /\ UNCHANGED <<price, stripe, money, queue>>

-----------------------------------------------------------------------------
(* cancelMembershipSubscription                                            *)

CancelRead(r, c) ==
    /\ Begin(r, [NoArg EXCEPT !.customer = c, !.seen = membership[c]], "cancel.stripe")
    /\ UNCHANGED <<membership, price, money, stripe, queue>>

(* cancelMembershipSubscriptionWithRefund: at the period's end; at once,   *)
(* in a trial or before any invoice; or at once, with an invoice.          *)
CancelStripe(r) ==
    LET c == arg[r].customer IN
    /\ pc[r] = "cancel.stripe"
    /\ \/ LiveOf(c) = {} /\ Finish(r) /\ UNCHANGED <<sub, owed>>
       \/ /\ LiveOf(c) # {}
          /\ \/ SetSub(Newest(c), "canceling") /\ Goto(r, "cancel.save") /\ UNCHANGED owed
             \/ SetSub(Newest(c), "ended") /\ Goto(r, "cancel.save") /\ UNCHANGED owed
             \/ SetSub(Newest(c), "ended") /\ Goto(r, "cancel.invoice") /\ Owe(c)
          /\ UNCHANGED arg
    /\ UNCHANGED <<membership, price, priced, held, trials, credit, refund, queue>>

(* The charge of the latest invoice is refunded as far as it goes.  An     *)
(* invoice that has no charge was paid by an earlier credit.               *)
CancelInvoice(r) ==
    LET c == arg[r].customer IN
    /\ pc[r] = "cancel.invoice"
    /\ \E paid \in Charges :
          LET amount == IF Prorated > paid THEN paid ELSE Prorated IN
          /\ refund' = [refund EXCEPT ![c] = @ + amount]
          /\ arg' = [arg EXCEPT ![r].amount = amount]
    /\ Goto(r, "cancel.finalize")
    /\ UNCHANGED <<membership, price, stripe, credit, owed, queue>>

(* The refund is not taken off the credit: faulty.                         *)
CancelFinalizeOnly(r) ==
    /\ pc[r] = "cancel.finalize"
    /\ Credit(arg[r].customer, Prorated)
    /\ Goto(r, "cancel.save")
    /\ UNCHANGED <<membership, price, stripe, refund, owed, queue, arg>>

(* The credit is given, and what was refunded is taken off it again, by    *)
(* writing a balance that was read a call before.                          *)
CancelFinalize(r) ==
    /\ pc[r] = "cancel.finalize"
    /\ Credit(arg[r].customer, Prorated)
    /\ Goto(r, IF arg[r].amount = 0 THEN "cancel.save" ELSE "cancel.retrieve")
    /\ UNCHANGED <<membership, price, stripe, refund, owed, queue, arg>>

CancelRetrieve(r) ==
    /\ pc[r] = "cancel.retrieve"
    /\ arg' = [arg EXCEPT ![r].credit = credit[arg[r].customer]]
    /\ Goto(r, "cancel.balance")
    /\ UNCHANGED <<membership, price, stripe, money, queue>>

CancelBalance(r) ==
    /\ pc[r] = "cancel.balance"
    /\ credit' = [credit EXCEPT ![arg[r].customer] = arg[r].credit - arg[r].amount]
    /\ Goto(r, "cancel.save")
    /\ UNCHANGED <<membership, price, stripe, refund, owed, queue, arg>>

CancelSave(r) ==
    /\ pc[r] = "cancel.save"
    /\ SaveMembership(arg[r].customer, arg[r].seen, "free")
    /\ Finish(r)
    /\ UNCHANGED <<price, stripe, money, queue>>

-----------------------------------------------------------------------------
(* changeMembershipPrice                                                   *)

PriceRead(r, t, cheaper) ==
    /\ priced[t] < PriceChanges
    /\ Begin(r, [NoArg EXCEPT !.type = t, !.price = price[t], !.cheaper = cheaper], "price.list")
    /\ UNCHANGED <<membership, price, money, stripe, queue>>

(* retrieveSubscribedCustomersByMembershipPriceAndCancelSubscriptions: the *)
(* first page of the list is read, and no other.                           *)
PriceList(r) ==
    LET listed == {s \in Ids : /\ sub[s].state \in Live
                               /\ sub[s].type = arg[r].type /\ sub[s].price = arg[r].price}
        subs == {s \in listed : Cardinality({o \in listed : o > s}) < Page} IN
    /\ pc[r] = "price.list"
    /\ Goto(r, "price.cancel")
    /\ arg' = [arg EXCEPT ![r].subs = subs, ![r].affected = {sub[s].customer : s \in subs}]
    /\ UNCHANGED <<membership, price, money, stripe, queue>>

(* One promise for each subscription.                                      *)
PriceCancel(r) ==
    /\ pc[r] = "price.cancel"
    /\ \E s \in arg[r].subs :
          /\ arg' = [arg EXCEPT ![r].subs = @ \ {s}]
          /\ IF sub[s].state \in Live THEN SetSub(s, "canceling") ELSE UNCHANGED sub
    /\ UNCHANGED <<membership, price, money, priced, held, trials, queue, pc>>

(* updateMembership: the price is created before the document names it.    *)
PriceUpdate(r) ==
    LET t == arg[r].type IN
    /\ pc[r] = "price.cancel" /\ arg[r].subs = {}
    /\ priced[t] < PriceChanges
    /\ priced' = [priced EXCEPT ![t] = @ + 1]
    /\ arg' = [arg EXCEPT ![r].price = priced[t] + 1]
    /\ Goto(r, IF arg[r].cheaper THEN "price.create" ELSE "price.check")
    /\ UNCHANGED <<membership, price, money, sub, held, trials, queue>>

(* createSubscriptionsForCustomers                                         *)
PriceCreate(r) ==
    /\ pc[r] = "price.create"
    /\ \E c \in arg[r].affected :
          /\ arg' = [arg EXCEPT ![r].affected = @ \ {c}]
          /\ CreateSub(c, arg[r].type, arg[r].price)
    /\ UNCHANGED <<membership, price, money, priced, trials, queue, pc>>

(* A job for each customer, unless the hash has an entry for the customer. *)
PriceCheck(r) ==
    /\ pc[r] = "price.check"
    /\ \E c \in arg[r].affected :
          IF entry[c] # None
             THEN arg' = [arg EXCEPT ![r].affected = @ \ {c}] /\ UNCHANGED pc
             ELSE arg' = [arg EXCEPT ![r].customer = c] /\ Goto(r, "price.add")
    /\ UNCHANGED <<membership, price, money, stripe, queue>>

PriceAdd(r) ==
    /\ pc[r] = "price.add"
    /\ \E j \in Jobs :
          /\ job[j] = NoJob
          /\ job' = [job EXCEPT ![j] = [state |-> "waiting", customer |-> arg[r].customer,
                                        type |-> arg[r].type, seen |-> "free"]]
          /\ arg' = [arg EXCEPT ![r].job = j]
    /\ Goto(r, "price.store")
    /\ UNCHANGED <<membership, price, money, stripe, entry>>

PriceStore(r) ==
    LET c == arg[r].customer IN
    /\ pc[r] = "price.store"
    /\ entry' = [entry EXCEPT ![c] = arg[r].job]
    /\ arg' = [arg EXCEPT ![r].affected = @ \ {c}, ![r].customer = None, ![r].job = None]
    /\ Goto(r, "price.check")
    /\ UNCHANGED <<membership, price, money, stripe, job>>

(* The document is saved without the new price's id: faulty.               *)
PriceSaveStale(r) ==
    /\ pc[r] \in {"price.create", "price.check"} /\ arg[r].affected = {}
    /\ Finish(r)
    /\ UNCHANGED <<membership, price, stripe, money, queue>>

(* membership.save(), after subscriptions or jobs and the e-mails.         *)
PriceSave(r) ==
    /\ pc[r] \in {"price.create", "price.check"} /\ arg[r].affected = {}
    /\ price' = [price EXCEPT ![arg[r].type] = arg[r].price]
    /\ Finish(r)
    /\ UNCHANGED <<membership, stripe, money, queue>>

-----------------------------------------------------------------------------
(* subscribeToNewMembershipPrice, from the link in the e-mail              *)

ConfirmRead(r, c) ==
    /\ entry[c] # None
    /\ LET t == job[entry[c]].type IN
       Begin(r, [NoArg EXCEPT !.customer = c, !.type = t, !.price = price[t], !.job = entry[c]],
             "confirm.del")
    /\ UNCHANGED <<membership, price, money, stripe, queue>>

ConfirmDel(r) ==
    /\ pc[r] = "confirm.del"
    /\ entry' = [entry EXCEPT ![arg[r].customer] = None]
    /\ Goto(r, "confirm.remove")
    /\ UNCHANGED <<membership, price, money, stripe, job, arg>>

(* The job is left in the queue: faulty.                                   *)
ConfirmRemoveNothing(r) ==
    /\ pc[r] = "confirm.remove"
    /\ Goto(r, "confirm.create")
    /\ UNCHANGED <<membership, price, money, stripe, queue, arg>>

(* A job that runs is locked, and cannot be removed; one that has run is   *)
(* not found, and the handler goes on.                                     *)
ConfirmRemove(r) ==
    LET j == arg[r].job IN
    /\ pc[r] = "confirm.remove"
    /\ CASE job[j].state = "waiting" -> /\ job' = [job EXCEPT ![j].state = "removed"]
                                        /\ Goto(r, "confirm.create") /\ UNCHANGED arg
         [] job[j].state = "active"  -> Finish(r) /\ UNCHANGED job
         [] OTHER                    -> Goto(r, "confirm.create") /\ UNCHANGED <<job, arg>>
    /\ UNCHANGED <<membership, price, money, stripe, entry>>

(* extendMembershipSubscription                                            *)
ConfirmCreate(r) ==
    /\ pc[r] = "confirm.create"
    /\ \/ CreateSub(arg[r].customer, arg[r].type, arg[r].price)
       \/ UNCHANGED <<sub, held>>
    /\ Finish(r)
    /\ UNCHANGED <<membership, price, money, priced, trials, queue>>

-----------------------------------------------------------------------------
(* The worker, and Stripe's clock.                                         *)

(* cancelMembership, at the end of the period.                             *)
JobRead(j) ==
    /\ job[j].state = "waiting"
    /\ job' = [job EXCEPT ![j].state = "active", ![j].seen = membership[job[j].customer]]
    /\ UNCHANGED <<membership, price, money, stripe, entry, pc, arg>>

(* The column is emptied instead of set to its default: faulty.            *)
JobSaveNull(j) ==
    /\ job[j].state = "active"
    /\ SaveMembership(job[j].customer, job[j].seen, None)
    /\ job' = [job EXCEPT ![j].state = "done", ![j].seen = "free"]
    /\ UNCHANGED <<price, stripe, money, entry, pc, arg>>

JobSave(j) ==
    /\ job[j].state = "active"
    /\ SaveMembership(job[j].customer, job[j].seen, "free")
    /\ job' = [job EXCEPT ![j].state = "done", ![j].seen = "free"]
    /\ UNCHANGED <<price, stripe, money, entry, pc, arg>>

(* An attempt that fails waits to be made again.                           *)
JobFail(j) ==
    /\ Faults
    /\ job[j].state = "active"
    /\ job' = [job EXCEPT ![j].state = "waiting", ![j].seen = "free"]
    /\ UNCHANGED <<membership, price, money, stripe, entry, pc, arg>>

PeriodEnds(s) ==
    /\ sub[s].state = "canceling"
    /\ SetSub(s, "ended")
    /\ UNCHANGED <<membership, price, money, priced, held, trials, queue, pc, arg>>

-----------------------------------------------------------------------------
Arrive(r) ==
    \/ \E c \in Customers :
          CancelRead(r, c) \/ ConfirmRead(r, c) \/ \E t \in Types : SubscribeRead(r, c, t)
    \/ \E t \in Types, cheaper \in Cheaper : PriceRead(r, t, cheaper)

Continue(r) ==
    \/ SubscribeList(r) \/ SubscribeCancel(r) \/ SubscribeFinalize(r)
    \/ SubscribeCreate(r) \/ SubscribeSave(r)
    \/ CancelStripe(r) \/ CancelInvoice(r) \/ CancelFinalize(r) \/ CancelRetrieve(r)
    \/ CancelBalance(r) \/ CancelSave(r)
    \/ PriceList(r) \/ PriceCancel(r) \/ PriceUpdate(r) \/ PriceCreate(r)
    \/ PriceCheck(r) \/ PriceAdd(r) \/ PriceStore(r) \/ PriceSave(r)
    \/ ConfirmDel(r) \/ ConfirmRemove(r) \/ ConfirmCreate(r)

(* An awaited call throws, or the process dies: what is written stays.     *)
Abort(r) ==
    /\ Faults
    /\ pc[r] # "idle"
    /\ Finish(r)
    /\ UNCHANGED <<membership, price, money, stripe, queue>>

(* Promise.allSettled: one of the promises is rejected, and nobody looks.   *)
SettleFails(r) ==
    /\ Faults
    /\ \/ pc[r] = "price.cancel" /\ \E s \in arg[r].subs : arg' = [arg EXCEPT ![r].subs = @ \ {s}]
       \/ /\ pc[r] \in {"price.create", "price.check"}
          /\ \E c \in arg[r].affected : arg' = [arg EXCEPT ![r].affected = @ \ {c}]
    /\ UNCHANGED <<membership, price, money, stripe, queue, pc>>

(* At most one handler is under way, a worker's included.                  *)
Busy == {r \in Requests : pc[r] # "idle"}
Working == {j \in Jobs : job[j].state = "active"}
OneAtATime == Cardinality(Busy) + Cardinality(Working) <= 1

Step ==
    \/ \E r \in Requests : Arrive(r) \/ Continue(r)
    \/ \E j \in Jobs : JobRead(j) \/ JobSave(j)
    \/ \E s \in Ids : PeriodEnds(s)

Fault == (\E r \in Requests : Abort(r) \/ SettleFails(r)) \/ (\E j \in Jobs : JobFail(j))

Goes == alone' = (alone /\ OneAtATime')

Next ==
    \/ Step /\ Goes
    \/ Fault /\ alone' = FALSE

Spec == Init /\ [][Next]_vars

(* Stripe and Redis answer, the worker takes the jobs that are due and     *)
(* ends them, and periods end.  Nobody has to subscribe, cancel or confirm. *)
FairSpec ==
    /\ Spec
    /\ \A r \in Requests : WF_vars(Continue(r) /\ Goes)
    /\ \A j \in Jobs : WF_vars((JobRead(j) \/ JobSave(j)) /\ Goes)
    /\ \A s \in Ids : WF_vars(PeriodEnds(s) /\ Goes)

=============================================================================
