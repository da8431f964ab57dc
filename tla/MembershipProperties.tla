------------------------ MODULE MembershipProperties ------------------------
(***************************************************************************)
(* What is claimed of module Memberships.                                  *)
(***************************************************************************)
EXTENDS Memberships

AtRest == Cardinality(Busy) + Cardinality(Working) = 0

-----------------------------------------------------------------------------
(* However handlers and jobs interleave, and wherever they die.            *)

(* A customer has a membership only of a type Stripe has made a            *)
(* subscription of: createMembershipSubscription writes it after Stripe    *)
(* has accepted, and lets Stripe's refusal pass.                           *)
MembershipBacked == \A c \in Customers :
    membership[c] # "free" => membership[c] \in held[c]

-----------------------------------------------------------------------------
(* While handlers have run one at a time, and none has failed.             *)

(* A customer gets one trial at most, however often subscriptions are      *)
(* canceled, replaced, and made again by price changes.                    *)
TrialOnce == alone => \A c \in Customers : trials[c] <= 1

(* Between two handlers, what was left of the canceled periods has been    *)
(* given back exactly once, on the card or as credit, also when a charge   *)
(* covers only a part of it.                                               *)
PaidBackOnce == alone /\ AtRest =>
    \A c \in Customers : refund[c] + credit[c] = owed[c]

(* Between two handlers, every job that will take a membership away is the *)
(* one that confirming the price would remove.                             *)
JobsCanBeConfirmed == alone /\ AtRest =>
    \A j \in Jobs : job[j].state = "waiting" => entry[job[j].customer] = j

(* Between two handlers, no subscription goes on at a price that has been  *)
(* replaced, but those behind a full page: when Page newer ones have been  *)
(* made at that price, Stripe's first page may have ended before it.       *)
PageAhead(s) ==
    Cardinality({o \in Ids : /\ o > s /\ sub[o].state # "none"
                             /\ sub[o].type = sub[s].type
                             /\ sub[o].price = sub[s].price}) >= Page

NoneAtAnOldPrice == alone /\ AtRest => \A s \in Ids :
    sub[s].state = "active" => sub[s].price = price[sub[s].type] \/ PageAhead(s)

-----------------------------------------------------------------------------
(* What the code says of itself and does not keep.                         *)

(* "If no action is taken from the customer, the customer's membership is  *)
(* canceled after the end of the period": of a customer whose subscription *)
(* a higher price has canceled, and who neither subscribes, cancels nor    *)
(* confirms from then on.                                                  *)
Acts(c) == \E r \in Requests :
    arg[r].customer = c /\ pc[r] \in {"subscribe.list", "cancel.stripe", "confirm.del"}

UnpaidMembershipsEnd == \A c \in Customers, s \in Ids :
    sub[s].state = "canceling" /\ sub[s].customer = c /\ entry[c] # None ~>
        membership[c] = "free" \/ Acts(c)

-----------------------------------------------------------------------------
(* What these rest on: an invariant that every step preserves.             *)

At(r, steps) == pc[r] \in steps

ToSubscribe == {"subscribe.list", "subscribe.cancel", "subscribe.finalize",
                "subscribe.create", "subscribe.save"}
ToCancel  == {"cancel.stripe", "cancel.invoice", "cancel.finalize", "cancel.retrieve",
              "cancel.balance", "cancel.save"}
ToAdd     == {"price.add", "price.store"}
ToReplace == {"price.create", "price.check"} \cup ToAdd
ToPrice   == {"price.list", "price.cancel", "price.update"} \cup ToReplace
ToConfirm == {"confirm.del", "confirm.remove", "confirm.create"}

(* Whom and what handlers are about.                                       *)
Knows(r) ==
    /\ At(r, ToSubscribe \cup ToConfirm \cup ToCancel \cup ToAdd) => arg[r].customer \in Customers
    /\ At(r, ToSubscribe \cup ToConfirm \cup ToPrice) => arg[r].type \in Types
    /\ At(r, {"subscribe.save"}) => arg[r].type \in held[arg[r].customer]
    /\ At(r, {"price.store", "confirm.del", "confirm.remove"}) =>
          arg[r].job \in Jobs /\ job[arg[r].job].state # "none"

HandlersKnow == \A r \in Requests : Knows(r)

SubsAreOwned == \A s \in Ids :
    sub[s].state # "none" => sub[s].customer \in Customers /\ sub[s].type \in Types

JobsAreOwned ==
    /\ \A j \in Jobs :
          job[j].state # "none" => job[j].customer \in Customers /\ job[j].type \in Types
    /\ \A c \in Customers : entry[c] # None => job[entry[c]].state # "none"

Started == TypeOK /\ HandlersKnow /\ SubsAreOwned /\ JobsAreOwned /\ MembershipBacked

(* While handlers have run one at a time, at most one of them has begun.   *)
Solitude == alone =>
    /\ \A r, q \in Busy : r = q
    /\ \A i, j \in Working : i = j
    /\ Busy = {} \/ Working = {}

(* Who had a trial has a subscription, and who is about to get one has not. *)
NoSubOf(c) == \A s \in Ids : sub[s].state # "none" => sub[s].customer # c

TrialsCounted ==
    /\ TrialOnce
    /\ \A c \in Customers : trials[c] > 0 => ~NoSubOf(c)
    /\ alone => \A r \in Requests :
          /\ At(r, {"subscribe.list", "subscribe.cancel", "subscribe.finalize"}) => ~arg[r].trial
          /\ At(r, {"subscribe.create"}) /\ arg[r].trial => NoSubOf(arg[r].customer)

(* What is still to be given back, or has been given twice, by a handler.  *)
Due(r) == CASE pc[r] \in {"subscribe.finalize", "cancel.invoice"}  -> Prorated
            [] pc[r] = "cancel.finalize"                            -> Prorated - arg[r].amount
            [] pc[r] \in {"cancel.retrieve", "cancel.balance"}      -> 0 - arg[r].amount
            [] OTHER                                                -> 0

MoneyBalances == alone => \A c \in Customers :
    /\ \A r \in Requests : pc[r] # "idle" /\ arg[r].customer = c =>
          /\ refund[c] + credit[c] + Due(r) = owed[c]
          /\ pc[r] = "cancel.balance" => arg[r].credit = credit[c]
    /\ (\A r \in Requests : pc[r] # "idle" => arg[r].customer # c) =>
          refund[c] + credit[c] = owed[c]

(* A job that is to come is its customer's entry, but for the one that a   *)
(* handler has just added, or is about to remove.                          *)
JobsAreEntered == alone =>
    /\ \A j \in Jobs : job[j].state \in {"waiting", "active"} =>
          \/ entry[job[j].customer] = j
          \/ \E r \in Requests : At(r, {"price.store", "confirm.remove"}) /\ arg[r].job = j
    /\ \A r \in Requests :
          /\ At(r, ToAdd) => entry[arg[r].customer] = None
          /\ At(r, {"price.store"}) => job[arg[r].job].customer = arg[r].customer
          /\ At(r, {"confirm.del"}) => entry[arg[r].customer] = arg[r].job

(* Handlers hold the price of the document, until it is replaced: then the *)
(* subscriptions at the old price are still to be canceled, or gone, or    *)
(* not on the page that was read.                                          *)
Replacing(t) == \E r \in Requests : At(r, {"price.cancel"} \cup ToReplace) /\ arg[r].type = t

PricesAreReplaced == alone =>
    /\ \A r \in Requests :
          At(r, ToSubscribe \cup ToConfirm \cup {"price.list"}) => arg[r].price = price[arg[r].type]
    /\ \A s \in Ids : sub[s].state = "active" =>
          /\ \A r \in Requests : arg[r].type = sub[s].type =>
                /\ At(r, {"price.cancel"}) => s \in arg[r].subs \/ PageAhead(s)
                /\ At(r, ToReplace) => sub[s].price = arg[r].price \/ PageAhead(s)
          /\ ~Replacing(sub[s].type) =>
                sub[s].price = price[sub[s].type] \/ PageAhead(s)

IInv ==
    Started /\ Solitude /\ TrialsCounted /\ MoneyBalances /\ JobsAreEntered /\ PricesAreReplaced

=============================================================================
