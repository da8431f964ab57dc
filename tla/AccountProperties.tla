------------------------- MODULE AccountProperties -------------------------
(***************************************************************************)
(* What is claimed of module Accounts.                                     *)
(***************************************************************************)
EXTENDS Accounts

-----------------------------------------------------------------------------
(* However handlers interleave, and wherever they die.                     *)

(* A token is let through once: entries of the blacklist may be purged,    *)
(* but not before jwt.verify refuses their token.  Handlers that look it   *)
(* up together pass together, never more of them than there are.           *)
TokensAreSpent == \A t \in Tokens :
    used[t] <= IF alone THEN 1 ELSE Cardinality(Requests)

(* A customer of the shop has a customer at Stripe to pay with, unless a   *)
(* deletion of the account has begun, which may have failed halfway.       *)
CustomersCanPay == \A u \in Users :
    customer[u] # None => stripe[customer[u]] = "live" \/ u \in halfway

-----------------------------------------------------------------------------
(* Between two handlers, while they have run one at a time without failing.*)

(* An account is whole or absent, at Stripe too: no Stripe customer is     *)
(* left over.  Administrators are not shown fewer active customers than    *)
(* there are.  A link that was mailed once, and has neither been replaced  *)
(* nor used, works until it expires.                                       *)
AccountsAreWhole == \A u \in Users :
    /\ row[u] # "none" <=> customer[u] # None
    /\ customer[u] # None <=> u \in cart

NothingIsLeftOver ==
    \A s \in Customers : stripe[s] = "live" => \E u \in Users : customer[u] = s

ActiveAreShown == Cardinality(Active) <= shown

LatestLinksWork == \A u \in Users :
    LET t == latest[u] IN
    t # NoToken /\ mailed[t] = 1 /\ used[t] = 0 => banned[t] = 0

InOrder ==
    alone /\ Busy = {} =>
        AccountsAreWhole /\ NothingIsLeftOver /\ ActiveAreShown /\ LatestLinksWork

-----------------------------------------------------------------------------
(* What the first two rest on: an invariant that every step preserves.     *)

Signing(r)  == pc[r] \in {"signup.user", "signup.customer"}
Deleting(r) == pc[r] = "delete.stripe"

(* Handlers know their user, and tokens are not of the future.             *)
HandlersKnow == \A r \in Requests :
    /\ pc[r] # "idle" => arg[r].user \in Users
    /\ pc[r] \in {"verify.ban", "verify.mail", "reset.mail", "token.score", "token.add"} =>
          arg[r].token \in Tokens

Elapsed ==
    /\ \A r \in Requests : arg[r].token \in Tokens => arg[r].token.at <= now
    /\ \A u \in Users : latest[u] \in Tokens => latest[u].at <= now
    /\ \A t \in Tokens : mailed[t] > 0 => t.at <= now

(* Whoever holds a customer of Stripe's holds it alone: a sign-up, until   *)
(* its row is inserted, or the row; a deletion has read the row.           *)
SignUpsPay == \A r \in Requests : Signing(r) =>
    /\ arg[r].customer \in Customers /\ stripe[arg[r].customer] = "live"
    /\ \A u \in Users : customer[u] # arg[r].customer
    /\ \A q \in Requests \ {r} : Signing(q) \/ Deleting(q) => arg[q].customer # arg[r].customer

DeletionsOwn == \A r \in Requests : Deleting(r) =>
    /\ arg[r].customer \in Customers /\ stripe[arg[r].customer] # "none"
    /\ \A u \in Users : customer[u] = arg[r].customer => u = arg[r].user

CustomersDiffer == \A u \in Users : customer[u] # None =>
    /\ stripe[customer[u]] # "none"
    /\ \A v \in Users : customer[v] = customer[u] => v = u

Solitude == alone => \A r, q \in Busy : r = q

(* Who has looked a token up goes on to use it, and nobody else does while *)
(* the token is in the blacklist; it stays there until it has expired.     *)
Adders(t) == {r \in Requests : At(r, "token.add") /\ arg[r].token = t}

TokensAreKept == \A t \in Tokens :
    /\ used[t] > 0 => banned[t] >= t.at + Life \/ Expired(t)
    /\ used[t] <= Cardinality(Requests)
    /\ Expired(t) \/ used[t] + Cardinality(Adders(t)) <= Cardinality(Requests)
    /\ alone => used[t] <= 1 /\ (Adders(t) # {} => used[t] = 0 \/ Expired(t))

IInv ==
    /\ TypeOK /\ HandlersKnow /\ Elapsed
    /\ SignUpsPay /\ DeletionsOwn /\ CustomersDiffer /\ CustomersCanPay
    /\ Solitude /\ TokensAreKept

-----------------------------------------------------------------------------
(* What InOrder rests on: while handlers run one at a time, the one that   *)
(* is under way leaves nothing behind but what its next steps will finish. *)

Whole(u) ==
    /\ row[u] # "none" <=> customer[u] # None
    /\ customer[u] # None <=> u \in cart

(* What its step s leaves open, a being what it knows.                     *)
AccountsWith(s, a) ==
    /\ \A u \in Users : Whole(u) \/ (s \in {"signup.customer", "signup.cart"} /\ u = a.user)
    /\ \A c \in Customers : stripe[c] = "live" =>
          (\E u \in Users : customer[u] = c)
          \/ (s \in {"signup.user", "signup.customer"} /\ c = a.customer)
    /\ ActiveAreShown \/ s \in {"stream.count", "stream.emit"} \/ (s = "signup.cart" /\ a.self)

Knows(s, a) ==
    /\ s \in {"signup.stripe", "signup.user"} => row[a.user] = "none"
    /\ s \in {"signup.customer", "signup.cart"} =>
          row[a.user] = IF a.self THEN "active" ELSE "inactive"
    /\ s = "signup.customer" => customer[a.user] = None /\ a.user \notin cart
    /\ s = "signup.cart" => customer[a.user] # None
    /\ s = "stream.emit" => a.count = Cardinality(Active)
    /\ s = "delete.stripe" => customer[a.user] = a.customer
    /\ s = "delete.destroy" => customer[a.user] = None \/ stripe[customer[a.user]] = "deleted"
    /\ s \in {"verify.ban", "verify.mail"} => a.token = latest[a.user]
    /\ s = "reset.mail" => a.token.kind = "reset"
    /\ s \in {"token.score", "token.add"} => mailed[a.token] > 0

(* A link is in the hash before it is mailed; only one that has been       *)
(* mailed is ever kept out.                                                *)
LinkOf(u, s, a) == latest[u] # NoToken =>
    /\ latest[u].user = u /\ latest[u].kind = "verify"
    /\ mailed[latest[u]] > 0 \/ (s = "verify.mail" /\ u = a.user)
    /\ \/ mailed[latest[u]] = 1 /\ used[latest[u]] = 0 => banned[latest[u]] = 0
       \/ s \in {"verify.issue", "verify.mail"} /\ u = a.user

LinksWith(s, a) ==
    /\ \A u \in Users : LinkOf(u, s, a)
    /\ \A t \in Tokens : banned[t] > 0 => mailed[t] > 0

Orderly(s, a) == AccountsWith(s, a) /\ LinksWith(s, a) /\ Knows(s, a)

OrderInv == alone =>
    /\ Busy = {} => Orderly("idle", NoArg)
    /\ \A r \in Busy : Orderly(pc[r], arg[r])

=============================================================================
