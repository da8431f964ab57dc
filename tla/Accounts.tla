------------------------------ MODULE Accounts ------------------------------
(***************************************************************************)
(* UserService and AdminService, with the middleware genericToken: users   *)
(* verify their address, sign up, log in and out, reset their password and *)
(* delete their account.  An account is a row of users, a row of customers *)
(* and a cart, inserted one after the other without a transaction, and a   *)
(* customer at Stripe; a one-time token is kept out by a sorted set of     *)
(* Redis whose entries end with the token.                                 *)
(*                                                                         *)
(* A user stands for one username with its e-mail address.  pc[r] is the   *)
(* awaited call that the handler in slot r makes next.                     *)
(***************************************************************************)
EXTENDS Integers, FiniteSets

CONSTANTS
    Users,     \* usernames, each with its e-mail address
    Requests,  \* slots of handlers under way
    Customers, \* bound: ids of Stripe's customers
    None,      \* no value
    Life,      \* seconds a token is good for
    End,       \* bound: the last second
    Links,     \* bound: no token is asked for when this many have been mailed
    Faults     \* may an awaited call fail, or the process die

ASSUME FiniteAssumption == IsFiniteSet(Users) /\ IsFiniteSet(Requests)
ASSUME NoneAssumption == None \notin Users \cup Customers
ASSUME TimeAssumption == Life \in Nat \ {0} /\ End \in Nat /\ Links \in Nat
ASSUME FaultsAssumption == Faults \in BOOLEAN

Times == 0..End

(* jwt.sign: two tokens of the same content and second are one string.     *)
Tokens == [kind: {"verify", "reset"}, user: Users, at: Times]
NoToken == [kind |-> "none", user |-> None, at |-> 0]

VARIABLES
    row,       \* the users that have a row in users, and which are active
    customer,  \* rows in customers: the stripeId
    cart,      \* users whose customer has a cart
    stripe,    \* Stripe's customers
    latest,    \* the hash emailVerification:tokens
    banned,    \* the sorted set blacklisted:tokens, with its scores
    mailed,    \* history: e-mails with a token, 2: more than one
    used,      \* history: how often a token was let through
    halfway,   \* history: users whose deletion has begun at Stripe
    shown,     \* the number of active customers last shown to administrators
    now,
    alone,     \* history: no two handlers have overlapped, and none has failed
    pc, arg

rows   == <<row, customer, cart>>
tokens == <<latest, banned, mailed, used>>
others == <<stripe, halfway>>
vars   == <<rows, tokens, others, shown, now, alone, pc, arg>>

Steps == {"idle", "verify.last", "verify.ban", "verify.issue", "verify.mail", "reset.mail",
          "token.score", "token.add", "reset.find",
          "signup.find", "signup.stripe", "signup.user", "signup.customer", "signup.cart",
          "login.save", "logout.save", "stream.count", "stream.emit",
          "delete.stripe", "delete.destroy"}

Arg == [user: Users \cup {None}, token: Tokens \cup {NoToken}, customer: Customers \cup {None},
        self: BOOLEAN, count: 0..Cardinality(Users)]
NoArg == [user |-> None, token |-> NoToken, customer |-> None, self |-> FALSE, count |-> 0]

TypeOK ==
    /\ row \in [Users -> {"none", "inactive", "active"}]
    /\ customer \in [Users -> Customers \cup {None}]
    /\ cart \in SUBSET Users
    /\ stripe \in [Customers -> {"none", "live", "deleted"}]
    /\ latest \in [Users -> Tokens \cup {NoToken}]
    /\ banned \in [Tokens -> 0..End + Life]
    /\ mailed \in [Tokens -> 0..2] /\ used \in [Tokens -> Nat]
    /\ halfway \in SUBSET Users
    /\ shown \in 0..Cardinality(Users)
    /\ now \in Times /\ alone \in BOOLEAN
    /\ pc \in [Requests -> Steps]
    /\ arg \in [Requests -> Arg]

Init ==
    /\ row = [u \in Users |-> "none"]
    /\ customer = [u \in Users |-> None]
    /\ cart = {}
    /\ stripe = [s \in Customers |-> "none"]
    /\ latest = [u \in Users |-> NoToken]
    /\ banned = [t \in Tokens |-> 0]
    /\ mailed = [t \in Tokens |-> 0]
    /\ used = [t \in Tokens |-> 0]
    /\ halfway = {}
    /\ shown = 0
    /\ now = 0
    /\ alone = TRUE
    /\ pc = [r \in Requests |-> "idle"]
    /\ arg = [r \in Requests |-> NoArg]

-----------------------------------------------------------------------------
(* The parts handlers are made of.                                         *)

Begin(r, a, step) ==
    /\ pc[r] = "idle"
    /\ arg' = [arg EXCEPT ![r] = a]
    /\ pc' = [pc EXCEPT ![r] = step]

At(r, step) == pc[r] = step
Goto(r, step) == pc' = [pc EXCEPT ![r] = step]

Finish(r) ==
    /\ pc' = [pc EXCEPT ![r] = "idle"]
    /\ arg' = [arg EXCEPT ![r] = NoArg]

Of(u) == [NoArg EXCEPT !.user = u]

BanTwice(t) == banned' = [banned EXCEPT ![t] = now + 2 * Life] \* faulty
ExpiredLate(t) == now > t.at + Life \* faulty

(* An entry is removed when its score has passed; zero: there is none.     *)
Ban(t) == banned' = [banned EXCEPT ![t] = now + Life]
Expired(t) == now >= t.at + Life

-----------------------------------------------------------------------------
(* verifyUserEmail                                                         *)

MayAsk == Cardinality({t \in Tokens : mailed[t] > 0}) < Links

VerifyFind(r, u) ==
    /\ row[u] = "none" /\ MayAsk
    /\ Begin(r, Of(u), "verify.last")
    /\ UNCHANGED <<rows, tokens, others, shown>>

VerifyLast(r) ==
    LET t == latest[arg[r].user] IN
    /\ At(r, "verify.last")
    /\ Goto(r, IF t = NoToken THEN "verify.issue" ELSE "verify.ban")
    /\ arg' = [arg EXCEPT ![r].token = t]
    /\ UNCHANGED <<rows, tokens, others, shown>>

VerifyBan(r) ==
    /\ At(r, "verify.ban")
    /\ Ban(arg[r].token)
    /\ Goto(r, "verify.issue")
    /\ UNCHANGED <<rows, latest, mailed, used, others, shown, arg>>

VerifyIssue(r) ==
    LET t == [kind |-> "verify", user |-> arg[r].user, at |-> now] IN
    /\ At(r, "verify.issue")
    /\ latest' = [latest EXCEPT ![arg[r].user] = t]
    /\ arg' = [arg EXCEPT ![r].token = t]
    /\ Goto(r, "verify.mail")
    /\ UNCHANGED <<rows, banned, mailed, used, others, shown>>

(* requestPasswordReset: a token that nobody keeps but the e-mail.         *)
ResetRequest(r, u) ==
    /\ row[u] # "none" /\ MayAsk
    /\ Begin(r, [Of(u) EXCEPT !.token = [kind |-> "reset", user |-> u, at |-> now]], "reset.mail")
    /\ UNCHANGED <<rows, tokens, others, shown>>

Mail(r) ==
    /\ pc[r] \in {"verify.mail", "reset.mail"}
    /\ mailed' = [mailed EXCEPT ![arg[r].token] = IF @ = 2 THEN 2 ELSE @ + 1]
    /\ Finish(r)
    /\ UNCHANGED <<rows, latest, banned, used, others, shown>>

-----------------------------------------------------------------------------
(* authenticateGenericToken                                                *)

TokenPurge(r, t) ==
    /\ mailed[t] > 0
    /\ Begin(r, [Of(t.user) EXCEPT !.token = t], "token.score")
    /\ banned' = [b \in Tokens |-> IF banned[b] <= now THEN 0 ELSE banned[b]]
    /\ UNCHANGED <<rows, latest, mailed, used, others, shown>>

TokenScore(r) ==
    /\ At(r, "token.score")
    /\ IF banned[arg[r].token] > 0 THEN Finish(r) ELSE Goto(r, "token.add") /\ UNCHANGED arg
    /\ UNCHANGED <<rows, tokens, others, shown>>

(* jwt.verify and zadd.  The token is spent before what it is for is       *)
(* looked at: validatePassword comes after, and may refuse.                *)
TokenAdd(r) ==
    LET t == arg[r].token IN
    /\ At(r, "token.add")
    /\ \/ Expired(t) /\ Finish(r) /\ UNCHANGED <<banned, used>>
       \/ /\ ~Expired(t)
          /\ Ban(t)
          /\ used' = [used EXCEPT ![t] = @ + 1]
          /\ \/ t.kind = "verify" /\ Goto(r, "signup.find")
                /\ arg' = [arg EXCEPT ![r].self = TRUE, ![r].token = NoToken]
             \/ t.kind = "reset" /\ Goto(r, "reset.find")
                /\ arg' = [arg EXCEPT ![r].token = NoToken]
             \/ t.kind = "reset" /\ Finish(r)
    /\ UNCHANGED <<rows, latest, mailed, others, shown>>

(* resetPassword, whose new password is not modelled.                      *)
ResetFind(r) ==
    /\ At(r, "reset.find")
    /\ Finish(r)
    /\ UNCHANGED <<rows, tokens, others, shown>>

-----------------------------------------------------------------------------
(* signUpCustomer, and registerCustomer, which an administrator calls      *)

Register(r, u) ==
    /\ Begin(r, Of(u), "signup.find")
    /\ UNCHANGED <<rows, tokens, others, shown>>

(* userFactory                                                             *)
SignUpFind(r) ==
    /\ At(r, "signup.find")
    /\ IF row[arg[r].user] # "none" THEN Finish(r) ELSE Goto(r, "signup.stripe") /\ UNCHANGED arg
    /\ UNCHANGED <<rows, tokens, others, shown>>

SignUpStripe(r) ==
    /\ At(r, "signup.stripe")
    /\ \E s \in Customers :
          /\ stripe[s] = "none"
          /\ stripe' = [stripe EXCEPT ![s] = "live"]
          /\ arg' = [arg EXCEPT ![r].customer = s]
    /\ Goto(r, "signup.user")
    /\ UNCHANGED <<rows, tokens, halfway, shown>>

(* Customer.beforeCreate: the username and the address are unique.         *)
SignUpUser(r) ==
    LET u == arg[r].user IN
    /\ At(r, "signup.user")
    /\ \/ row[u] # "none" /\ Finish(r) /\ UNCHANGED row
       \/ /\ row[u] = "none"
          /\ row' = [row EXCEPT ![u] = IF arg[r].self THEN "active" ELSE "inactive"]
          /\ Goto(r, "signup.customer")
          /\ UNCHANGED arg
    /\ UNCHANGED <<customer, cart, tokens, others, shown>>

(* The foreign key finds no user, when the user has been deleted since.    *)
SignUpCustomer(r) ==
    LET u == arg[r].user IN
    /\ At(r, "signup.customer")
    /\ \/ row[u] = "none" /\ Finish(r) /\ UNCHANGED customer
       \/ /\ row[u] # "none"
          /\ customer' = [customer EXCEPT ![u] = arg[r].customer]
          /\ Goto(r, "signup.cart")
          /\ UNCHANGED arg
    /\ UNCHANGED <<row, cart, tokens, others, shown>>

(* Customer.afterCreate                                                    *)
SignUpCart(r) ==
    LET u == arg[r].user IN
    /\ At(r, "signup.cart")
    /\ \/ customer[u] = None /\ Finish(r) /\ UNCHANGED cart
       \/ /\ customer[u] # None
          /\ cart' = cart \cup {u}
          /\ IF arg[r].self THEN Goto(r, "stream.count") /\ UNCHANGED arg ELSE Finish(r)
    /\ UNCHANGED <<row, customer, tokens, others, shown>>

-----------------------------------------------------------------------------
(* loginUser, logoutUser, streamActiveUsers                                *)

LoginFind(r, u) ==
    /\ row[u] # "none"
    /\ Begin(r, Of(u), "login.save")
    /\ UNCHANGED <<rows, tokens, others, shown>>

LogoutFind(r, u) ==
    /\ row[u] # "none"
    /\ Begin(r, Of(u), "logout.save")
    /\ UNCHANGED <<rows, tokens, others, shown>>

(* A row that is gone is updated in vain.                                  *)
SessionSave(r) ==
    LET u == arg[r].user IN
    /\ pc[r] \in {"login.save", "logout.save"}
    /\ row' = IF row[u] = "none" THEN row
              ELSE [row EXCEPT ![u] = IF pc[r] = "login.save" THEN "active" ELSE "inactive"]
    /\ Goto(r, "stream.count")
    /\ UNCHANGED <<customer, cart, tokens, others, shown, arg>>

Active == {u \in Users : row[u] = "active" /\ customer[u] # None}

StreamCount(r) ==
    /\ At(r, "stream.count")
    /\ arg' = [arg EXCEPT ![r].count = Cardinality(Active)]
    /\ Goto(r, "stream.emit")
    /\ UNCHANGED <<rows, tokens, others, shown>>

StreamEmit(r) ==
    /\ At(r, "stream.emit")
    /\ shown' = arg[r].count
    /\ Finish(r)
    /\ UNCHANGED <<rows, tokens, others>>

-----------------------------------------------------------------------------
(* deleteUser                                                              *)

(* The customer at Stripe is not looked at: faulty.                        *)
DeleteFindUser(r, u) ==
    /\ row[u] # "none"
    /\ Begin(r, Of(u), "delete.destroy")
    /\ UNCHANGED <<rows, tokens, others, shown>>

DeleteFind(r, u) ==
    /\ row[u] # "none"
    /\ Begin(r, [Of(u) EXCEPT !.customer = customer[u]],
             IF customer[u] = None THEN "delete.destroy" ELSE "delete.stripe")
    /\ UNCHANGED <<rows, tokens, others, shown>>

(* Stripe does not delete a customer twice.                                *)
DeleteStripe(r) ==
    LET s == arg[r].customer IN
    /\ At(r, "delete.stripe")
    /\ \/ stripe[s] = "deleted" /\ Finish(r) /\ UNCHANGED <<stripe, halfway>>
       \/ /\ stripe[s] = "live"
          /\ stripe' = [stripe EXCEPT ![s] = "deleted"]
          /\ halfway' = halfway \cup {arg[r].user}
          /\ Goto(r, "delete.destroy")
          /\ UNCHANGED arg
    /\ UNCHANGED <<rows, tokens, shown>>

(* The row of customers stays, with no user: faulty.                       *)
DeleteDestroyUser(r) ==
    LET u == arg[r].user IN
    /\ At(r, "delete.destroy")
    /\ row' = [row EXCEPT ![u] = "none"]
    /\ halfway' = halfway \ {u}
    /\ Finish(r)
    /\ UNCHANGED <<customer, cart, tokens, stripe, shown>>

(* The rows that refer to the user go with it.                             *)
DeleteDestroy(r) ==
    LET u == arg[r].user IN
    /\ At(r, "delete.destroy")
    /\ row' = [row EXCEPT ![u] = "none"]
    /\ customer' = [customer EXCEPT ![u] = None]
    /\ cart' = cart \ {u}
    /\ halfway' = halfway \ {u}
    /\ Finish(r)
    /\ UNCHANGED <<tokens, stripe, shown>>

-----------------------------------------------------------------------------
Arrive(r) ==
    \/ \E u \in Users : \/ VerifyFind(r, u) \/ ResetRequest(r, u) \/ Register(r, u)
                        \/ LoginFind(r, u) \/ LogoutFind(r, u) \/ DeleteFind(r, u)
    \/ \E t \in Tokens : TokenPurge(r, t)

Continue(r) ==
    \/ VerifyLast(r) \/ VerifyBan(r) \/ VerifyIssue(r) \/ Mail(r)
    \/ TokenScore(r) \/ TokenAdd(r) \/ ResetFind(r)
    \/ SignUpFind(r) \/ SignUpStripe(r) \/ SignUpUser(r) \/ SignUpCustomer(r) \/ SignUpCart(r)
    \/ SessionSave(r) \/ StreamCount(r) \/ StreamEmit(r)
    \/ DeleteStripe(r) \/ DeleteDestroy(r)

(* An awaited call throws, or the process dies: what is written stays.     *)
Abort(r) ==
    /\ Faults
    /\ pc[r] # "idle"
    /\ Finish(r)
    /\ UNCHANGED <<rows, tokens, others, shown>>

Tick ==
    /\ now < End
    /\ now' = now + 1
    /\ UNCHANGED <<rows, tokens, others, shown, alone, pc, arg>>

Busy == {r \in Requests : pc[r] # "idle"}

Step == \E r \in Requests : Arrive(r) \/ Continue(r)
Fault == \E r \in Requests : Abort(r)

Next ==
    \/ Step /\ UNCHANGED now /\ alone' = (alone /\ Cardinality(Busy') <= 1)
    \/ Fault /\ UNCHANGED now /\ alone' = FALSE
    \/ Tick

Spec == Init /\ [][Next]_vars

=============================================================================
