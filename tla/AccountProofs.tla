--------------------------- MODULE AccountProofs ---------------------------
(***************************************************************************)
(* What is proved of the accounts: first what holds however handlers       *)
(* interleave and fail (IInv), then what holds between handlers that run   *)
(* one at a time (OrderInv).                                               *)
(***************************************************************************)
EXTENDS AccountProperties, FiniteSetTheorems, TLAPS

(* The records handlers are, once.                                         *)
LEMMA ArgFields == \A a \in Arg :
    /\ a.user \in Users \cup {None}
    /\ a.token \in Tokens \cup {NoToken}
    /\ a.customer \in Customers \cup {None}
    /\ a.self \in BOOLEAN
    /\ a.count \in 0..Cardinality(Users)
  BY DEF Arg

LEMMA Counts == \A S \in SUBSET Users : Cardinality(S) \in 0..Cardinality(Users)
<1> TAKE S \in SUBSET Users
<1>1. /\ IsFiniteSet(Users) /\ IsFiniteSet(S) /\ Cardinality(S) <= Cardinality(Users)
      /\ Cardinality(S) \in Nat /\ Cardinality(Users) \in Nat
  BY FiniteAssumption, FS_Subset, FS_CardinalityType
<1>2. QED
  BY <1>1

LEMMA NoArgs == NoArg \in Arg /\ \A u \in Users : Of(u) \in Arg
<1>1. 0 \in 0..Cardinality(Users)
  BY FiniteAssumption, FS_CardinalityType
<1>2. NoArg \in Arg
  BY <1>1 DEF NoArg, Arg
<1>3. QED
  BY <1>2 DEF Of, Arg, NoArg

LEMMA ArgUpdates == \A a \in Arg :
    /\ \A t \in Tokens \cup {NoToken} : [a EXCEPT !.token = t] \in Arg
    /\ \A s \in Customers \cup {None} : [a EXCEPT !.customer = s] \in Arg
    /\ \A n \in 0..Cardinality(Users) : [a EXCEPT !.count = n] \in Arg
    /\ [a EXCEPT !.self = TRUE, !.token = NoToken] \in Arg
  BY DEF Arg

LEMMA TokenFields == \A t \in Tokens : t.user \in Users /\ t.at \in Times /\ t # NoToken
<1>1. \A t \in Tokens : t.kind \in {"verify", "reset"} /\ t.user \in Users /\ t.at \in Times
  BY DEF Tokens
<1>2. QED
  BY <1>1 DEF NoToken

LEMMA NewTokens == \A kind \in {"verify", "reset"}, u \in Users, n \in Times :
    [kind |-> kind, user |-> u, at |-> n] \in Tokens
  BY DEF Tokens

LEMMA BanTyped == ASSUME TypeOK, NEW t, Ban(t) PROVE banned' \in [Tokens -> 0..End + Life]
<1>1. now + Life \in 0..End + Life
  BY TimeAssumption DEF TypeOK, Times
<1>2. QED
  BY <1>1 DEF TypeOK, Ban

-----------------------------------------------------------------------------
LEMMA TypeStep == TypeOK /\ HandlersKnow /\ [Next]_vars => TypeOK'
<1> SUFFICES ASSUME TypeOK, HandlersKnow, [Next]_vars PROVE TypeOK'
  OBVIOUS
<1> USE DEF rows, tokens, others, Begin, Goto, Finish, At
<1> DEFINE Kept == UNCHANGED <<row, customer, cart, tokens, others, shown>>
<1> DEFINE Moved == pc' \in [Requests -> Steps] /\ arg' \in [Requests -> Arg]
<1>a. now' \in Times /\ alone' \in BOOLEAN
  <2>1. CASE Tick
    BY <2>1, TimeAssumption DEF Tick, TypeOK, Times
  <2>2. QED
    BY <2>1 DEF TypeOK, Next, vars
<1>b. CASE Kept /\ Moved
  BY <1>a, <1>b DEF TypeOK
<1>1. ASSUME NEW r \in Requests, Arrive(r) PROVE TypeOK'
  <2>1. ASSUME NEW u \in Users, VerifyFind(r, u) \/ Register(r, u) \/ LoginFind(r, u) \/ LogoutFind(r, u)
        PROVE  TypeOK'
    BY <1>b, <2>1, NoArgs DEF VerifyFind, Register, LoginFind, LogoutFind, TypeOK, Steps
  <2>2. ASSUME NEW u \in Users, ResetRequest(r, u) PROVE TypeOK'
    <3>1. [Of(u) EXCEPT !.token = [kind |-> "reset", user |-> u, at |-> now]] \in Arg
      BY NoArgs, ArgUpdates, NewTokens DEF TypeOK
    <3>2. QED
      BY <1>b, <2>2, <3>1 DEF ResetRequest, TypeOK, Steps
  <2>3. ASSUME NEW u \in Users, DeleteFind(r, u) PROVE TypeOK'
    <3>1. [Of(u) EXCEPT !.customer = customer[u]] \in Arg
      BY NoArgs, ArgUpdates DEF TypeOK
    <3>2. QED
      BY <1>b, <2>3, <3>1 DEF DeleteFind, TypeOK, Steps
  <2>4. ASSUME NEW t \in Tokens, TokenPurge(r, t) PROVE TypeOK'
    <3>1. [Of(t.user) EXCEPT !.token = t] \in Arg
      BY NoArgs, ArgUpdates, TokenFields
    <3>2. banned' \in [Tokens -> 0..End + Life]
      BY <2>4, TimeAssumption DEF TokenPurge, TypeOK
    <3>3. Moved /\ UNCHANGED <<row, customer, cart, latest, mailed, used, others, shown>>
      BY <2>4, <3>1 DEF TokenPurge, TypeOK, Steps
    <3>4. QED
      BY <1>a, <3>2, <3>3 DEF TypeOK
  <2>5. QED
    BY <1>1, <2>1, <2>2, <2>3, <2>4 DEF Arrive
<1>2. ASSUME NEW r \in Requests, Continue(r) PROVE TypeOK'
  <2>0. arg[r] \in Arg /\ pc[r] \in Steps /\ (pc[r] # "idle" => arg[r].user \in Users)
    BY DEF TypeOK, HandlersKnow
  <2>i. ASSUME Finish(r) PROVE Moved
    BY <2>i, NoArgs DEF TypeOK, Steps
  <2>g. ASSUME NEW step \in Steps, Goto(r, step), arg' = arg PROVE Moved
    BY <2>g DEF TypeOK
  <2>1. ASSUME VerifyLast(r) PROVE TypeOK'
    <3>1. [arg[r] EXCEPT !.token = latest[arg[r].user]] \in Arg
      BY <2>0, <2>1, ArgUpdates DEF VerifyLast, TypeOK
    <3>2. QED
      BY <1>b, <2>1, <3>1 DEF VerifyLast, TypeOK, Steps
  <2>2. ASSUME VerifyBan(r) PROVE TypeOK'
    <3>1. banned' \in [Tokens -> 0..End + Life]
      BY <2>2, BanTyped DEF VerifyBan
    <3>2. QED
      BY <1>a, <2>2, <3>1 DEF VerifyBan, TypeOK, Steps
  <2>3. ASSUME VerifyIssue(r) PROVE TypeOK'
    <3> DEFINE t == [kind |-> "verify", user |-> arg[r].user, at |-> now]
    <3>1. t \in Tokens
      BY <2>0, <2>3, NewTokens DEF VerifyIssue, TypeOK
    <3>2. [arg[r] EXCEPT !.token = t] \in Arg
      BY <2>0, <3>1, ArgUpdates
    <3>3. /\ latest' = [latest EXCEPT ![arg[r].user] = t] /\ arg' = [arg EXCEPT ![r].token = t]
          /\ Goto(r, "verify.mail") /\ UNCHANGED <<row, customer, cart, banned, mailed, used, others, shown>>
      BY <2>3 DEF VerifyIssue
    <3> HIDE DEF t
    <3>4. QED
      BY <1>a, <3>1, <3>2, <3>3 DEF TypeOK, Steps
  <2>4. ASSUME Mail(r) PROVE TypeOK'
    <3>1. mailed' \in [Tokens -> 0..2]
      <4>1. \A n \in 0..2 : (IF n = 2 THEN 2 ELSE n + 1) \in 0..2
        OBVIOUS
      <4>2. mailed' = [mailed EXCEPT ![arg[r].token] = IF @ = 2 THEN 2 ELSE @ + 1]
        BY <2>4 DEF Mail
      <4>3. QED
        BY <4>1, <4>2 DEF TypeOK
    <3>2. QED
      BY <1>a, <2>i, <2>4, <3>1 DEF Mail, TypeOK
  <2>5. ASSUME TokenScore(r) PROVE TypeOK'
    BY <1>b, <2>5, <2>i, <2>g DEF TokenScore, Steps
  <2>6. ASSUME TokenAdd(r) PROVE TypeOK'
    <3>1. banned' \in [Tokens -> 0..End + Life] /\ used' \in [Tokens -> Nat]
      BY <2>6, BanTyped DEF TokenAdd, TypeOK
    <3>2. Moved
      <4>1. /\ [arg[r] EXCEPT !.self = TRUE, !.token = NoToken] \in Arg
            /\ [arg[r] EXCEPT !.token = NoToken] \in Arg
        BY <2>0, ArgUpdates
      <4>2. CASE Finish(r)
        BY <2>i, <4>2
      <4>3. CASE Goto(r, "signup.find") /\ arg' = [arg EXCEPT ![r].self = TRUE, ![r].token = NoToken]
        BY <4>1, <4>3 DEF TypeOK, Steps
      <4>4. CASE Goto(r, "reset.find") /\ arg' = [arg EXCEPT ![r].token = NoToken]
        BY <4>1, <4>4 DEF TypeOK, Steps
      <4>5. \/ Finish(r)
            \/ Goto(r, "signup.find") /\ arg' = [arg EXCEPT ![r].self = TRUE, ![r].token = NoToken]
            \/ Goto(r, "reset.find") /\ arg' = [arg EXCEPT ![r].token = NoToken]
        <5> HIDE DEF Finish, Goto
        <5> QED BY <2>6, Zenon DEF TokenAdd
      <4>6. QED
        BY <4>2, <4>3, <4>4, <4>5
    <3>3. QED
      BY <1>a, <2>6, <3>1, <3>2 DEF TokenAdd, TypeOK
  <2>7. ASSUME ResetFind(r) \/ SignUpFind(r) PROVE TypeOK'
    BY <1>b, <2>7, <2>i, <2>g DEF ResetFind, SignUpFind, Steps
  <2>8. ASSUME SignUpStripe(r) PROVE TypeOK'
    <3>1. PICK s \in Customers : /\ stripe' = [stripe EXCEPT ![s] = "live"]
                                 /\ arg' = [arg EXCEPT ![r].customer = s]
      BY <2>8 DEF SignUpStripe
    <3>2. [arg[r] EXCEPT !.customer = s] \in Arg
      BY <2>0, ArgUpdates
    <3>3. QED
      BY <1>a, <2>8, <3>1, <3>2 DEF SignUpStripe, TypeOK, Steps
  <2>9. ASSUME SignUpUser(r) PROVE TypeOK'
    <3>1. Moved
      BY <2>9, <2>i, <2>g DEF SignUpUser, Steps
    <3>2. QED
      BY <1>a, <2>9, <3>1 DEF SignUpUser, TypeOK
  <2>10. ASSUME SignUpCustomer(r) PROVE TypeOK'
    <3>1. Moved
      BY <2>10, <2>i, <2>g DEF SignUpCustomer, Steps
    <3>2. QED
      BY <1>a, <2>0, <2>10, <3>1, ArgFields DEF SignUpCustomer, TypeOK
  <2>11. ASSUME SignUpCart(r) PROVE TypeOK'
    <3>1. Moved
      BY <2>11, <2>i, <2>g DEF SignUpCart, Steps
    <3>2. QED
      BY <1>a, <2>0, <2>11, <3>1 DEF SignUpCart, TypeOK
  <2>12. ASSUME SessionSave(r) PROVE TypeOK'
    BY <1>a, <2>12, <2>g DEF SessionSave, TypeOK, Steps
  <2>13. ASSUME StreamCount(r) PROVE TypeOK'
    <3>1. Cardinality(Active) \in 0..Cardinality(Users)
      BY Counts DEF Active
    <3>2. [arg[r] EXCEPT !.count = Cardinality(Active)] \in Arg
      BY <2>0, <3>1, ArgUpdates
    <3>3. QED
      BY <1>b, <2>13, <3>2 DEF StreamCount, TypeOK, Steps
  <2>14. ASSUME StreamEmit(r) PROVE TypeOK'
    BY <1>a, <2>0, <2>14, <2>i, ArgFields DEF StreamEmit, TypeOK
  <2>15. ASSUME DeleteStripe(r) PROVE TypeOK'
    <3>1. Moved
      BY <2>15, <2>i, <2>g DEF DeleteStripe, Steps
    <3>2. QED
      BY <1>a, <2>0, <2>15, <3>1 DEF DeleteStripe, TypeOK
  <2>16. ASSUME DeleteDestroy(r) PROVE TypeOK'
    BY <1>a, <2>16, <2>i DEF DeleteDestroy, TypeOK
  <2>17. QED
    BY <1>2, <2>1, <2>2, <2>3, <2>4, <2>5, <2>6, <2>7, <2>8, <2>9, <2>10, <2>11, <2>12, <2>13,
       <2>14, <2>15, <2>16 DEF Continue
<1>3. ASSUME NEW r \in Requests, Abort(r) PROVE TypeOK'
  BY <1>b, <1>3, NoArgs DEF Abort, TypeOK, Steps
<1>4. CASE Tick \/ UNCHANGED vars
  BY <1>a, <1>4 DEF Tick, TypeOK, vars
<1>5. QED
  BY <1>1, <1>2, <1>3, <1>4 DEF Next, Step, Fault

-----------------------------------------------------------------------------
(* What handlers know.                                                     *)
Elsewhere(r) == \A q \in Requests \ {r} : pc'[q] = pc[q] /\ arg'[q] = arg[q]

TokenSteps == {"verify.ban", "verify.mail", "reset.mail", "token.score", "token.add"}

(* What a step makes of the handler that takes it.                         *)
LEMMA Steppers ==
    ASSUME TypeOK, HandlersKnow, NEW r \in Requests, Arrive(r) \/ Continue(r) \/ Abort(r)
    PROVE  /\ Elsewhere(r)
           /\ pc'[r] # "idle" => arg'[r].user \in Users
           /\ pc'[r] \in TokenSteps => arg'[r].token \in Tokens
           /\ arg'[r].token \in Tokens =>
                 \/ arg'[r].token = arg[r].token
                 \/ pc[r] = "idle" /\ arg'[r].token.at = now
                 \/ pc[r] = "idle" /\ mailed[arg'[r].token] > 0
                 \/ pc[r] = "verify.last" /\ arg'[r].token = latest[arg[r].user]
                 \/ pc[r] = "verify.issue" /\ arg'[r].token.at = now
<1> USE DEF TypeOK, Elsewhere, Goto, Finish, Begin, At, TokenSteps
<1> arg[r] \in Arg /\ (pc[r] # "idle" => arg[r].user \in Users)
  BY DEF HandlersKnow
<1>0. NoArg.token \notin Tokens /\ (pc[r] \in TokenSteps => arg[r].token \in Tokens)
  BY TokenFields DEF NoArg, HandlersKnow
<1>1. CASE Arrive(r)
  <2>1. ASSUME NEW u \in Users,
               VerifyFind(r, u) \/ Register(r, u) \/ LoginFind(r, u) \/ LogoutFind(r, u)
        PROVE  /\ pc[r] = "idle" /\ Elsewhere(r) /\ pc'[r] # "idle" /\ arg'[r].user \in Users
               /\ pc'[r] \notin TokenSteps /\ arg'[r].token \notin Tokens
    BY <1>0, <2>1 DEF VerifyFind, Register, LoginFind, LogoutFind, Of, NoArg
  <2>2. ASSUME NEW u \in Users, DeleteFind(r, u)
        PROVE  /\ pc[r] = "idle" /\ Elsewhere(r) /\ pc'[r] # "idle" /\ arg'[r].user \in Users
               /\ pc'[r] \notin TokenSteps /\ arg'[r].token \notin Tokens
    BY <1>0, <2>2 DEF DeleteFind, Of, NoArg
  <2>3. ASSUME NEW u \in Users, ResetRequest(r, u)
        PROVE  /\ pc[r] = "idle" /\ Elsewhere(r) /\ arg'[r].user \in Users
               /\ arg'[r].token \in Tokens /\ arg'[r].token.at = now
    BY <2>3, NewTokens DEF ResetRequest, Of, NoArg
  <2>4. ASSUME NEW t \in Tokens, TokenPurge(r, t)
        PROVE  /\ pc[r] = "idle" /\ Elsewhere(r) /\ arg'[r].user \in Users
               /\ arg'[r].token \in Tokens /\ mailed[arg'[r].token] > 0
    BY <2>4, TokenFields DEF TokenPurge, Of, NoArg
  <2>5. QED
    BY <1>1, <2>1, <2>2, <2>3, <2>4 DEF Arrive
<1>2. CASE Finish(r)
  BY <1>0, <1>2
<1>3. CASE Abort(r)
  BY <1>2, <1>3 DEF Abort
<1>4. ASSUME Elsewhere(r), arg'[r].user = arg[r].user, pc[r] # "idle", pc'[r] \notin TokenSteps,
             arg'[r].token = arg[r].token \/ arg'[r].token = NoToken
      PROVE  /\ arg'[r].user \in Users
             /\ arg'[r].token \in Tokens => arg'[r].token = arg[r].token
  BY <1>4, TokenFields
<1>5. CASE VerifyLast(r)
  <2>1. arg'[r].token = latest[arg[r].user] /\ arg'[r].user = arg[r].user
    BY <1>5 DEF VerifyLast, Arg
  <2>2. latest[arg[r].user] \in Tokens \cup {NoToken}
    BY <1>5 DEF VerifyLast
  <2>3. QED
    BY <1>5, <2>1, <2>2 DEF VerifyLast
<1>6. CASE VerifyBan(r)
  BY <1>0, <1>6 DEF VerifyBan
<1>7. CASE VerifyIssue(r)
  <2>1. /\ arg'[r].token = [kind |-> "verify", user |-> arg[r].user, at |-> now]
        /\ arg'[r].user = arg[r].user
    BY <1>7 DEF VerifyIssue, Arg
  <2>2. arg'[r].token \in Tokens /\ arg'[r].token.at = now
    BY <1>7, <2>1, NewTokens DEF VerifyIssue
  <2>3. QED
    BY <1>7, <2>1, <2>2 DEF VerifyIssue
<1>8. CASE TokenScore(r)
  BY <1>0, <1>2, <1>8 DEF TokenScore
<1>9. CASE TokenAdd(r) /\ ~Finish(r)
  <2>1. arg'[r].token = NoToken /\ arg'[r].user = arg[r].user
    BY <1>9 DEF TokenAdd, Arg
  <2>2. pc[r] = "token.add" /\ Elsewhere(r) /\ pc'[r] \notin TokenSteps
    BY <1>9 DEF TokenAdd
  <2>3. QED
    BY <1>4, <2>1, <2>2
<1>10. CASE /\ \/ SignUpFind(r) \/ SignUpUser(r) \/ SignUpCustomer(r) \/ SignUpCart(r)
               \/ SessionSave(r) \/ DeleteStripe(r)
            /\ ~Finish(r)
  BY <1>4, <1>10 DEF SignUpFind, SignUpUser, SignUpCustomer, SignUpCart, SessionSave, DeleteStripe
<1>11. CASE SignUpStripe(r) \/ StreamCount(r)
  <2>1. \/ \E s : arg' = [arg EXCEPT ![r].customer = s]
        \/ \E n : arg' = [arg EXCEPT ![r].count = n]
    BY <1>11 DEF SignUpStripe, StreamCount
  <2>2. arg'[r].user = arg[r].user /\ arg'[r].token = arg[r].token
    <3>1. ASSUME NEW s, arg' = [arg EXCEPT ![r].customer = s]
          PROVE  arg'[r].user = arg[r].user /\ arg'[r].token = arg[r].token
      BY <3>1 DEF Arg
    <3>2. ASSUME NEW n, arg' = [arg EXCEPT ![r].count = n]
          PROVE  arg'[r].user = arg[r].user /\ arg'[r].token = arg[r].token
      BY <3>2 DEF Arg
    <3>3. QED
      BY <2>1, <3>1, <3>2
  <2>3. pc[r] # "idle" /\ Elsewhere(r) /\ pc'[r] \notin TokenSteps
    BY <1>11, <2>1 DEF SignUpStripe, StreamCount
  <2>4. QED
    BY <1>4, <2>2, <2>3
<1>12. CASE Mail(r) \/ ResetFind(r) \/ StreamEmit(r) \/ DeleteDestroy(r)
  BY <1>2, <1>12 DEF Mail, ResetFind, StreamEmit, DeleteDestroy
<1>13. QED
  BY <1>1, <1>2, <1>3, <1>5, <1>6, <1>7, <1>8, <1>9, <1>10, <1>11, <1>12 DEF Continue

LEMMA KnowStep == TypeOK /\ HandlersKnow /\ [Next]_vars => HandlersKnow'
<1> SUFFICES ASSUME TypeOK, HandlersKnow, [Next]_vars PROVE HandlersKnow'
  OBVIOUS
<1>1. ASSUME NEW r \in Requests, Arrive(r) \/ Continue(r) \/ Abort(r) PROVE HandlersKnow'
  BY <1>1, Steppers DEF HandlersKnow, Elsewhere, TokenSteps
<1>2. CASE UNCHANGED <<pc, arg>>
  BY <1>2 DEF HandlersKnow
<1>3. QED
  BY <1>1, <1>2 DEF Next, Step, Fault, Tick, vars

(* Who changes the tokens, and how.                                        *)
LEMMA Tokenless ==
    ASSUME NEW r \in Requests, Arrive(r) \/ Continue(r) \/ Abort(r)
    PROVE  /\ UNCHANGED latest \/ VerifyIssue(r)
           /\ UNCHANGED mailed \/ Mail(r)
           /\ UNCHANGED used \/ TokenAdd(r)
           /\ UNCHANGED banned \/ VerifyBan(r) \/ TokenAdd(r)
                 \/ \E t \in Tokens : TokenPurge(r, t)
<1> USE DEF tokens
<1>1. CASE Arrive(r) \/ Abort(r)
  BY <1>1 DEF Arrive, Abort, VerifyFind, ResetRequest, Register, LoginFind, LogoutFind, DeleteFind,
              TokenPurge
<1>2. CASE VerifyLast(r) \/ VerifyBan(r) \/ VerifyIssue(r) \/ Mail(r) \/ TokenScore(r) \/ TokenAdd(r)
           \/ ResetFind(r)
  BY <1>2 DEF VerifyLast, VerifyBan, VerifyIssue, Mail, TokenScore, TokenAdd, ResetFind
<1>3. CASE \/ SignUpFind(r) \/ SignUpStripe(r) \/ SignUpUser(r) \/ SignUpCustomer(r) \/ SignUpCart(r)
           \/ SessionSave(r) \/ StreamCount(r) \/ StreamEmit(r) \/ DeleteStripe(r) \/ DeleteDestroy(r)
  BY <1>3 DEF SignUpFind, SignUpStripe, SignUpUser, SignUpCustomer, SignUpCart, SessionSave,
              StreamCount, StreamEmit, DeleteStripe, DeleteDestroy
<1>4. QED
  BY <1>1, <1>2, <1>3 DEF Continue

LEMMA ElapsedStep == TypeOK /\ HandlersKnow /\ Elapsed /\ [Next]_vars => Elapsed'
<1> SUFFICES ASSUME TypeOK, HandlersKnow, Elapsed, [Next]_vars PROVE Elapsed'
  OBVIOUS
<1>1. ASSUME NEW r \in Requests, Arrive(r) \/ Continue(r) \/ Abort(r), now' = now PROVE Elapsed'
  <2>1. \A q \in Requests : arg'[q].token \in Tokens => arg'[q].token.at <= now
    <3>1. arg'[r].token \in Tokens => arg'[r].token.at <= now
      <4>1. now \in Int /\ \A t \in Tokens : t.at \in Int
        BY TokenFields DEF TypeOK, Times
      <4>2. pc[r] = "verify.last" => arg[r].user \in Users
        BY DEF HandlersKnow
      <4>3. QED
        BY <1>1, <4>1, <4>2, Steppers DEF Elapsed
    <3>2. QED
      BY <1>1, <3>1, Steppers DEF Elapsed, Elsewhere
  <2>2. \A u \in Users : latest'[u] \in Tokens => latest'[u].at <= now
    <3>1. CASE UNCHANGED latest
      BY <3>1 DEF Elapsed
    <3>2. CASE VerifyIssue(r)
      <4>1. latest' = [latest EXCEPT ![arg[r].user] =
                          [kind |-> "verify", user |-> arg[r].user, at |-> now]]
        BY <3>2 DEF VerifyIssue
      <4>2. now <= now
        BY DEF TypeOK, Times
      <4>3. QED
        BY <4>1, <4>2 DEF Elapsed, TypeOK
    <3>3. QED
      BY <1>1, <3>1, <3>2, Tokenless
  <2>3. \A t \in Tokens : mailed'[t] > 0 => t.at <= now
    <3>1. CASE UNCHANGED mailed
      BY <3>1 DEF Elapsed
    <3>2. CASE Mail(r)
      <4>1. arg[r].token \in Tokens
        BY <3>2 DEF Mail, HandlersKnow
      <4>2. \A t \in Tokens \ {arg[r].token} : mailed'[t] = mailed[t]
        BY <3>2 DEF Mail, TypeOK
      <4>3. QED
        BY <4>1, <4>2 DEF Elapsed
    <3>3. QED
      BY <1>1, <3>1, <3>2, Tokenless
  <2>4. QED
    BY <1>1, <2>1, <2>2, <2>3 DEF Elapsed
<1>2. ASSUME UNCHANGED <<latest, mailed, arg>>, now' = now \/ now' = now + 1 PROVE Elapsed'
  <2>1. now \in Int /\ \A t \in Tokens : t.at \in Int
    BY TokenFields DEF TypeOK, Times
  <2>2. QED
    BY <1>2, <2>1 DEF Elapsed
<1>3. QED
  BY <1>1, <1>2 DEF Next, Step, Fault, Tick, vars, tokens

-----------------------------------------------------------------------------
(* Customers of Stripe: each has one holder.                               *)
Pays == SignUpsPay /\ DeletionsOwn /\ CustomersDiffer /\ CustomersCanPay

Dealing == {"signup.user", "signup.customer", "delete.stripe"}

LEMMA PaysElsewhere ==
    ASSUME NEW r \in Requests, Pays, Elsewhere(r), UNCHANGED <<customer, stripe, halfway>>,
           \/ pc'[r] \notin Dealing
           \/ Signing(r) /\ Signing(r)' /\ arg'[r] = arg[r]
    PROVE  Pays'
<1> USE DEF Pays, Dealing, Signing, Deleting, Elsewhere
<1>1. SignUpsPay'
  BY DEF SignUpsPay
<1>2. DeletionsOwn'
  BY DEF DeletionsOwn
<1>3. CustomersDiffer' /\ CustomersCanPay'
  BY DEF CustomersDiffer, CustomersCanPay
<1>4. QED
  BY <1>1, <1>2, <1>3

LEMMA PaysByDeleteFind ==
    ASSUME TypeOK, NEW r \in Requests, NEW u \in Users, Pays, DeleteFind(r, u), Elsewhere(r)
    PROVE  Pays'
<1> USE DEF Pays, Dealing, Signing, Deleting, Elsewhere
<1>1. /\ pc[r] = "idle" /\ pc'[r] = IF customer[u] = None THEN "delete.destroy" ELSE "delete.stripe"
      /\ arg'[r].user = u /\ arg'[r].customer = customer[u]
      /\ UNCHANGED <<customer, stripe, halfway>>
  BY DEF DeleteFind, Begin, Of, NoArg, TypeOK, rows, others
<1>2. CASE customer[u] = None
  BY <1>1, <1>2, PaysElsewhere
<1>3. CASE customer[u] # None
  <2>1. pc'[r] = "delete.stripe" /\ customer[u] \in Customers
    BY <1>1, <1>3 DEF TypeOK
  <2>2. SignUpsPay'
    BY <1>1, <2>1 DEF SignUpsPay
  <2>3. DeletionsOwn'
    <3>1. \A v \in Users : customer[v] = customer[u] => v = u
      BY <1>3 DEF CustomersDiffer
    <3>2. stripe[customer[u]] # "none"
      BY <1>3 DEF CustomersDiffer
    <3>3. QED
      BY <1>1, <2>1, <3>1, <3>2 DEF DeletionsOwn
  <2>4. CustomersDiffer' /\ CustomersCanPay'
    BY <1>1 DEF CustomersDiffer, CustomersCanPay
  <2>5. QED
    BY <2>2, <2>3, <2>4
<1>4. QED
  BY <1>2, <1>3

LEMMA PaysBySignUpStripe ==
    ASSUME TypeOK, NEW r \in Requests, Pays, SignUpStripe(r), Elsewhere(r)
    PROVE  Pays'
<1> USE DEF Pays, Dealing, Signing, Deleting, Elsewhere
<1>1. PICK s \in Customers :
          /\ stripe[s] = "none"
          /\ stripe' = [stripe EXCEPT ![s] = "live"]
          /\ arg' = [arg EXCEPT ![r].customer = s]
  BY DEF SignUpStripe
<1>2. /\ pc[r] = "signup.stripe" /\ pc'[r] = "signup.user" /\ UNCHANGED <<customer, halfway>>
      /\ arg'[r].customer = s
  BY <1>1 DEF SignUpStripe, At, Goto, TypeOK, Arg, rows
<1>3. stripe'[s] = "live" /\ \A i \in Customers \ {s} : stripe'[i] = stripe[i]
  BY <1>1 DEF TypeOK
<1>4. \A u \in Users : customer[u] # s
  <2>1. s # None
    BY NoneAssumption
  <2>2. QED
    BY <1>1, <2>1 DEF CustomersDiffer
<1>5. \A q \in Requests : Signing(q) \/ Deleting(q) => arg[q].customer # s
  BY <1>1 DEF SignUpsPay, DeletionsOwn
<1>6. SignUpsPay'
  BY <1>2, <1>3, <1>4, <1>5 DEF SignUpsPay
<1>7. DeletionsOwn'
  BY <1>2, <1>3, <1>5 DEF DeletionsOwn
<1>8. \A u \in Users : customer[u] # None => stripe'[customer[u]] = stripe[customer[u]]
  BY <1>3, <1>4 DEF TypeOK
<1>9. CustomersDiffer' /\ CustomersCanPay'
  BY <1>2, <1>8 DEF CustomersDiffer, CustomersCanPay
<1>10. QED
  BY <1>6, <1>7, <1>9

LEMMA PaysBySignUpCustomer ==
    ASSUME TypeOK, HandlersKnow, NEW r \in Requests, Pays, SignUpCustomer(r), Elsewhere(r)
    PROVE  Pays'
<1> USE DEF Pays, Dealing, Signing, Deleting, Elsewhere
<1>1. /\ pc[r] = "signup.customer" /\ UNCHANGED <<stripe, halfway>>
      /\ arg[r].user \in Users
  BY DEF SignUpCustomer, At, others, HandlersKnow
<1>2. CASE Finish(r) /\ UNCHANGED customer
  <2>1. pc'[r] = "idle"
    BY <1>2 DEF Finish, TypeOK
  <2>2. QED
    BY <1>1, <1>2, <2>1, PaysElsewhere
<1>3. CASE /\ customer' = [customer EXCEPT ![arg[r].user] = arg[r].customer]
           /\ Goto(r, "signup.cart") /\ UNCHANGED arg
  <2> DEFINE u == arg[r].user
             s == arg[r].customer
  <2>1. /\ s \in Customers /\ stripe[s] = "live" /\ \A v \in Users : customer[v] # s
        /\ \A q \in Requests \ {r} : Signing(q) \/ Deleting(q) => arg[q].customer # s
    BY <1>1 DEF SignUpsPay
  <2>2. customer'[u] = s /\ \A v \in Users \ {u} : customer'[v] = customer[v]
    BY <1>1, <1>3 DEF TypeOK
  <2>3. pc'[r] = "signup.cart" /\ s # None
    BY <1>3, <2>1, NoneAssumption DEF Goto, TypeOK
  <2> HIDE DEF u, s
  <2>4. SignUpsPay'
    BY <1>1, <1>3, <2>1, <2>2, <2>3 DEF SignUpsPay
  <2>5. DeletionsOwn'
    BY <1>1, <1>3, <2>1, <2>2, <2>3 DEF DeletionsOwn
  <2>6. CustomersDiffer' /\ CustomersCanPay'
    BY <1>1, <2>1, <2>2 DEF CustomersDiffer, CustomersCanPay
  <2>7. QED
    BY <2>4, <2>5, <2>6
<1>4. QED
  BY <1>2, <1>3 DEF SignUpCustomer

LEMMA PaysByDeleteStripe ==
    ASSUME TypeOK, HandlersKnow, NEW r \in Requests, Pays, DeleteStripe(r), Elsewhere(r)
    PROVE  Pays'
<1> USE DEF Pays, Dealing, Signing, Deleting, Elsewhere
<1>1. /\ pc[r] = "delete.stripe" /\ UNCHANGED customer /\ arg[r].user \in Users
      /\ pc'[r] \in {"idle", "delete.destroy"}
  BY DEF DeleteStripe, At, rows, HandlersKnow, Goto, Finish, TypeOK
<1>2. CASE UNCHANGED <<stripe, halfway>>
  BY <1>1, <1>2, PaysElsewhere
<1>3. CASE /\ stripe' = [stripe EXCEPT ![arg[r].customer] = "deleted"]
           /\ halfway' = halfway \cup {arg[r].user}
  <2> DEFINE s == arg[r].customer
  <2>1. s \in Customers /\ \A u \in Users : customer[u] = s => u = arg[r].user
    BY <1>1 DEF DeletionsOwn
  <2>2. stripe'[s] = "deleted" /\ \A i \in Customers \ {s} : stripe'[i] = stripe[i]
    BY <1>3, <2>1 DEF TypeOK
  <2>3. \A q \in Requests \ {r} : Signing(q) => arg[q].customer # s
    BY <1>1 DEF SignUpsPay
  <2> HIDE DEF s
  <2>4. SignUpsPay'
    BY <1>1, <2>2, <2>3 DEF SignUpsPay
  <2>5. DeletionsOwn'
    BY <1>1, <2>2 DEF DeletionsOwn
  <2>6. \A u \in Users : customer[u] # None => customer[u] \in Customers
    BY DEF TypeOK
  <2>7. CustomersDiffer'
    BY <1>1, <2>2, <2>6 DEF CustomersDiffer
  <2>8. CustomersCanPay'
    BY <1>1, <1>3, <2>1, <2>2, <2>6 DEF CustomersCanPay
  <2>9. QED
    BY <2>4, <2>5, <2>7, <2>8
<1>4. QED
  BY <1>2, <1>3 DEF DeleteStripe

LEMMA PaysByDeleteDestroy ==
    ASSUME TypeOK, HandlersKnow, NEW r \in Requests, Pays, DeleteDestroy(r), Elsewhere(r)
    PROVE  Pays'
<1> USE DEF Pays, Dealing, Signing, Deleting, Elsewhere
<1>1. /\ pc'[r] = "idle" /\ UNCHANGED stripe /\ halfway' = halfway \ {arg[r].user}
      /\ customer' = [customer EXCEPT ![arg[r].user] = None] /\ arg[r].user \in Users
  BY DEF DeleteDestroy, At, HandlersKnow, Finish, TypeOK
<1>2. customer'[arg[r].user] = None /\ \A v \in Users \ {arg[r].user} : customer'[v] = customer[v]
  BY <1>1 DEF TypeOK
<1>3. SignUpsPay'
  BY <1>1, <1>2, NoneAssumption DEF SignUpsPay
<1>4. DeletionsOwn'
  BY <1>1, <1>2, NoneAssumption DEF DeletionsOwn
<1>5. CustomersDiffer' /\ CustomersCanPay'
  BY <1>1, <1>2 DEF CustomersDiffer, CustomersCanPay
<1>6. QED
  BY <1>3, <1>4, <1>5

LEMMA PaysStep == TypeOK /\ HandlersKnow /\ Pays /\ [Next]_vars => Pays'
<1> SUFFICES ASSUME TypeOK, HandlersKnow, Pays, [Next]_vars PROVE Pays'
  OBVIOUS
<1> USE DEF rows, others
<1>1. CASE UNCHANGED vars \/ Tick
  BY <1>1 DEF vars, Tick, Pays, SignUpsPay, DeletionsOwn, CustomersDiffer, CustomersCanPay,
              Signing, Deleting
<1>2. ASSUME NEW r \in Requests, Arrive(r) \/ Continue(r) \/ Abort(r) PROVE Pays'
  <2>1. Elsewhere(r)
    BY <1>2, Steppers
  <2>2. CASE \E u \in Users : DeleteFind(r, u)
    BY <2>1, <2>2, PaysByDeleteFind
  <2>3. CASE \/ SignUpStripe(r) \/ SignUpCustomer(r) \/ DeleteStripe(r) \/ DeleteDestroy(r)
    BY <2>1, <2>3, PaysBySignUpStripe, PaysBySignUpCustomer, PaysByDeleteStripe, PaysByDeleteDestroy
  <2>4. CASE Arrive(r) /\ ~\E u \in Users : DeleteFind(r, u)
    <3>1. pc'[r] \notin Dealing /\ UNCHANGED <<customer, stripe, halfway>>
      BY <2>4 DEF Arrive, VerifyFind, ResetRequest, Register, LoginFind, LogoutFind, TokenPurge,
                  Begin, TypeOK, Dealing
    <3>2. QED
      BY <2>1, <3>1, PaysElsewhere
  <2>5. CASE SignUpUser(r)
    <3>1. /\ UNCHANGED <<customer, stripe, halfway>>
          /\ pc'[r] = "idle" \/ (Signing(r) /\ Signing(r)' /\ arg'[r] = arg[r])
      BY <2>5 DEF SignUpUser, Finish, Goto, At, TypeOK, Signing
    <3>2. QED
      BY <2>1, <3>1, PaysElsewhere DEF Dealing
  <2>6. CASE \/ VerifyLast(r) \/ VerifyBan(r) \/ VerifyIssue(r) \/ Mail(r) \/ TokenScore(r)
             \/ TokenAdd(r) \/ ResetFind(r) \/ SignUpFind(r) \/ SignUpCart(r) \/ SessionSave(r)
             \/ StreamCount(r) \/ StreamEmit(r) \/ Abort(r)
    <3>1. pc'[r] \notin Dealing
      BY <2>6 DEF VerifyLast, VerifyBan, VerifyIssue, Mail, TokenScore, TokenAdd, ResetFind,
                  SignUpFind, SignUpCart, SessionSave, StreamCount, StreamEmit, Abort, Finish, Goto,
                  TypeOK, Dealing
    <3>2. UNCHANGED <<customer, stripe, halfway>>
      BY <2>6 DEF VerifyLast, VerifyBan, VerifyIssue, Mail, TokenScore, TokenAdd, ResetFind,
                  SignUpFind, SignUpCart, SessionSave, StreamCount, StreamEmit, Abort
    <3>3. QED
      BY <2>1, <3>1, <3>2, PaysElsewhere
  <2>7. QED
    BY <1>2, <2>2, <2>3, <2>4, <2>5, <2>6 DEF Continue
<1>3. QED
  BY <1>1, <1>2 DEF Next, Step, Fault

-----------------------------------------------------------------------------
(* While handlers run one at a time.                                       *)
LEMMA OneMember == ASSUME NEW S, IsFiniteSet(S), Cardinality(S) <= 1
                   PROVE  \A x, y \in S : x = y
<1> SUFFICES ASSUME NEW x \in S, NEW y \in S, x # y PROVE FALSE
  OBVIOUS
<1>1. IsFiniteSet({x}) /\ Cardinality({x}) = 1
  BY FS_Singleton
<1>2. Cardinality({x} \cup {y}) = 2
  BY <1>1, FS_AddElement, SMTT(60)
<1>3. Cardinality({x} \cup {y}) <= Cardinality(S)
  BY FS_Subset
<1>4. Cardinality(S) \in Nat
  BY FS_CardinalityType
<1>5. QED
  BY <1>2, <1>3, <1>4

LEMMA SolitudeStep == Solitude /\ [Next]_vars => Solitude'
<1> SUFFICES ASSUME Solitude, [Next]_vars, alone' PROVE Solitude'
  BY DEF Solitude
<1>1. CASE UNCHANGED <<pc, alone>>
  BY <1>1 DEF Solitude, Busy
<1>2. CASE Cardinality(Busy') <= 1
  <2>1. IsFiniteSet(Busy')
    BY FiniteAssumption, FS_Subset DEF Busy
  <2>2. \A x, y \in Busy' : x = y
    <3> HIDE DEF Busy
    <3> QED BY <1>2, <2>1, OneMember
  <2>3. QED
    BY <2>2 DEF Solitude
<1>3. QED
  BY <1>1, <1>2 DEF Next, Tick, vars

-----------------------------------------------------------------------------
(* One-time tokens.                                                        *)
LEMMA AddersCount == \A t \in Tokens :
    /\ IsFiniteSet(Adders(t)) /\ Cardinality(Adders(t)) \in Nat
    /\ Cardinality(Adders(t)) <= Cardinality(Requests)
    /\ Cardinality(Requests) \in Nat
<1> TAKE t \in Tokens
<1>1. Adders(t) \subseteq Requests
  BY DEF Adders
<1>2. QED
  BY <1>1, FiniteAssumption, FS_Subset, FS_CardinalityType

(* What TokensAreKept says of one token.                                   *)
Kept(t) ==
    /\ used[t] > 0 => banned[t] >= t.at + Life \/ Expired(t)
    /\ used[t] <= Cardinality(Requests)
    /\ Expired(t) \/ used[t] + Cardinality(Adders(t)) <= Cardinality(Requests)
    /\ alone => used[t] <= 1 /\ (Adders(t) # {} => used[t] = 0 \/ Expired(t))

(* Nobody comes to add the token, and what keeps it out is not weakened.    *)
LEMMA KeptElsewhere ==
    ASSUME TypeOK, TypeOK', NEW t \in Tokens, Kept(t), alone' => alone, used'[t] = used[t],
           banned'[t] >= banned[t] \/ banned'[t] >= t.at + Life \/ Expired(t),
           now' = now \/ now' = now + 1,
           Adders(t)' \subseteq Adders(t)
    PROVE  Kept(t)'
<1>1. used[t] \in Nat /\ banned[t] \in Int /\ banned'[t] \in Int /\ now \in Int /\ t.at + Life \in Int
  <2>1. t.at \in Int
    BY TokenFields DEF Times
  <2>2. QED
    BY <2>1, TimeAssumption DEF TypeOK, Times
<1>2. Cardinality(Adders(t)') <= Cardinality(Adders(t)) /\ Cardinality(Adders(t)') \in Nat
  <2> HIDE DEF Adders
  <2>1. IsFiniteSet(Adders(t))
    BY AddersCount
  <2>2. QED
    BY <2>1, FS_Subset, FS_CardinalityType
<1>3. Cardinality(Adders(t)) \in Nat /\ Cardinality(Requests) \in Nat
  BY AddersCount
<1>4. Expired(t) => Expired(t)'
  BY <1>1 DEF Expired
<1>5. (used[t] > 0 => banned[t] >= t.at + Life \/ Expired(t))'
  BY <1>1, <1>4 DEF Kept
<1>6. (Expired(t) \/ used[t] + Cardinality(Adders(t)) <= Cardinality(Requests))'
  BY <1>1, <1>2, <1>3, <1>4 DEF Kept
<1>7. (alone => used[t] <= 1 /\ (Adders(t) # {} => used[t] = 0 \/ Expired(t)))'
  BY <1>4 DEF Kept
<1>8. QED
  BY <1>5, <1>6, <1>7 DEF Kept

LEMMA KeptByScore ==
    ASSUME TypeOK, TypeOK', NEW t \in Tokens, Kept(t), NEW r \in Requests, TokenScore(r),
           Elsewhere(r), arg[r].token = t, alone' => alone, now' = now
    PROVE  Kept(t)'
<1>1. used' = used /\ banned' = banned /\ banned[t] \in Nat /\ used[t] \in Nat
  BY TimeAssumption DEF TokenScore, tokens, TypeOK
<1>2. CASE banned[t] > 0
  <2>1. Adders(t)' \subseteq Adders(t)
    BY <1>2 DEF TokenScore, Finish, Adders, At, Elsewhere, TypeOK
  <2>2. QED
    BY <1>1, <2>1, KeptElsewhere
<1>3. CASE ~(banned[t] > 0)
  <2>1. t.at + Life > 0 /\ t.at + Life \in Int /\ now \in Int
    BY TokenFields, TimeAssumption DEF Times, TypeOK
  <2>2. used[t] > 0 => Expired(t)
    BY <1>1, <1>3, <2>1 DEF Kept
  <2>3. Expired(t)' <=> Expired(t)
    BY DEF Expired
  <2>4. Cardinality(Adders(t)') <= Cardinality(Requests) /\ Cardinality(Adders(t)') \in Nat
    <3>1. Adders(t)' \subseteq Requests
      BY DEF Adders
    <3> HIDE DEF Adders
    <3>2. QED
      BY <3>1, FiniteAssumption, FS_Subset, FS_CardinalityType
  <2>5. QED
    BY <1>1, <2>2, <2>3, <2>4, AddersCount DEF Kept
<1>4. QED
  BY <1>2, <1>3

LEMMA KeptByAdd ==
    ASSUME TypeOK, TypeOK', Elapsed, Solitude, NEW t \in Tokens, Kept(t), NEW r \in Requests,
           TokenAdd(r), Elsewhere(r), arg[r].token = t, ~Expired(t), alone' => alone, now' = now
    PROVE  Kept(t)'
<1>1. /\ pc[r] = "token.add" /\ pc'[r] # "token.add"
      /\ used'[t] = used[t] + 1 /\ banned'[t] = now + Life
  BY DEF TokenAdd, At, Goto, Finish, TypeOK, Ban
<1>2. now + Life >= t.at + Life /\ used[t] \in Nat
  BY TokenFields, TimeAssumption DEF Elapsed, TypeOK, Times
<1>3. Adders(t)' = Adders(t) \ {r} /\ r \in Adders(t)
  BY <1>1 DEF Adders, At, Elsewhere
<1>4. /\ Cardinality(Adders(t)') = Cardinality(Adders(t)) - 1
      /\ Cardinality(Adders(t)') \in Nat /\ Cardinality(Adders(t)) \in Nat
  <2> HIDE DEF Adders
  <2>1. IsFiniteSet(Adders(t))
    BY AddersCount
  <2>2. IsFiniteSet(Adders(t)')
    BY <1>3, <2>1, FS_Subset
  <2>3. QED
    BY <1>3, <2>1, <2>2, FS_RemoveElement, FS_CardinalityType
<1>5. used[t] + Cardinality(Adders(t)) <= Cardinality(Requests) /\ Cardinality(Requests) \in Nat
  BY AddersCount DEF Kept
<1>6. alone' => used[t] = 0 /\ Adders(t)' = {}
  <2> SUFFICES ASSUME alone' PROVE used[t] = 0 /\ Adders(t)' = {}
    OBVIOUS
  <2>1. used[t] = 0
    BY <1>3 DEF Kept
  <2>2. \A q \in Requests \ {r} : pc[q] # "token.add"
    BY <1>1 DEF Solitude, Busy, Elsewhere
  <2>3. QED
    BY <1>3, <2>1, <2>2 DEF Adders, At
<1>7. QED
  BY <1>1, <1>2, <1>4, <1>5, <1>6 DEF Kept

LEMMA TokensStep ==
    TypeOK /\ HandlersKnow /\ Elapsed /\ Solitude /\ TokensAreKept /\ [Next]_vars => TokensAreKept'
<1> SUFFICES ASSUME TypeOK, HandlersKnow, Elapsed, Solitude, TokensAreKept, [Next]_vars,
                    NEW t \in Tokens
             PROVE  Kept(t)'
  BY DEF TokensAreKept, Kept
<1>1. TypeOK' /\ Kept(t)
  BY TypeStep DEF TokensAreKept, Kept
<1>2. alone' => alone
  BY DEF Next, Tick, vars
<1>3. banned[t] \in Int /\ banned[t] >= banned[t]
  BY TimeAssumption DEF TypeOK
<1>4. CASE UNCHANGED <<banned, used, pc, arg>> /\ (now' = now \/ now' = now + 1)
  <2>1. Adders(t)' \subseteq Adders(t)
    BY <1>4 DEF Adders, At
  <2>2. QED
    BY <1>1, <1>2, <1>3, <1>4, <2>1, KeptElsewhere
<1>5. ASSUME NEW r \in Requests, Arrive(r) \/ Continue(r) \/ Abort(r), now' = now PROVE Kept(t)'
  <2>1. Elsewhere(r)
    BY <1>5, Steppers
  <2>2. pc'[r] # "token.add" => Adders(t)' \subseteq Adders(t)
    BY <2>1 DEF Adders, At, Elsewhere
  <2>3. CASE TokenScore(r)
    <3>1. CASE arg[r].token = t
      BY <1>1, <1>2, <1>5, <2>1, <2>3, <3>1, KeptByScore
    <3>2. CASE arg[r].token # t
      <4>1. Adders(t)' \subseteq Adders(t)
        BY <2>1, <2>3, <3>2 DEF TokenScore, Goto, Finish, Adders, At, Elsewhere, TypeOK
      <4>2. UNCHANGED <<banned, used>>
        BY <2>3 DEF TokenScore, tokens
      <4>3. QED
        BY <1>1, <1>2, <1>3, <1>5, <4>1, <4>2, KeptElsewhere
    <3>3. QED
      BY <3>1, <3>2
  <2>4. CASE TokenAdd(r)
    <3>1. pc'[r] # "token.add"
      BY <2>4 DEF TokenAdd, Goto, Finish, At, TypeOK
    <3>2. CASE arg[r].token = t /\ ~Expired(t)
      BY <1>1, <1>2, <1>5, <2>1, <2>4, <3>2, KeptByAdd
    <3>3. CASE ~(arg[r].token = t /\ ~Expired(t))
      <4>1. used'[t] = used[t] /\ banned'[t] = banned[t]
        BY <2>4, <3>3 DEF TokenAdd, Ban, TypeOK
      <4>2. QED
        BY <1>1, <1>2, <1>3, <1>5, <2>2, <3>1, <4>1, KeptElsewhere
    <3>4. QED
      BY <3>2, <3>3
  <2>5. ASSUME NEW b \in Tokens, TokenPurge(r, b) PROVE Kept(t)'
    <3>1. /\ pc'[r] = "token.score" /\ UNCHANGED used
          /\ banned' = [i \in Tokens |-> IF banned[i] <= now THEN 0 ELSE banned[i]]
      BY <2>5 DEF TokenPurge, Begin, TypeOK
    <3>2. Adders(t)' \subseteq Adders(t)
      BY <2>2, <3>1
    <3>3. CASE used[t] > 0
      <4>1. t.at + Life \in Int /\ now \in Int
        BY TokenFields, TimeAssumption DEF Times, TypeOK
      <4>2. banned'[t] >= banned[t] \/ Expired(t)
        BY <1>1, <1>3, <3>1, <3>3, <4>1 DEF Kept, Expired
      <4>3. QED
        BY <1>1, <1>2, <1>5, <3>1, <3>2, <4>2, KeptElsewhere
    <3>4. CASE ~(used[t] > 0)
      <4>1. Cardinality(Adders(t)') <= Cardinality(Requests) /\ Cardinality(Adders(t)') \in Nat
        <5>1. Adders(t)' \subseteq Requests
          BY DEF Adders
        <5> HIDE DEF Adders
        <5>2. QED
          BY <5>1, FiniteAssumption, FS_Subset, FS_CardinalityType
      <4>2. used[t] = 0 /\ used'[t] = 0
        BY <3>1, <3>4 DEF TypeOK
      <4>3. QED
        BY <4>1, <4>2, AddersCount DEF Kept
    <3>5. QED
      BY <3>3, <3>4
  <2>6. CASE VerifyBan(r)
    <3>1. pc'[r] = "verify.issue" /\ UNCHANGED used
      BY <2>6 DEF VerifyBan, Goto, TypeOK
    <3>2. banned'[t] = banned[t] \/ banned'[t] >= t.at + Life
      <4>1. CASE arg[r].token = t
        BY <2>6, <4>1, TokenFields, TimeAssumption DEF VerifyBan, Ban, Elapsed, TypeOK, Times
      <4>2. CASE arg[r].token # t
        BY <2>6, <4>2 DEF VerifyBan, Ban, TypeOK
      <4>3. QED
        BY <4>1, <4>2
    <3>3. QED
      BY <1>1, <1>2, <1>3, <1>5, <2>2, <3>1, <3>2, KeptElsewhere
  <2>7. CASE ~TokenScore(r) /\ ~TokenAdd(r) /\ ~VerifyBan(r) /\ ~\E b \in Tokens : TokenPurge(r, b)
    <3>1. UNCHANGED <<banned, used>>
      BY <1>5, <2>7, Tokenless
    <3>2. pc'[r] # "token.add"
      BY <1>5, <2>7 DEF Arrive, Continue, VerifyFind, ResetRequest, Register, LoginFind, LogoutFind,
         DeleteFind, VerifyLast, VerifyIssue, Mail, ResetFind, SignUpFind, SignUpStripe, SignUpUser,
         SignUpCustomer, SignUpCart, SessionSave, StreamCount, StreamEmit, DeleteStripe,
         DeleteDestroy, Abort, Begin, Goto, Finish, TypeOK
    <3>3. QED
      BY <1>1, <1>2, <1>3, <1>5, <2>2, <3>1, <3>2, KeptElsewhere
  <2>8. QED
    BY <2>3, <2>4, <2>5, <2>6, <2>7
<1>6. QED
  BY <1>4, <1>5 DEF Next, Step, Fault, Tick, vars, tokens

-----------------------------------------------------------------------------
LEMMA InitInvariant == Init => IInv
<1> SUFFICES ASSUME Init PROVE IInv
  OBVIOUS
<1> USE DEF Init
<1>1. TypeOK
  <2>1. 0 \in 0..Cardinality(Users) /\ 0 \in 0..End + Life /\ 0 \in Times
    BY FiniteAssumption, TimeAssumption, FS_CardinalityType DEF Times
  <2>2. QED
    BY <2>1, NoArgs DEF TypeOK, Steps
<1>2. HandlersKnow /\ SignUpsPay /\ DeletionsOwn
  BY DEF HandlersKnow, SignUpsPay, DeletionsOwn, Signing, Deleting
<1>3. Elapsed
  BY TokenFields DEF Elapsed, NoArg
<1>4. CustomersDiffer /\ CustomersCanPay
  BY DEF CustomersDiffer, CustomersCanPay
<1>5. Solitude
  BY DEF Solitude, Busy
<1>6. TokensAreKept
  <2>1. \A t \in Tokens : Adders(t) = {}
    BY DEF Adders, At
  <2>2. Cardinality({}) = 0 /\ Cardinality(Requests) \in Nat
    BY FiniteAssumption, FS_EmptySet, FS_CardinalityType
  <2>3. QED
    BY <2>1, <2>2 DEF TokensAreKept
<1>7. QED
  BY <1>1, <1>2, <1>3, <1>4, <1>5, <1>6 DEF IInv

(* The invariant: tokens are as old as they say, whoever holds a customer   *)
(* of Stripe's holds it alone, and a token is kept out until it expires.    *)
THEOREM Invariance == Spec => []IInv
<1>1. IInv /\ [Next]_vars => IInv'
  BY TypeStep, KnowStep, ElapsedStep, PaysStep, SolitudeStep, TokensStep DEF IInv, Pays
<1>2. QED
  BY <1>1, InitInvariant, PTL DEF Spec

(* The rows, Stripe's customers, the blacklist and what handlers hold keep  *)
(* their types, for any number of users, handlers and customers.            *)
THEOREM TypeCorrect == Spec => []TypeOK
<1>1. IInv => TypeOK
  BY DEF IInv
<1>2. QED
  BY <1>1, Invariance, PTL

(* A one-time token is let through once by handlers that run one at a time, *)
(* and at most as often as there are handlers to look it up together: an    *)
(* entry of the blacklist that is purged had a token that has expired.      *)
THEOREM TokensSpent == Spec => []TokensAreSpent
<1>1. IInv => TokensAreSpent
  BY DEF IInv, TokensAreKept, TokensAreSpent
<1>2. QED
  BY <1>1, Invariance, PTL

(* Every row of customers has a live customer at Stripe, however sign-ups,  *)
(* registrations and deletions interleave and wherever they fail, unless a  *)
(* deletion of that account has got as far as Stripe.                       *)
THEOREM CustomersPay == Spec => []CustomersCanPay
<1>1. IInv => CustomersCanPay
  BY DEF IInv
<1>2. QED
  BY <1>1, Invariance, PTL

-----------------------------------------------------------------------------
(* Between handlers that run one at a time.                                *)
Open == {"signup.user", "signup.customer", "signup.cart", "stream.count", "stream.emit",
         "verify.issue", "verify.mail"}
Knowing == {"signup.stripe", "signup.user", "signup.customer", "signup.cart", "stream.emit",
            "delete.stripe", "delete.destroy", "verify.ban", "verify.mail", "reset.mail",
            "token.score", "token.add"}

(* What is in order with nothing open is in order with anything open.      *)
LEMMA OrderlyOpens ==
    ASSUME NEW s, s \notin Open, NEW a, Orderly(s, a), NEW t, NEW b
    PROVE  AccountsWith(t, b) /\ LinksWith(t, b) /\ (Knows(t, b) => Orderly(t, b))
<1>1. AccountsWith(t, b)
  BY DEF Orderly, AccountsWith, Open
<1>2. LinksWith(t, b)
  BY DEF Orderly, LinksWith, LinkOf, Open
<1>3. QED
  BY <1>1, <1>2 DEF Orderly

LEMMA KnowsNothing == \A s, a : s \notin Knowing => Knows(s, a)
  BY DEF Knows, Knowing

LEMMA OrderlyKept ==
    ASSUME NEW r \in Requests, NEW s, NEW a, pc'[r] = s, arg'[r] = a, Orderly(s, a),
           UNCHANGED <<rows, tokens, others, shown>>
    PROVE  Orderly(pc[r], arg[r])'
<1>1. /\ row' = row /\ customer' = customer /\ cart' = cart /\ stripe' = stripe /\ shown' = shown
      /\ latest' = latest /\ banned' = banned /\ mailed' = mailed /\ used' = used
  BY DEF rows, tokens, others
<1>2. AccountsWith(pc[r], arg[r])'
  BY <1>1 DEF Orderly, AccountsWith, Whole, ActiveAreShown, Active
<1>3. LinksWith(pc[r], arg[r])'
  BY <1>1 DEF Orderly, LinksWith, LinkOf
<1>4. Knows(pc[r], arg[r])'
  BY <1>1 DEF Orderly, Knows, Active
<1>5. QED
  BY <1>2, <1>3, <1>4 DEF Orderly

(* Accounts by a step that changes tokens, and tokens by one that changes  *)
(* accounts.                                                               *)
LEMMA AccountsKept ==
    ASSUME NEW r \in Requests, NEW s, NEW a, pc'[r] = s, arg'[r] = a, AccountsWith(s, a),
           UNCHANGED <<rows, stripe, shown>>
    PROVE  AccountsWith(pc[r], arg[r])'
  BY DEF AccountsWith, Whole, ActiveAreShown, Active, rows

LEMMA LinksKept ==
    ASSUME NEW r \in Requests, NEW s, NEW a, pc'[r] = s, arg'[r] = a, LinksWith(s, a),
           UNCHANGED tokens
    PROVE  LinksWith(pc[r], arg[r])'
  BY DEF LinksWith, LinkOf, tokens

LEMMA OrderlyThere ==
    ASSUME NEW r \in Requests, NEW s, NEW a, pc'[r] = s, arg'[r] = a,
           AccountsWith(pc[r], arg[r])', LinksWith(pc[r], arg[r])', Knows(s, a)'
    PROVE  Orderly(pc[r], arg[r])'
<1>1. Knows(pc[r], arg[r])'
  BY DEF Knows, Active
<1>2. QED
  BY <1>1 DEF Orderly

(* What the operators of handlers leave in the slot.                       *)
LEMMA SlotMoves ==
    ASSUME TypeOK, NEW r \in Requests
    PROVE  /\ \A a, s : Begin(r, a, s) => pc'[r] = s /\ arg'[r] = a /\ pc[r] = "idle"
           /\ Finish(r) => pc'[r] = "idle" /\ arg'[r] = NoArg
           /\ \A s : Goto(r, s) => pc'[r] = s
           /\ arg' = arg => arg'[r] = arg[r]
           /\ arg[r] \in Arg
  BY DEF TypeOK, Begin, Finish, Goto

(* Steps that only look.                                                   *)
LEMMA OrderlyLooks ==
    ASSUME TypeOK, HandlersKnow, NEW r \in Requests, Orderly(pc[r], arg[r]),
           \/ \E u \in Users : \/ VerifyFind(r, u) \/ ResetRequest(r, u) \/ Register(r, u)
                               \/ LoginFind(r, u) \/ LogoutFind(r, u) \/ DeleteFind(r, u)
           \/ VerifyLast(r) \/ TokenScore(r) \/ ResetFind(r) \/ SignUpFind(r)
    PROVE  Orderly(pc[r], arg[r])'
<1>1. UNCHANGED <<rows, tokens, others, shown>>
  BY DEF VerifyFind, ResetRequest, Register, LoginFind, LogoutFind, DeleteFind, VerifyLast, TokenScore,
     ResetFind, SignUpFind
<1>2. pc[r] \notin Open
  BY DEF VerifyFind, ResetRequest, Register, LoginFind, LogoutFind, DeleteFind, VerifyLast, TokenScore,
     ResetFind, SignUpFind, Begin, At, Open
<1>3. ASSUME NEW s, NEW a, Knows(s, a), pc'[r] = s, arg'[r] = a
      PROVE  Orderly(pc[r], arg[r])'
  <2>1. Orderly(s, a)
    BY <1>2, <1>3, OrderlyOpens
  <2>2. QED
    BY <1>1, <1>3, <2>1, OrderlyKept
<1>4. pc'[r] \notin Knowing => Orderly(pc[r], arg[r])'
  BY <1>3, KnowsNothing
<1>5. "idle" \notin Knowing
  BY DEF Knowing
<1>6. Finish(r) => Orderly(pc[r], arg[r])'
  BY <1>4, <1>5, SlotMoves
<1> DEFINE Good == Orderly(pc[r], arg[r])'
<1> SUFFICES Good
  OBVIOUS
<1>7. /\ \A s, a : Knows(s, a) /\ pc'[r] = s /\ arg'[r] = a => Good
      /\ pc'[r] \notin Knowing => Good
      /\ Finish(r) => Good
  BY <1>3, <1>4, <1>6
<1> HIDE DEF Good
<1>8. ASSUME NEW u \in Users, VerifyFind(r, u) \/ Register(r, u) \/ LoginFind(r, u) \/ LogoutFind(r, u)
      PROVE  Good
  BY <1>7, <1>8, SlotMoves DEF VerifyFind, Register, LoginFind, LogoutFind, Knowing
<1>9. ASSUME NEW u \in Users, ResetRequest(r, u)
      PROVE  Good
  <2> DEFINE a == [Of(u) EXCEPT !.token = [kind |-> "reset", user |-> u, at |-> now]]
  <2>1. a.token.kind = "reset"
    BY DEF Of, NoArg
  <2>2. Begin(r, a, "reset.mail")
    BY <1>9 DEF ResetRequest
  <2> HIDE DEF a
  <2>3. Knows("reset.mail", a)
    BY <2>1 DEF Knows
  <2>4. QED
    BY <1>7, <2>2, <2>3, SlotMoves
<1>10. ASSUME NEW u \in Users, DeleteFind(r, u)
       PROVE  Good
  <2> DEFINE a == [Of(u) EXCEPT !.customer = customer[u]]
  <2>1. a.user = u /\ a.customer = customer[u]
    BY DEF Of, NoArg
  <2>2. Begin(r, a, IF customer[u] = None THEN "delete.destroy" ELSE "delete.stripe")
    BY <1>10 DEF DeleteFind
  <2> HIDE DEF a
  <2>3. CASE customer[u] = None
    <3>1. Knows("delete.destroy", a)
      BY <2>1, <2>3 DEF Knows
    <3>2. QED
      BY <1>7, <2>2, <2>3, <3>1, SlotMoves
  <2>4. CASE customer[u] # None
    <3>1. Knows("delete.stripe", a)
      BY <2>1, <2>4 DEF Knows
    <3>2. QED
      BY <1>7, <2>2, <2>4, <3>1, SlotMoves
  <2>5. QED
    BY <2>3, <2>4
<1>11. CASE VerifyLast(r)
  <2> DEFINE a == [arg[r] EXCEPT !.token = latest[arg[r].user]]
  <2>1. a.user = arg[r].user /\ a.token = latest[a.user]
    BY SlotMoves DEF Arg
  <2>2. arg'[r] = a /\ pc'[r] \in {"verify.issue", "verify.ban"}
    BY <1>11 DEF VerifyLast, Goto, TypeOK
  <2> HIDE DEF a
  <2>3. Knows("verify.ban", a) /\ Knows("verify.issue", a)
    BY <2>1 DEF Knows
  <2>4. QED
    BY <1>7, <2>2, <2>3
<1>12. CASE TokenScore(r)
  <2>1. CASE Goto(r, "token.add") /\ UNCHANGED arg
    <3>1. mailed[arg[r].token] > 0
      BY <1>12 DEF TokenScore, At, Orderly, Knows
    <3>2. Knows("token.add", arg[r])
      BY <3>1 DEF Knows
    <3>3. QED
      BY <1>7, <2>1, <3>2, SlotMoves
  <2>2. QED
    BY <1>7, <1>12, <2>1 DEF TokenScore
<1>13. CASE ResetFind(r)
  BY <1>7, <1>13 DEF ResetFind
<1>14. CASE SignUpFind(r)
  <2>1. CASE row[arg[r].user] = "none" /\ Goto(r, "signup.stripe") /\ UNCHANGED arg
    <3>1. Knows("signup.stripe", arg[r])
      BY <2>1 DEF Knows
    <3>2. QED
      BY <1>7, <2>1, <3>1, SlotMoves
  <2>2. QED
    BY <1>7, <1>14, <2>1 DEF SignUpFind
<1>15. QED
  BY <1>8, <1>9, <1>10, <1>11, <1>12, <1>13, <1>14

(* Steps with a token.                                                     *)
LEMMA OrderlyBan ==
    ASSUME TypeOK, HandlersKnow, NEW r \in Requests, Orderly(pc[r], arg[r]), VerifyBan(r)
    PROVE  Orderly(pc[r], arg[r])'
<1>1. PICK a : a = arg[r]
  OBVIOUS
<1>2. pc[r] = "verify.ban" /\ a \in Arg /\ a.user \in Users /\ a.token \in Tokens
  BY <1>1, SlotMoves DEF VerifyBan, At, HandlersKnow
<1>3. Orderly("verify.ban", a) /\ "verify.ban" \notin Open
  BY <1>1, <1>2 DEF Open
<1>4. pc'[r] = "verify.issue" /\ arg'[r] = a
  BY <1>1, SlotMoves DEF VerifyBan
<1>5. AccountsWith("verify.issue", a)
  BY <1>3, OrderlyOpens
<1>6. UNCHANGED <<rows, stripe, shown>> /\ UNCHANGED <<latest, mailed, used>>
  BY DEF VerifyBan, others
<1>7. AccountsWith(pc[r], arg[r])'
  BY <1>4, <1>5, <1>6, AccountsKept
<1>8. /\ a.token = latest[a.user] /\ \A u \in Users : LinkOf(u, "verify.ban", a)
      /\ \A t \in Tokens : banned[t] > 0 => mailed[t] > 0
  BY <1>3 DEF Orderly, Knows, LinksWith
<1>9. latest[a.user] # NoToken /\ mailed[a.token] > 0
  BY <1>2, <1>8, TokenFields DEF LinkOf
<1>10. \A t \in Tokens : t # a.token => banned'[t] = banned[t]
  BY <1>1, <1>2 DEF VerifyBan, Ban, TypeOK
<1>11. \A u \in Users : u # a.user => latest[u] = NoToken \/ latest[u] # a.token
  BY <1>2, <1>8, <1>9 DEF LinkOf
<1>12. \A u \in Users : LinkOf(u, "verify.issue", a)'
  <2> SUFFICES ASSUME NEW u \in Users, latest[u] # NoToken
               PROVE  /\ latest[u].user = u /\ latest[u].kind = "verify" /\ mailed[latest[u]] > 0
                      /\ u # a.user => (mailed[latest[u]] = 1 /\ used[latest[u]] = 0
                                           => banned'[latest[u]] = 0)
    BY <1>6 DEF LinkOf
  <2>1. /\ latest[u].user = u /\ latest[u].kind = "verify" /\ mailed[latest[u]] > 0
        /\ mailed[latest[u]] = 1 /\ used[latest[u]] = 0 => banned[latest[u]] = 0
    BY <1>8 DEF LinkOf
  <2>2. latest[u] \in Tokens
    BY DEF TypeOK
  <2>3. QED
    BY <1>10, <1>11, <2>1, <2>2
<1>13. \A t \in Tokens : banned'[t] > 0 => mailed'[t] > 0
  BY <1>6, <1>8, <1>9, <1>10
<1>14. LinksWith(pc[r], arg[r])'
  BY <1>4, <1>12, <1>13 DEF LinksWith, LinkOf
<1>15. Knows("verify.issue", a)'
  BY DEF Knows
<1>16. QED
  BY <1>4, <1>7, <1>14, <1>15, OrderlyThere

LEMMA OrderlyIssue ==
    ASSUME TypeOK, HandlersKnow, NEW r \in Requests, Orderly(pc[r], arg[r]), VerifyIssue(r)
    PROVE  Orderly(pc[r], arg[r])'
<1>1. PICK a, b, t : /\ a = arg[r] /\ t = [kind |-> "verify", user |-> arg[r].user, at |-> now]
                     /\ b = [arg[r] EXCEPT !.token = t]
  OBVIOUS
<1>2. pc[r] = "verify.issue" /\ a \in Arg /\ a.user \in Users
  BY <1>1, SlotMoves DEF VerifyIssue, At, HandlersKnow
<1>3. b.user = a.user /\ b.token = t /\ t.user = a.user /\ t.kind = "verify" /\ t \in Tokens
  BY <1>1, <1>2, NewTokens DEF Arg, TypeOK
<1>4. pc'[r] = "verify.mail" /\ arg'[r] = b
  <2>1. pc'[r] = "verify.mail"
    BY SlotMoves DEF VerifyIssue
  <2>2. arg'[r] = b
    BY <1>1 DEF VerifyIssue, TypeOK
  <2>3. QED
    BY <2>1, <2>2
<1>5. AccountsWith("verify.issue", a) /\ LinksWith("verify.issue", a)
  BY <1>1, <1>2 DEF Orderly
<1>6. UNCHANGED <<rows, stripe, shown>> /\ UNCHANGED <<banned, mailed, used>>
  BY DEF VerifyIssue, others
<1>7. AccountsWith("verify.mail", b)
  BY <1>5 DEF AccountsWith
<1>8. AccountsWith(pc[r], arg[r])'
  BY <1>4, <1>6, <1>7, AccountsKept
<1>9. latest'[a.user] = t /\ \A u \in Users : u # a.user => latest'[u] = latest[u]
  BY <1>1, <1>2 DEF VerifyIssue, TypeOK
<1>10. ASSUME NEW u \in Users
       PROVE  LinkOf(u, "verify.mail", b)'
  <2>1. CASE u = a.user
    BY <1>3, <1>9, <2>1 DEF LinkOf
  <2>2. CASE u # a.user
    <3>1. LinkOf(u, "verify.issue", a)
      BY <1>5 DEF LinksWith
    <3>2. QED
      BY <1>6, <1>9, <2>2, <3>1 DEF LinkOf
  <2>3. QED
    BY <2>1, <2>2
<1>11. LinksWith(pc[r], arg[r])'
  <2>1. \A k \in Tokens : banned'[k] > 0 => mailed'[k] > 0
    BY <1>5, <1>6 DEF LinksWith
  <2>2. QED
    BY <1>4, <1>10, <2>1 DEF LinksWith, LinkOf
<1>12. Knows("verify.mail", b)'
  BY <1>3, <1>9 DEF Knows
<1>13. QED
  BY <1>4, <1>8, <1>11, <1>12, OrderlyThere

LEMMA OrderlyMail ==
    ASSUME TypeOK, HandlersKnow, NEW r \in Requests, Orderly(pc[r], arg[r]), Mail(r)
    PROVE  Orderly(pc[r], arg[r])'
<1>1. PICK a, s : a = arg[r] /\ s = pc[r]
  OBVIOUS
<1>2. s \in {"verify.mail", "reset.mail"} /\ a \in Arg /\ a.user \in Users /\ a.token \in Tokens
  BY <1>1, SlotMoves DEF Mail, HandlersKnow
<1>3. AccountsWith(s, a) /\ LinksWith(s, a) /\ Knows(s, a)
  BY <1>1 DEF Orderly
<1>4. pc'[r] = "idle" /\ arg'[r] = NoArg
  BY SlotMoves DEF Mail
<1>5. UNCHANGED <<rows, stripe, shown>> /\ UNCHANGED <<latest, banned, used>>
  BY DEF Mail, others
<1>6. AccountsWith("idle", NoArg)
  BY <1>2, <1>3 DEF AccountsWith
<1>7. AccountsWith(pc[r], arg[r])'
  BY <1>4, <1>5, <1>6, AccountsKept
<1>8. /\ mailed'[a.token] = IF mailed[a.token] = 2 THEN 2 ELSE mailed[a.token] + 1
      /\ \A t \in Tokens : t # a.token => mailed'[t] = mailed[t]
  BY <1>1, <1>2 DEF Mail, TypeOK
<1>9. mailed[a.token] \in 0..2 /\ banned[a.token] \in Nat
  BY <1>2, TimeAssumption DEF TypeOK
<1>10. mailed'[a.token] > 0 /\ (mailed'[a.token] = 1 => banned[a.token] = 0)
  <2>1. banned[a.token] > 0 => mailed[a.token] > 0
    BY <1>2, <1>3 DEF LinksWith
  <2>2. QED
    BY <1>8, <1>9, <2>1
<1>11. ASSUME NEW u \in Users
       PROVE  LinkOf(u, "idle", NoArg)'
  <2> SUFFICES ASSUME latest[u] # NoToken
               PROVE  /\ latest[u].user = u /\ latest[u].kind = "verify" /\ mailed'[latest[u]] > 0
                      /\ mailed'[latest[u]] = 1 /\ used[latest[u]] = 0 => banned[latest[u]] = 0
    BY <1>5 DEF LinkOf
  <2>1. LinkOf(u, s, a) /\ latest[u] \in Tokens
    BY <1>3 DEF LinksWith, TypeOK
  <2>2. latest[u].user = u /\ latest[u].kind = "verify"
    BY <2>1 DEF LinkOf
  <2>3. CASE latest[u] = a.token
    BY <1>10, <2>2, <2>3
  <2>4. CASE latest[u] # a.token
    <3>1. s = "verify.mail" => u # a.user
      BY <1>3, <2>4 DEF Knows
    <3>2. /\ mailed[latest[u]] > 0
          /\ mailed[latest[u]] = 1 /\ used[latest[u]] = 0 => banned[latest[u]] = 0
      BY <1>2, <2>1, <3>1 DEF LinkOf
    <3>3. QED
      BY <1>8, <2>1, <2>2, <2>4, <3>2
  <2>5. QED
    BY <2>3, <2>4
<1>12. LinksWith(pc[r], arg[r])'
  <2>1. \A k \in Tokens : banned'[k] > 0 => mailed'[k] > 0
    BY <1>3, <1>5, <1>8, <1>10 DEF LinksWith
  <2>2. QED
    BY <1>4, <1>11, <2>1 DEF LinksWith, LinkOf
<1>13. Knows("idle", NoArg)'
  BY DEF Knows
<1>14. QED
  BY <1>4, <1>7, <1>12, <1>13, OrderlyThere

LEMMA OrderlyPurge ==
    ASSUME TypeOK, HandlersKnow, NEW r \in Requests, Orderly(pc[r], arg[r]),
           NEW t \in Tokens, TokenPurge(r, t)
    PROVE  Orderly(pc[r], arg[r])'
<1>1. PICK b : b = [Of(t.user) EXCEPT !.token = t]
  OBVIOUS
<1>2. b.token = t /\ b.user = t.user
  BY <1>1 DEF Of, NoArg
<1>3. pc[r] = "idle" /\ pc'[r] = "token.score" /\ arg'[r] = b
  BY <1>1, SlotMoves DEF TokenPurge
<1>4. AccountsWith("token.score", b) /\ LinksWith("token.score", b)
  BY <1>3, OrderlyOpens DEF Open
<1>5. UNCHANGED <<rows, stripe, shown>> /\ UNCHANGED <<latest, mailed, used>>
  BY DEF TokenPurge, others
<1>6. AccountsWith(pc[r], arg[r])'
  BY <1>3, <1>4, <1>5, AccountsKept
<1>7. \A k \in Tokens : banned'[k] = 0 \/ banned'[k] = banned[k]
  BY DEF TokenPurge, TypeOK
<1>8. ASSUME NEW u \in Users
      PROVE  LinkOf(u, "token.score", b)'
  <2>1. LinkOf(u, "token.score", b) /\ latest[u] \in Tokens \cup {NoToken}
    BY <1>4 DEF LinksWith, TypeOK
  <2>2. QED
    BY <1>5, <1>7, <2>1 DEF LinkOf
<1>9. LinksWith(pc[r], arg[r])'
  <2>1. \A k \in Tokens : banned'[k] > 0 => mailed'[k] > 0
    BY <1>4, <1>5, <1>7 DEF LinksWith
  <2>2. QED
    BY <1>3, <1>8, <2>1 DEF LinksWith, LinkOf
<1>10. Knows("token.score", b)'
  BY <1>2, <1>5 DEF Knows, TokenPurge
<1>11. QED
  BY <1>3, <1>6, <1>9, <1>10, OrderlyThere

LEMMA OrderlyAdd ==
    ASSUME TypeOK, HandlersKnow, NEW r \in Requests, Orderly(pc[r], arg[r]), TokenAdd(r)
    PROVE  Orderly(pc[r], arg[r])'
<1>1. PICK a : a = arg[r]
  OBVIOUS
<1>2. pc[r] = "token.add" /\ a \in Arg /\ a.token \in Tokens
  BY <1>1, SlotMoves DEF TokenAdd, At, HandlersKnow
<1>3. PICK s, b : s = pc'[r] /\ b = arg'[r]
  OBVIOUS
<1>4. s \in {"idle", "signup.find", "reset.find"}
  BY <1>3, SlotMoves DEF TokenAdd
<1>5. AccountsWith(s, b) /\ LinksWith(s, b)
  BY <1>2, OrderlyOpens DEF Open
<1>6. UNCHANGED <<rows, stripe, shown>> /\ UNCHANGED <<latest, mailed>>
  BY DEF TokenAdd, others
<1>7. AccountsWith(pc[r], arg[r])'
  BY <1>3, <1>5, <1>6, AccountsKept
<1>8. mailed[a.token] > 0
  BY <1>1, <1>2 DEF Orderly, Knows
<1>9. \/ UNCHANGED <<banned, used>>
      \/ /\ used'[a.token] = used[a.token] + 1
         /\ \A t \in Tokens : t # a.token => banned'[t] = banned[t] /\ used'[t] = used[t]
  BY <1>1, <1>2 DEF TokenAdd, Ban, TypeOK
<1>10. used[a.token] \in Nat
  BY <1>2 DEF TypeOK
<1>11. ASSUME NEW u \in Users
       PROVE  LinkOf(u, s, b)'
  <2>1. LinkOf(u, s, b) /\ latest[u] \in Tokens \cup {NoToken}
    BY <1>5 DEF LinksWith, TypeOK
  <2>2. CASE latest[u] # a.token \/ UNCHANGED <<banned, used>>
    BY <1>6, <1>9, <2>1, <2>2 DEF LinkOf
  <2>3. CASE latest[u] = a.token /\ used'[a.token] = used[a.token] + 1
    <3>1. used'[latest[u]] # 0
      BY <1>10, <2>3
    <3>2. QED
      BY <1>6, <2>1, <3>1 DEF LinkOf
  <2>4. QED
    BY <1>9, <2>2, <2>3
<1>12. LinksWith(pc[r], arg[r])'
  <2>1. \A k \in Tokens : banned'[k] > 0 => mailed'[k] > 0
    BY <1>5, <1>6, <1>8, <1>9 DEF LinksWith
  <2>2. QED
    BY <1>3, <1>11, <2>1 DEF LinksWith, LinkOf
<1>13. Knows(s, b)'
  BY <1>4 DEF Knows
<1>14. QED
  BY <1>3, <1>7, <1>12, <1>13, OrderlyThere

(* Steps with an account.                                                  *)
LEMMA ActiveCounts ==
    ASSUME NEW S \in SUBSET Users, NEW T \in SUBSET S
    PROVE  Cardinality(S) \in Nat /\ Cardinality(T) \in Nat /\ Cardinality(T) <= Cardinality(S)
<1>1. IsFiniteSet(S) /\ IsFiniteSet(T)
  BY FiniteAssumption, FS_Subset
<1>2. QED
  BY <1>1, FS_Subset, FS_CardinalityType

LEMMA OrderlyStripe ==
    ASSUME TypeOK, HandlersKnow, NEW r \in Requests, Orderly(pc[r], arg[r]), SignUpStripe(r)
    PROVE  Orderly(pc[r], arg[r])'
<1>1. PICK a : a = arg[r]
  OBVIOUS
<1>2. pc[r] = "signup.stripe" /\ a \in Arg
  BY <1>1, SlotMoves DEF SignUpStripe, At
<1>3. PICK c \in Customers : /\ stripe' = [stripe EXCEPT ![c] = "live"]
                             /\ arg' = [arg EXCEPT ![r].customer = c]
  BY DEF SignUpStripe
<1>4. PICK b : b = [a EXCEPT !.customer = c]
  OBVIOUS
<1>5. b.user = a.user /\ b.customer = c
  BY <1>2, <1>4 DEF Arg
<1>6. pc'[r] = "signup.user" /\ arg'[r] = b
  <2>1. pc'[r] = "signup.user"
    BY SlotMoves DEF SignUpStripe
  <2>2. arg'[r] = b
    BY <1>1, <1>3, <1>4 DEF TypeOK
  <2>3. QED
    BY <2>1, <2>2
<1>7. AccountsWith("signup.user", b) /\ LinksWith("signup.user", b)
  BY <1>2, OrderlyOpens DEF Open
<1>8. UNCHANGED <<row, customer, cart, shown>> /\ UNCHANGED tokens
  BY DEF SignUpStripe, rows
<1>9. \A d \in Customers : d # c => stripe'[d] = stripe[d]
  BY <1>3 DEF TypeOK
<1>10. AccountsWith(pc[r], arg[r])'
  BY <1>5, <1>6, <1>7, <1>8, <1>9 DEF AccountsWith, Whole, ActiveAreShown, Active
<1>11. LinksWith(pc[r], arg[r])'
  BY <1>6, <1>7, <1>8, LinksKept
<1>12. row[a.user] = "none"
  BY <1>1, <1>2 DEF Orderly, Knows
<1>13. Knows("signup.user", b)'
  BY <1>5, <1>8, <1>12 DEF Knows
<1>14. QED
  BY <1>6, <1>10, <1>11, <1>13, OrderlyThere

LEMMA OrderlyUser ==
    ASSUME TypeOK, HandlersKnow, NEW r \in Requests, Orderly(pc[r], arg[r]), SignUpUser(r)
    PROVE  Orderly(pc[r], arg[r])'
<1>1. PICK a : a = arg[r]
  OBVIOUS
<1>2. pc[r] = "signup.user" /\ a \in Arg /\ a.user \in Users
  BY <1>1, SlotMoves DEF SignUpUser, At, HandlersKnow
<1>3. AccountsWith("signup.user", a) /\ LinksWith("signup.user", a) /\ row[a.user] = "none"
  BY <1>1, <1>2 DEF Orderly, Knows
<1>4. /\ row' = [row EXCEPT ![a.user] = IF a.self THEN "active" ELSE "inactive"]
      /\ Goto(r, "signup.customer") /\ UNCHANGED arg
  BY <1>1, <1>3 DEF SignUpUser
<1>5. pc'[r] = "signup.customer" /\ arg'[r] = a
  BY <1>1, <1>4, SlotMoves
<1>6. UNCHANGED <<customer, cart, stripe, shown>> /\ UNCHANGED tokens
  BY DEF SignUpUser, others
<1>7. customer[a.user] = None /\ a.user \notin cart
  BY <1>2, <1>3 DEF AccountsWith, Whole
<1>8. /\ row'[a.user] = IF a.self THEN "active" ELSE "inactive"
      /\ \A u \in Users : u # a.user => row'[u] = row[u]
  BY <1>2, <1>4 DEF TypeOK
<1>9. Active' = Active
  BY <1>3, <1>6, <1>7, <1>8 DEF Active
<1>10. ActiveAreShown'
  BY <1>3, <1>6, <1>9 DEF AccountsWith, ActiveAreShown
<1>11. AccountsWith(pc[r], arg[r])'
  BY <1>3, <1>5, <1>6, <1>8, <1>10 DEF AccountsWith, Whole
<1>12. LinksWith("signup.customer", a)
  BY <1>3 DEF LinksWith, LinkOf
<1>13. LinksWith(pc[r], arg[r])'
  BY <1>5, <1>6, <1>12, LinksKept
<1>14. Knows("signup.customer", a)'
  BY <1>6, <1>7, <1>8 DEF Knows
<1>15. QED
  BY <1>5, <1>11, <1>13, <1>14, OrderlyThere

LEMMA OrderlyCustomer ==
    ASSUME TypeOK, HandlersKnow, SignUpsPay, NEW r \in Requests, Orderly(pc[r], arg[r]),
           SignUpCustomer(r)
    PROVE  Orderly(pc[r], arg[r])'
<1>1. PICK a : a = arg[r]
  OBVIOUS
<1>2. pc[r] = "signup.customer" /\ a \in Arg /\ a.user \in Users
  BY <1>1, SlotMoves DEF SignUpCustomer, At, HandlersKnow
<1>3. a.customer \in Customers /\ a.customer # None
  BY <1>1, <1>2, NoneAssumption DEF SignUpsPay, Signing
<1>4. AccountsWith("signup.customer", a) /\ LinksWith("signup.customer", a)
  BY <1>1, <1>2 DEF Orderly
<1>5. /\ row[a.user] = IF a.self THEN "active" ELSE "inactive"
      /\ customer[a.user] = None
  BY <1>1, <1>2 DEF Orderly, Knows
<1>6. /\ customer' = [customer EXCEPT ![a.user] = a.customer]
      /\ Goto(r, "signup.cart") /\ UNCHANGED arg
  BY <1>1, <1>5 DEF SignUpCustomer
<1>7. pc'[r] = "signup.cart" /\ arg'[r] = a
  BY <1>1, <1>6, SlotMoves
<1>8. UNCHANGED <<row, cart, stripe, shown>> /\ UNCHANGED tokens
  BY DEF SignUpCustomer, others
<1>9. /\ customer'[a.user] = a.customer
      /\ \A u \in Users : u # a.user => customer'[u] = customer[u]
  BY <1>2, <1>6 DEF TypeOK
<1>10. \A u \in Users : u # a.user => Whole(u)'
  BY <1>4, <1>8, <1>9 DEF AccountsWith, Whole
<1>11. ASSUME NEW c \in Customers, stripe'[c] = "live"
       PROVE  \E u \in Users : customer'[u] = c
  <2>1. CASE c = a.customer
    BY <1>2, <1>9, <2>1
  <2>2. CASE c # a.customer
    <3>1. PICK u \in Users : customer[u] = c
      BY <1>4, <1>8, <1>11, <2>2 DEF AccountsWith
    <3>2. u # a.user
      BY <1>5, <3>1, NoneAssumption
    <3>3. QED
      BY <1>9, <3>1, <3>2
  <2>3. QED
    BY <2>1, <2>2
<1>12. ~a.self => ActiveAreShown'
  <2> SUFFICES ASSUME ~a.self PROVE ActiveAreShown'
    OBVIOUS
  <2>1. Active' = Active
    BY <1>5, <1>8, <1>9 DEF Active
  <2>2. QED
    BY <1>4, <1>8, <2>1 DEF AccountsWith, ActiveAreShown
<1>13. AccountsWith(pc[r], arg[r])'
  BY <1>7, <1>10, <1>11, <1>12 DEF AccountsWith
<1>14. LinksWith("signup.cart", a)
  BY <1>4 DEF LinksWith, LinkOf
<1>15. LinksWith(pc[r], arg[r])'
  BY <1>7, <1>8, <1>14, LinksKept
<1>16. Knows("signup.cart", a)'
  BY <1>3, <1>5, <1>8, <1>9 DEF Knows
<1>17. QED
  BY <1>7, <1>13, <1>15, <1>16, OrderlyThere

LEMMA OrderlyCart ==
    ASSUME TypeOK, HandlersKnow, NEW r \in Requests, Orderly(pc[r], arg[r]), SignUpCart(r)
    PROVE  Orderly(pc[r], arg[r])'
<1>1. PICK a : a = arg[r]
  OBVIOUS
<1>2. pc[r] = "signup.cart" /\ a \in Arg /\ a.user \in Users
  BY <1>1, SlotMoves DEF SignUpCart, At, HandlersKnow
<1>3. AccountsWith("signup.cart", a) /\ LinksWith("signup.cart", a)
  BY <1>1, <1>2 DEF Orderly
<1>4. row[a.user] # "none" /\ customer[a.user] # None
  BY <1>1, <1>2 DEF Orderly, Knows
<1>5. /\ cart' = cart \cup {a.user}
      /\ IF a.self THEN Goto(r, "stream.count") /\ UNCHANGED arg ELSE Finish(r)
  BY <1>1, <1>4 DEF SignUpCart
<1>6. PICK s, b : /\ s = IF a.self THEN "stream.count" ELSE "idle"
                  /\ b = IF a.self THEN a ELSE NoArg
  OBVIOUS
<1>7. pc'[r] = s /\ arg'[r] = b
  BY <1>1, <1>5, <1>6, SlotMoves
<1>8. UNCHANGED <<row, customer, stripe, shown>> /\ UNCHANGED tokens
  BY DEF SignUpCart, others
<1>9. \A u \in Users : Whole(u)'
  BY <1>3, <1>4, <1>5, <1>8 DEF AccountsWith, Whole
<1>10. ~a.self => ActiveAreShown'
  BY <1>3, <1>8 DEF AccountsWith, ActiveAreShown, Active
<1>11. \A c \in Customers : stripe'[c] = "live" => \E u \in Users : customer'[u] = c
  BY <1>3, <1>8 DEF AccountsWith
<1>12. AccountsWith(pc[r], arg[r])'
  BY <1>6, <1>7, <1>9, <1>10, <1>11 DEF AccountsWith
<1>13. LinksWith(s, b)
  BY <1>3 DEF LinksWith, LinkOf
<1>14. LinksWith(pc[r], arg[r])'
  BY <1>7, <1>8, <1>13, LinksKept
<1>15. Knows(s, b)'
  BY <1>6 DEF Knows
<1>16. QED
  BY <1>7, <1>12, <1>14, <1>15, OrderlyThere

LEMMA OrderlySession ==
    ASSUME TypeOK, HandlersKnow, NEW r \in Requests, Orderly(pc[r], arg[r]), SessionSave(r)
    PROVE  Orderly(pc[r], arg[r])'
<1>1. PICK a : a = arg[r]
  OBVIOUS
<1>2. pc[r] \in {"login.save", "logout.save"} /\ a.user \in Users
  BY <1>1 DEF SessionSave, HandlersKnow
<1>3. pc'[r] = "stream.count" /\ arg'[r] = a
  BY <1>1, SlotMoves DEF SessionSave
<1>4. AccountsWith("stream.count", a) /\ LinksWith("stream.count", a)
  BY <1>2, OrderlyOpens DEF Open
<1>5. UNCHANGED <<customer, cart, stripe, shown>> /\ UNCHANGED tokens
  BY DEF SessionSave, others
<1>6. \A u \in Users : row'[u] # "none" <=> row[u] # "none"
  BY <1>1, <1>2 DEF SessionSave, TypeOK
<1>7. AccountsWith(pc[r], arg[r])'
  BY <1>3, <1>4, <1>5, <1>6 DEF AccountsWith, Whole
<1>8. LinksWith(pc[r], arg[r])'
  BY <1>3, <1>4, <1>5, LinksKept
<1>9. Knows("stream.count", a)'
  BY DEF Knows
<1>10. QED
  BY <1>3, <1>7, <1>8, <1>9, OrderlyThere

LEMMA OrderlyCount ==
    ASSUME TypeOK, HandlersKnow, NEW r \in Requests, Orderly(pc[r], arg[r]), StreamCount(r)
    PROVE  Orderly(pc[r], arg[r])'
<1>1. PICK a, b : a = arg[r] /\ b = [arg[r] EXCEPT !.count = Cardinality(Active)]
  OBVIOUS
<1>2. pc[r] = "stream.count" /\ b.count = Cardinality(Active)
  BY <1>1, SlotMoves DEF StreamCount, At, Arg
<1>3. pc'[r] = "stream.emit" /\ arg'[r] = b
  <2>1. pc'[r] = "stream.emit"
    BY SlotMoves DEF StreamCount
  <2>2. arg'[r] = b
    BY <1>1 DEF StreamCount, TypeOK
  <2>3. QED
    BY <2>1, <2>2
<1>4. AccountsWith("stream.count", a) /\ LinksWith("stream.count", a)
  BY <1>1, <1>2 DEF Orderly
<1>5. AccountsWith("stream.emit", b)
  BY <1>4 DEF AccountsWith
<1>6. LinksWith("stream.emit", b)
  BY <1>4 DEF LinksWith, LinkOf
<1>7. Knows("stream.emit", b)
  BY <1>2 DEF Knows
<1>8. QED
  BY <1>3, <1>5, <1>6, <1>7, OrderlyKept DEF Orderly, StreamCount

LEMMA OrderlyEmit ==
    ASSUME TypeOK, HandlersKnow, NEW r \in Requests, Orderly(pc[r], arg[r]), StreamEmit(r)
    PROVE  Orderly(pc[r], arg[r])'
<1>1. PICK a : a = arg[r]
  OBVIOUS
<1>2. pc[r] = "stream.emit"
  BY DEF StreamEmit, At
<1>3. AccountsWith("stream.emit", a) /\ LinksWith("stream.emit", a) /\ a.count = Cardinality(Active)
  BY <1>1, <1>2 DEF Orderly, Knows
<1>4. pc'[r] = "idle" /\ arg'[r] = NoArg
  BY SlotMoves DEF StreamEmit
<1>5. UNCHANGED <<row, customer, cart, stripe>> /\ UNCHANGED tokens
  BY DEF StreamEmit, rows, others
<1>6. ActiveAreShown'
  <2>1. Active' = Active /\ shown' = Cardinality(Active)
    BY <1>1, <1>3, <1>5 DEF StreamEmit, Active
  <2>2. Cardinality(Active) \in Nat
    BY ActiveCounts DEF Active
  <2>3. QED
    BY <2>1, <2>2 DEF ActiveAreShown
<1>7. AccountsWith(pc[r], arg[r])'
  BY <1>3, <1>4, <1>5, <1>6 DEF AccountsWith, Whole
<1>8. LinksWith("idle", NoArg)
  BY <1>3 DEF LinksWith, LinkOf
<1>9. LinksWith(pc[r], arg[r])'
  BY <1>4, <1>5, <1>8, LinksKept
<1>10. Knows("idle", NoArg)'
  BY DEF Knows
<1>11. QED
  BY <1>4, <1>7, <1>9, <1>10, OrderlyThere

LEMMA OrderlyDeleteStripe ==
    ASSUME TypeOK, HandlersKnow, DeletionsOwn, NEW r \in Requests, Orderly(pc[r], arg[r]),
           DeleteStripe(r)
    PROVE  Orderly(pc[r], arg[r])'
<1>1. PICK a : a = arg[r]
  OBVIOUS
<1>2. pc[r] = "delete.stripe" /\ a.customer \in Customers
  BY <1>1 DEF DeleteStripe, At, DeletionsOwn, Deleting
<1>3. customer[a.user] = a.customer
  BY <1>1, <1>2 DEF Orderly, Knows
<1>4. \A t, b : AccountsWith(t, b) /\ LinksWith(t, b)
  BY <1>2, OrderlyOpens DEF Open
<1>5. UNCHANGED rows /\ UNCHANGED tokens /\ UNCHANGED shown
  BY DEF DeleteStripe
<1>6. CASE Finish(r) /\ UNCHANGED <<stripe, halfway>>
  <2>1. Orderly("idle", NoArg)
    BY <1>4 DEF Orderly, Knows
  <2>2. UNCHANGED others
    BY <1>6 DEF others
  <2>3. QED
    BY <1>5, <1>6, <2>1, <2>2, SlotMoves, OrderlyKept
<1>7. CASE stripe' = [stripe EXCEPT ![a.customer] = "deleted"] /\ Goto(r, "delete.destroy") /\ UNCHANGED arg
  <2>1. pc'[r] = "delete.destroy" /\ arg'[r] = a
    BY <1>1, <1>7, SlotMoves
  <2>2. UNCHANGED <<row, customer, cart, shown>>
    BY <1>5 DEF rows
  <2>3. \A c \in Customers : stripe'[c] = "live" => stripe[c] = "live"
    BY <1>7 DEF TypeOK
  <2>4. AccountsWith("delete.destroy", a)
    BY <1>4
  <2>5. AccountsWith(pc[r], arg[r])'
    BY <2>1, <2>2, <2>3, <2>4 DEF AccountsWith, Whole, ActiveAreShown, Active
  <2>6. LinksWith(pc[r], arg[r])'
    BY <1>4, <1>5, <2>1, LinksKept
  <2>7. stripe'[a.customer] = "deleted"
    BY <1>2, <1>7 DEF TypeOK
  <2>8. Knows("delete.destroy", a)'
    BY <1>3, <2>2, <2>7 DEF Knows
  <2>9. QED
    BY <2>1, <2>5, <2>6, <2>8, OrderlyThere
<1>8. QED
  BY <1>1, <1>6, <1>7 DEF DeleteStripe

LEMMA OrderlyDestroy ==
    ASSUME TypeOK, HandlersKnow, NEW r \in Requests, Orderly(pc[r], arg[r]), DeleteDestroy(r)
    PROVE  Orderly(pc[r], arg[r])'
<1>1. PICK a : a = arg[r]
  OBVIOUS
<1>2. pc[r] = "delete.destroy" /\ a.user \in Users
  BY <1>1 DEF DeleteDestroy, At, HandlersKnow
<1>3. customer[a.user] = None \/ stripe[customer[a.user]] = "deleted"
  BY <1>1, <1>2 DEF Orderly, Knows
<1>4. AccountsWith("idle", NoArg) /\ LinksWith("idle", NoArg)
  BY <1>2, OrderlyOpens DEF Open
<1>5. pc'[r] = "idle" /\ arg'[r] = NoArg
  BY SlotMoves DEF DeleteDestroy
<1>6. /\ row'[a.user] = "none" /\ customer'[a.user] = None /\ cart' = cart \ {a.user}
      /\ \A u \in Users : u # a.user => row'[u] = row[u] /\ customer'[u] = customer[u]
  BY <1>1, <1>2 DEF DeleteDestroy, TypeOK
<1>7. UNCHANGED <<stripe, shown>> /\ UNCHANGED tokens
  BY DEF DeleteDestroy
<1>8. \A u \in Users : Whole(u)'
  BY <1>4, <1>6 DEF AccountsWith, Whole
<1>9. ASSUME NEW c \in Customers, stripe'[c] = "live"
      PROVE  \E u \in Users : customer'[u] = c
  <2>1. PICK u \in Users : customer[u] = c
    BY <1>4, <1>7, <1>9 DEF AccountsWith
  <2>2. u # a.user
    BY <1>3, <1>7, <1>9, <2>1, NoneAssumption
  <2>3. QED
    BY <1>6, <2>1, <2>2
<1>10. ActiveAreShown'
  <2>1. Active' \in SUBSET Active /\ Active \in SUBSET Users
    BY <1>6 DEF Active
  <2>2. Cardinality(Active) \in Nat /\ Cardinality(Active') \in Nat
        /\ Cardinality(Active') <= Cardinality(Active)
    <3> HIDE DEF Active
    <3> QED BY <2>1, ActiveCounts
  <2>3. Cardinality(Active) <= shown
    BY <1>4 DEF AccountsWith, ActiveAreShown
  <2>4. shown \in Nat /\ shown' = shown
    <3>1. Cardinality(Users) \in Nat
      BY FiniteAssumption, FS_CardinalityType
    <3>2. QED
      BY <1>7, <3>1 DEF TypeOK
  <2>5. QED
    BY <2>2, <2>3, <2>4 DEF ActiveAreShown
<1>11. AccountsWith(pc[r], arg[r])'
  BY <1>5, <1>8, <1>9, <1>10 DEF AccountsWith
<1>12. LinksWith(pc[r], arg[r])'
  BY <1>4, <1>5, <1>7, LinksKept
<1>13. Knows("idle", NoArg)'
  BY DEF Knows
<1>14. QED
  BY <1>5, <1>11, <1>12, <1>13, OrderlyThere

LEMMA OrderlyStep ==
    ASSUME IInv, NEW r \in Requests, Orderly(pc[r], arg[r]), Arrive(r) \/ Continue(r)
    PROVE  Orderly(pc[r], arg[r])'
<1>1. TypeOK /\ HandlersKnow /\ SignUpsPay /\ DeletionsOwn
  BY DEF IInv
<1> DEFINE Good == Orderly(pc[r], arg[r])'
<1> SUFFICES Good
  OBVIOUS
<1>2. CASE \E u \in Users : \/ VerifyFind(r, u) \/ ResetRequest(r, u) \/ Register(r, u)
                            \/ LoginFind(r, u) \/ LogoutFind(r, u) \/ DeleteFind(r, u)
  BY <1>1, <1>2, OrderlyLooks
<1>3. ASSUME NEW t \in Tokens, TokenPurge(r, t)
      PROVE  Good
  BY <1>1, <1>3, OrderlyPurge
<1>4. CASE VerifyLast(r) \/ TokenScore(r) \/ ResetFind(r) \/ SignUpFind(r)
  BY <1>1, <1>4, OrderlyLooks
<1>5. CASE VerifyBan(r) \/ VerifyIssue(r) \/ Mail(r) \/ TokenAdd(r)
  BY <1>1, <1>5, OrderlyBan, OrderlyIssue, OrderlyMail, OrderlyAdd
<1>6. CASE SignUpStripe(r) \/ SignUpUser(r) \/ SignUpCustomer(r) \/ SignUpCart(r)
  BY <1>1, <1>6, OrderlyStripe, OrderlyUser, OrderlyCustomer, OrderlyCart
<1>7. CASE SessionSave(r) \/ StreamCount(r) \/ StreamEmit(r)
  BY <1>1, <1>7, OrderlySession, OrderlyCount, OrderlyEmit
<1>8. CASE DeleteStripe(r) \/ DeleteDestroy(r)
  BY <1>1, <1>8, OrderlyDeleteStripe, OrderlyDestroy
<1> HIDE DEF Good
<1>9. QED
  BY <1>2, <1>3, <1>4, <1>5, <1>6, <1>7, <1>8 DEF Arrive, Continue

(* A handler alone finds nothing open but what it has left open itself.    *)
LEMMA OrderBefore ==
    ASSUME OrderInv, alone, NEW r \in Requests, \A q \in Requests \ {r} : pc[q] = "idle",
           pc[r] # "idle" \/ Busy = {}
    PROVE  Orderly(pc[r], arg[r])
<1>1. CASE pc[r] # "idle"
  BY <1>1 DEF OrderInv, Busy
<1>2. CASE pc[r] = "idle"
  <2>1. Orderly("idle", NoArg) /\ "idle" \notin Open /\ pc[r] \notin Knowing
    BY <1>2 DEF OrderInv, Open, Knowing
  <2>2. QED
    BY <2>1, OrderlyOpens, KnowsNothing
<1>3. QED
  BY <1>1, <1>2

LEMMA OrderStep == IInv /\ IInv' /\ OrderInv /\ [Next]_vars => OrderInv'
<1> SUFFICES ASSUME IInv, IInv', OrderInv, [Next]_vars, alone' PROVE OrderInv'
  BY DEF OrderInv
<1>1. TypeOK /\ HandlersKnow /\ Solitude /\ Solitude'
  BY DEF IInv
<1>2. ASSUME NEW r \in Requests, Arrive(r) \/ Continue(r), alone
      PROVE  OrderInv'
  <2>1. Elsewhere(r)
    BY <1>1, <1>2, Steppers
  <2>2. \A q \in Requests \ {r} : pc[q] = "idle"
    <3> SUFFICES ASSUME NEW q \in Requests, q # r, pc[q] # "idle" PROVE FALSE
      OBVIOUS
    <3>1. pc'[q] # "idle" /\ q \in Busy /\ q \in Busy'
      BY <2>1 DEF Elsewhere, Busy
    <3>2. pc[r] = "idle"
      BY <1>1, <1>2, <3>1 DEF Solitude, Busy
    <3>3. pc'[r] # "idle"
      BY <1>1, <1>2, <3>2 DEF Arrive, Continue, VerifyFind, ResetRequest, Register, LoginFind,
         LogoutFind, DeleteFind, TokenPurge, VerifyLast, VerifyBan, VerifyIssue, Mail, TokenScore,
         TokenAdd, ResetFind, SignUpFind, SignUpStripe, SignUpUser, SignUpCustomer, SignUpCart,
         SessionSave, StreamCount, StreamEmit, DeleteStripe, DeleteDestroy, At, Begin, TypeOK
    <3>4. r \in Busy'
      BY <3>3 DEF Busy
    <3>5. QED
      BY <1>1, <3>1, <3>4 DEF Solitude
  <2>3. pc[r] # "idle" \/ Busy = {}
    BY <2>2 DEF Busy
  <2>4. Orderly(pc[r], arg[r])'
    <3>1. Orderly(pc[r], arg[r])
      BY <1>2, <2>2, <2>3, OrderBefore
    <3>2. QED
      BY <1>2, <3>1, OrderlyStep
  <2>5. \A q \in Busy' : q = r
    BY <2>1, <2>2 DEF Busy, Elsewhere
  <2>6. \A q \in Busy' : Orderly(pc[q], arg[q])'
    BY <2>4, <2>5
  <2>7. Busy' = {} => Orderly("idle", NoArg)'
    <3> SUFFICES ASSUME Busy' = {} PROVE Orderly("idle", NoArg)'
      OBVIOUS
    <3>1. pc'[r] = "idle"
      BY DEF Busy
    <3>2. QED
      BY <2>4, <3>1 DEF Orderly, AccountsWith, LinksWith, LinkOf, Knows
  <2>8. QED
    BY <2>6, <2>7 DEF OrderInv
<1>3. CASE UNCHANGED <<rows, tokens, others, shown, alone, pc, arg>>
  <2>1. /\ row' = row /\ customer' = customer /\ cart' = cart /\ stripe' = stripe
        /\ latest' = latest /\ banned' = banned /\ mailed' = mailed /\ used' = used
        /\ shown' = shown /\ alone' = alone /\ pc' = pc /\ arg' = arg
    BY <1>3 DEF rows, tokens, others
  <2>2. \A s, a : Orderly(s, a) => Orderly(s, a)'
    BY <2>1 DEF Orderly, AccountsWith, LinksWith, LinkOf, Knows, Whole, ActiveAreShown, Active
  <2>3. QED
    BY <2>1, <2>2 DEF OrderInv, Busy
<1>4. QED
  BY <1>2, <1>3 DEF Next, Step, Tick, vars

LEMMA OrderInit == Init => OrderInv
<1> SUFFICES ASSUME Init PROVE OrderInv
  OBVIOUS
<1> USE DEF Init
<1>1. Active = {} /\ Busy = {}
  BY DEF Active, Busy
<1>2. ActiveAreShown
  BY <1>1, FS_EmptySet DEF ActiveAreShown
<1>3. AccountsWith("idle", NoArg)
  BY <1>2 DEF AccountsWith, Whole
<1>4. LinksWith("idle", NoArg) /\ Knows("idle", NoArg)
  BY DEF LinksWith, LinkOf, Knows
<1>5. QED
  BY <1>1, <1>3, <1>4 DEF OrderInv, Orderly

(* While handlers run one at a time and none has failed, all that is ever   *)
(* out of order is what the steps the handler still has to take will mend.  *)
THEOREM OrderInvariance == Spec => []OrderInv
<1>1. OrderInv /\ IInv /\ IInv' /\ [Next]_vars => OrderInv'
  BY OrderStep
<1>2. QED
  BY <1>1, OrderInit, Invariance, PTL DEF Spec

(* Between handlers that run one at a time an account is whole or absent,   *)
(* no customer of Stripe's is left over, administrators are not shown fewer *)
(* active customers than there are, and a link that was mailed once and is  *)
(* neither replaced nor used is not kept out: whatever sequence of sign-ups,*)
(* logins, deletions and requests for tokens comes before.                  *)
THEOREM AccountsInOrder == Spec => []InOrder
<1>1. OrderInv => InOrder
  <2> SUFFICES ASSUME Orderly("idle", NoArg)
               PROVE  AccountsAreWhole /\ NothingIsLeftOver /\ ActiveAreShown /\ LatestLinksWork
    BY DEF OrderInv, InOrder
  <2>1. AccountsAreWhole /\ NothingIsLeftOver /\ ActiveAreShown
    BY DEF Orderly, AccountsWith, Whole, AccountsAreWhole, NothingIsLeftOver
  <2>2. LatestLinksWork
    BY DEF Orderly, LinksWith, LinkOf, LatestLinksWork
  <2>3. QED
    BY <2>1, <2>2
<1>2. QED
  BY <1>1, OrderInvariance, PTL

=============================================================================
