----------------------------- MODULE ChatProofs -----------------------------
(***************************************************************************)
(* What is proved of the chat. The first half holds however listeners      *)
(* interleave and wherever the process dies (IInv); the second while       *)
(* listeners run one at a time (Solitude, OrderInv), for the sockets and   *)
(* groups (Linked...) and for the sessions of support (Served...) apart,   *)
(* since no step writes variables of both but for pc and arg.              *)
(***************************************************************************)
EXTENDS ChatProperties, FiniteSetTheorems, WellFoundedInduction, SequenceTheorems, TLAPS

(* A step moves one slot, and the others rest; or the process dies.        *)
Rests(r) == pc'[r] = pc[r] /\ arg'[r] = arg[r]
Moves(r, step) == pc'[r] = step /\ \A s \in Requests \ {r} : Rests(s)

LEMMA BeginMoves ==
    ASSUME SocketsOK, NEW r \in Requests, NEW a, NEW step, Begin(r, a, step)
    PROVE  pc[r] = "idle" /\ Moves(r, step) /\ arg'[r] = a
  BY DEF SocketsOK, Begin, Moves, Rests

LEMMA GotoMoves ==
    ASSUME SocketsOK, NEW r \in Requests, NEW step, Goto(r, step)
    PROVE  Moves(r, step) /\ arg'[r] = arg[r]
  BY DEF SocketsOK, Goto, Moves, Rests

LEMMA FinishMoves ==
    ASSUME SocketsOK, NEW r \in Requests, Finish(r)
    PROVE  Moves(r, "idle")
  BY DEF SocketsOK, Finish, Moves, Rests

(* Records, once.                                                          *)
LEMMA Arguments ==
    ASSUME SocketsOK, NEW r \in Requests
    PROVE  /\ NoArg \in Arg /\ arg[r] \in Arg
           /\ arg[r].user \in Users \cup {None} /\ arg[r].peer \in Users \cup {None}
           /\ arg[r].socket \in 0..Connects /\ arg[r].group \in Groups \cup {None}
           /\ arg[r].room \in Rooms \cup {None} /\ arg[r].job \in Jobs \cup {None}
           /\ arg[r].ticket \in 0..Tickets
  BY BoundsAssumption DEF SocketsOK, Arg, NoArg

(* pc and arg keep their types.                                            *)
SlotsOK == pc \in [Requests -> Steps] /\ arg \in [Requests -> Arg]

LEMMA SlotsBegin ==
    ASSUME SlotsOK, NEW r \in Requests, NEW a \in Arg, NEW step \in Steps, Begin(r, a, step)
    PROVE  SlotsOK'
  BY DEF SlotsOK, Begin

LEMMA SlotsGoto ==
    ASSUME SlotsOK, NEW r \in Requests, NEW step \in Steps, Goto(r, step)
    PROVE  SlotsOK'
  BY DEF SlotsOK, Goto

LEMMA SlotsFinish ==
    ASSUME SlotsOK, NEW r \in Requests, Finish(r)
    PROVE  SlotsOK'
<1>1. NoArg \in Arg
  BY BoundsAssumption DEF Arg, NoArg
<1>2. "idle" \in Steps
  BY DEF Steps
<1>3. QED
  BY <1>1, <1>2 DEF SlotsOK, Finish

(* The least ticket of a room is one of its tickets.                       *)
LEMMA Least == ASSUME NEW S \in SUBSET Nat, S # {} PROVE \E x \in S : \A y \in S : x <= y
<1> DEFINE R == {p \in Nat \X Nat : p[1] < p[2]}
<1>1. IsWellFoundedOn(OpToRel(<, Nat), Nat)
  BY NatLessThanWellFounded
<1>2. OpToRel(<, Nat) = R
  BY DEF OpToRel
<1>3. IsWellFoundedOn(R, Nat)
  BY <1>1, <1>2
<1> HIDE DEF R
<1>4. PICK x \in S : \A y \in S : ~ (<<y, x>> \in R)
  BY <1>3, WFMin
<1> USE DEF R
<1>5. ASSUME NEW y \in S PROVE x <= y
  <2>1. x \in Nat /\ y \in Nat /\ ~ (<<y, x>> \in R)
    BY <1>4
  <2>2. ~ (y < x)
    BY <2>1
  <2>3. QED
    BY <2>1, <2>2
<1>6. QED
  BY <1>5

LEMMA FirstIsOne ==
    ASSUME NEW m, Len(tickets) \in Nat, DOMAIN tickets = 1..Len(tickets), TicketsOf(m) # {}
    PROVE  FirstOf(TicketsOf(m)) \in 1..Len(tickets)
<1>1. TicketsOf(m) \in SUBSET Nat /\ TicketsOf(m) \subseteq 1..Len(tickets)
  BY DEF TicketsOf
<1> HIDE DEF TicketsOf
<1>2. \E t \in TicketsOf(m) : \A o \in TicketsOf(m) : t <= o
  BY <1>1, Least
<1>3. FirstOf(TicketsOf(m)) \in TicketsOf(m)
  BY <1>2 DEF FirstOf
<1>4. QED
  BY <1>1, <1>3

LEMMA InitInvariant == Init => IInv
<1> SUFFICES ASSUME Init PROVE IInv
  OBVIOUS
<1> USE NoneAssumption, BoundsAssumption DEF Init, SocketsInit, GroupsInit, SupportInit
<1>1. SocketsOK
  BY DEF SocketsOK, Arg, NoArg, Steps
<1>2. GroupsOK
  BY DEF GroupsOK
<1>3. SupportOK
  BY EmptySeq DEF SupportOK
<1>4. HandlersKnow
  BY DEF HandlersKnow, Knows, At, OfSockets, OfGroups, OfContact, OfReply, OfSaying, OfTickets
<1>5. NothingIsForgotten
  BY DEF NothingIsForgotten, ContactsCount, RowsAreFound
<1>6. QED
  BY <1>1, <1>2, <1>3, <1>4, <1>5 DEF IInv, TypeOK

-----------------------------------------------------------------------------
(* What never goes back.                                                   *)
Grows ==
    /\ \A u \in Users, g \in Groups : Found(u, g) => Found(u, g)'
    /\ \A m \in Rooms : TicketsOf(m) # {} => TicketsOf(m)' # {}
    /\ Len(tickets) \in Nat /\ Len(tickets)' \in Nat /\ Len(tickets) <= Len(tickets)'

LEMMA TicketsTyped == SupportOK => Len(tickets) \in Nat /\ DOMAIN tickets = 1..Len(tickets)
  BY LenProperties DEF SupportOK

LEMMA GrowsBySets ==
    ASSUME SupportOK, UNCHANGED tickets,
           \A u \in Users, g \in Groups : Found(u, g) => Found(u, g)'
    PROVE  Grows
  BY TicketsTyped DEF Grows, TicketsOf

LEMMA GrowsByNothing ==
    ASSUME SupportOK, UNCHANGED <<tickets, groupsOf, gone, deaths>>
    PROVE  Grows
  BY GrowsBySets DEF Found

LEMMA KnowsKept == ASSUME HandlersKnow, Grows, NEW s \in Requests, Rests(s) PROVE Knows(s)'
<1>1. Knows(s)
  BY DEF HandlersKnow
<1>2. pc'[s] = pc[s] /\ arg'[s] = arg[s]
  BY DEF Rests
<1>3. (At(s, "reply.unstamp") => TicketsOf(arg[s].room) # {})'
  <2> SUFFICES ASSUME At(s, "reply.unstamp") PROVE (TicketsOf(arg[s].room) # {})'
    BY <1>2 DEF At
  <2>1. PICK m \in Rooms : m = arg[s].room
    BY <1>1 DEF Knows, At, OfReply
  <2>2. TicketsOf(m)' # {}
    BY <1>1, <2>1 DEF Knows, Grows
  <2>3. QED
    BY <1>2, <2>1, <2>2 DEF TicketsOf
<1>4. (pc[s] \in {"add.socket", "add.row"} => Found(arg[s].peer, arg[s].group))'
  <2> SUFFICES ASSUME pc[s] \in {"add.socket", "add.row"}
               PROVE  Found(arg[s].peer, arg[s].group)'
    BY <1>2
  <2>1. PICK u \in Users, g \in Groups : u = arg[s].peer /\ g = arg[s].group
    BY <1>1 DEF Knows, OfGroups
  <2>2. Found(u, g)'
    BY <1>1, <2>1 DEF Knows, Grows
  <2>3. QED
    BY <1>2, <2>1, <2>2 DEF Found
<1>5. (pc[s] \in OfTickets => arg[s].ticket \in 1..Len(tickets))'
  BY <1>1, <1>2 DEF Knows, Grows
<1>6. QED
  BY <1>1, <1>2, <1>3, <1>4, <1>5 DEF Knows, At

LEMMA SlotStep ==
    ASSUME HandlersKnow, Grows, NEW r \in Requests, NEW step, Moves(r, step), Knows(r)'
    PROVE  HandlersKnow'
  BY KnowsKept DEF HandlersKnow, Moves

LEMMA ContactsKept ==
    ASSUME SupportOK, ContactsCount, Grows, UNCHANGED <<contacted, stamped>>
    PROVE  ContactsCount'
  BY DEF SupportOK, ContactsCount, Grows

LEMMA RowsKept ==
    ASSUME GroupsOK, RowsAreFound, Grows, UNCHANGED memberOf,
           \A r \in Requests : At(r, "create.sadd") => Rests(r)
    PROVE  RowsAreFound'
<1> SUFFICES ASSUME NEW p \in memberOf
             PROVE  \/ (p[2] \in groupsOf[p[1]] \/ p \in gone \/ deaths > 0)'
                    \/ \E r \in Requests : (At(r, "create.sadd") /\ arg[r].group = p[2])'
  BY DEF RowsAreFound
<1>1. p[1] \in Users /\ p[2] \in Groups /\ p = <<p[1], p[2]>>
  BY DEF GroupsOK, Pairs
<1>2. CASE Found(p[1], p[2])
  BY <1>1, <1>2 DEF Grows, Found
<1>3. CASE \E r \in Requests : At(r, "create.sadd") /\ arg[r].group = p[2]
  BY <1>3 DEF At, Rests
<1>4. QED
  BY <1>1, <1>2, <1>3 DEF RowsAreFound, Found

(* A step of a handler that is not about to write the sets of a new group, *)
(* and that leaves rows of groups and contacts alone.                      *)
LEMMA QuietStep ==
    ASSUME IInv, TypeOK', Grows, NEW r \in Requests, NEW step, Moves(r, step), Knows(r)',
           ~At(r, "create.sadd"), UNCHANGED <<memberOf, contacted, stamped>>
    PROVE  IInv'
<1>1. HandlersKnow'
  BY SlotStep DEF IInv
<1>2. ContactsCount'
  BY ContactsKept DEF IInv, TypeOK, NothingIsForgotten
<1>3. RowsAreFound'
  BY RowsKept DEF IInv, TypeOK, NothingIsForgotten, Moves
<1>4. QED
  BY <1>1, <1>2, <1>3 DEF IInv, NothingIsForgotten

LEMMA KnowsNothing == ASSUME NEW r \in Requests, pc[r] = "idle" PROVE Knows(r)
  BY DEF Knows, At, OfSockets, OfGroups, OfContact, OfReply, OfSaying, OfTickets

(* The process dies: nobody is left to know anything.                      *)
LEMMA DieStep ==
    ASSUME IInv, Die, Stalled, UNCHANGED <<groupVars, sessions, entry, jobFor, histories>>,
           alone' \in BOOLEAN
    PROVE  IInv'
<1>1. SocketsOK /\ GroupsOK /\ SupportOK /\ ContactsCount
  BY DEF IInv, TypeOK, NothingIsForgotten
<1>2. deaths' > 0 /\ deaths' \in 0..Deaths
  BY <1>1, BoundsAssumption DEF Die, SocketsOK
<1>3. SocketsOK'
  <2>1. NoArg \in Arg /\ "idle" \in Steps
    BY BoundsAssumption DEF Arg, NoArg, Steps
  <2>2. QED
    BY <1>1, <1>2, <2>1 DEF Die, SocketsOK
<1>4. GroupsOK' /\ SupportOK'
  BY <1>1 DEF GroupsOK, SupportOK, Stalled, groupVars, sessions, histories
<1>5. HandlersKnow'
  BY DEF Die, HandlersKnow, Knows, At, OfSockets, OfGroups, OfContact, OfReply, OfSaying, OfTickets
<1>6. NothingIsForgotten'
  <2>1. ContactsCount'
    BY <1>1 DEF ContactsCount, TicketsOf, sessions, histories
  <2>2. QED
    BY <1>2, <2>1 DEF NothingIsForgotten, RowsAreFound
<1>7. QED
  BY <1>3, <1>4, <1>5, <1>6 DEF IInv, TypeOK

-----------------------------------------------------------------------------
(* What pc and arg are after a step of the handler in slot r.              *)
LEMMA SocketsSlots == SocketsOK => SlotsOK
  BY DEF SocketsOK, SlotsOK

LEMMA SocketsTyped ==
    ASSUME SocketsOK, alone' \in BOOLEAN, SlotsOK',
           UNCHANGED <<connections, groups>>
    PROVE  SocketsOK'
  BY DEF SocketsOK, SlotsOK, connections, groups

LEMMA GroupsTyped == ASSUME GroupsOK, UNCHANGED groupVars PROVE GroupsOK'
  BY DEF GroupsOK, groupVars

LEMMA SupportTyped == ASSUME SupportOK, UNCHANGED supportVars PROVE SupportOK'
  BY DEF SupportOK, supportVars, sessions, queue, histories

LEMMA SocketsStep ==
    ASSUME IInv, alone' \in BOOLEAN, NEW r \in Requests,
           SocketsArrive(r) \/ SocketsContinue(r), UNCHANGED <<groupVars, supportVars>>
    PROVE  IInv'
<1>1. SocketsOK /\ GroupsOK /\ SupportOK /\ SlotsOK /\ HandlersKnow
  BY SocketsSlots DEF IInv, TypeOK
<1>2. GroupsOK' /\ SupportOK'
  BY <1>1, GroupsTyped, SupportTyped
<1>3. UNCHANGED <<tickets, groupsOf, gone, deaths, memberOf, contacted, stamped>>
  BY DEF SocketsArrive, SocketsContinue, Connect, Disconnect, InitSet, InitGroups, ByeDelete,
         groupVars, supportVars, sessions, histories, groups
<1>4. Grows
  BY <1>1, <1>3, GrowsByNothing
<1>5. ASSUME NEW step, Moves(r, step), Knows(r)', ~At(r, "create.sadd"), SocketsOK'
      PROVE  IInv'
  BY <1>2, <1>3, <1>4, <1>5, QuietStep DEF TypeOK
<1>6. ASSUME NEW u \in Users, NEW s \in Sockets, NEW step \in {"init.set", "bye.delete"},
             Begin(r, [NoArg EXCEPT !.user = u, !.socket = s], step)
      PROVE  Moves(r, step) /\ Knows(r)' /\ ~At(r, "create.sadd") /\ SlotsOK'
  <2> DEFINE a == [NoArg EXCEPT !.user = u, !.socket = s]
  <2>1. a \in Arg /\ a.user = u
    <3>1. s \in 0..Connects
      BY BoundsAssumption DEF Sockets
    <3>2. NoArg \in Arg
      BY <1>1, Arguments
    <3>3. QED
      BY <3>1, <3>2 DEF Arg
  <2>0. a.socket = s
    BY DEF NoArg
  <2> HIDE DEF a
  <2>2. pc[r] = "idle" /\ Moves(r, step) /\ arg'[r] = a
    BY <1>1, <1>6, BeginMoves DEF a
  <2>3. SlotsOK'
    BY <1>1, <1>6, <2>1, SlotsBegin DEF Steps, a
  <2>4. Knows(r)'
    BY <2>0, <2>1, <2>2 DEF Knows, Moves, At, OfSockets, OfGroups, OfContact, OfReply, OfSaying,
                            OfTickets
  <2>5. QED
    BY <2>2, <2>3, <2>4 DEF At
<1>7. ASSUME NEW u \in Users, Connect(r, u)
      PROVE  IInv'
  <2>1. opened[u] + 1 \in Sockets /\ opened' \in [Users -> 0..Connects]
    BY <1>1, <1>7, BoundsAssumption DEF Connect, SocketsOK, Sockets
  <2>2. \E step \in {"init.set", "bye.delete"} :
            Begin(r, [NoArg EXCEPT !.user = u, !.socket = opened[u] + 1], step)
    BY <1>7 DEF Connect
  <2>3. SlotsOK'
    BY <1>6, <2>1, <2>2
  <2>4. SocketsOK'
    BY <1>1, <1>7, <2>1, <2>3 DEF Connect, SocketsOK, SlotsOK
  <2>5. QED
    BY <1>5, <1>6, <2>1, <2>2, <2>4
<1>8. ASSUME NEW u \in Users, NEW s \in Sockets, Disconnect(r, u, s)
      PROVE  IInv'
  <2>1. Begin(r, [NoArg EXCEPT !.user = u, !.socket = s], "bye.delete")
    BY <1>8 DEF Disconnect
  <2>2. Moves(r, "bye.delete") /\ Knows(r)' /\ ~At(r, "create.sadd") /\ SlotsOK'
    BY <1>6, <2>1
  <2>3. SocketsOK'
    BY <1>1, <1>8, <2>2 DEF Disconnect, SocketsOK, SlotsOK
  <2>4. QED
    BY <1>5, <2>2, <2>3
<1>9. CASE InitSet(r)
  <2>1. Goto(r, "init.groups") /\ arg[r].user \in Users /\ arg[r].socket \in Sockets
    BY <1>1, <1>9 DEF InitSet, HandlersKnow, Knows, At, OfSockets
  <2>2. Moves(r, "init.groups") /\ arg'[r] = arg[r]
    BY <1>1, <2>1, GotoMoves
  <2>3. SlotsOK'
    BY <1>1, <2>1, SlotsGoto DEF Steps
  <2>4. Knows(r)' /\ ~At(r, "create.sadd")
    BY <1>9, <2>1, <2>2 DEF InitSet, Knows, Moves, At, OfSockets, OfGroups, OfContact, OfReply,
                            OfSaying, OfTickets
  <2>5. arg[r].socket \in 0..Connects
    BY <1>1, Arguments
  <2>6. SocketsOK'
    BY <1>1, <1>9, <2>3, <2>5 DEF InitSet, SocketsOK, SlotsOK, groups
  <2>7. QED
    BY <1>5, <2>2, <2>4, <2>6
<1>10. CASE InitGroups(r) \/ ByeDelete(r)
  <2>1. Finish(r) /\ ~At(r, "create.sadd")
    BY <1>10 DEF InitGroups, ByeDelete, At
  <2>2. Moves(r, "idle") /\ SlotsOK'
    BY <1>1, <2>1, FinishMoves, SlotsFinish
  <2>3. Knows(r)'
    BY <2>2 DEF Moves, Knows, At, OfSockets, OfGroups, OfContact, OfReply, OfSaying, OfTickets
  <2>4. arg[r].user \in Users /\ arg[r].socket \in Sockets
    BY <1>1, <1>10 DEF InitGroups, ByeDelete, HandlersKnow, Knows, At, OfSockets
  <2>5. SocketsOK'
    <3>1. CASE InitGroups(r)
      <4>1. open' \in [Users -> SUBSET Sockets] /\ joined' \in [Users -> [Sockets -> SUBSET Groups]]
        <5> PICK u \in Users, s \in Sockets : u = arg[r].user /\ s = arg[r].socket
          BY <2>4
        <5>1. CASE UNCHANGED <<open, joined>>
          BY <1>1, <5>1 DEF SocketsOK
        <5>2. CASE /\ open' = [open EXCEPT ![u] = @ \cup {s}]
                   /\ joined' = [joined EXCEPT ![u][s] = groupsOf[u]]
          BY <1>1, <5>2 DEF SocketsOK
        <5>3. QED
          BY <3>1, <5>1, <5>2 DEF InitGroups
      <4>2. QED
        BY <1>1, <3>1, <2>2, <4>1 DEF InitGroups, SocketsOK, SlotsOK
    <3>2. CASE ByeDelete(r)
      <4>1. 0 \in 0..Connects
        BY BoundsAssumption
      <4>2. registry' \in [Users -> 0..Connects]
        BY <1>1, <3>2, <4>1 DEF ByeDelete, SocketsOK
      <4>3. QED
        BY <1>1, <3>2, <2>2, <4>2 DEF ByeDelete, SocketsOK, SlotsOK, groups
    <3>3. QED
      BY <1>10, <3>1, <3>2
  <2>6. QED
    BY <1>5, <2>1, <2>2, <2>3, <2>5
<1>11. QED
  BY <1>7, <1>8, <1>9, <1>10 DEF SocketsArrive, SocketsContinue


-----------------------------------------------------------------------------
RowIsFound(p) ==
    \/ p[2] \in groupsOf[p[1]] \/ p \in gone
    \/ \E r \in Requests : At(r, "create.sadd") /\ arg[r].group = p[2]
    \/ deaths > 0

(* A row that was found is found after a step, unless it rested on the     *)
(* handler that has taken it.                                              *)
LEMMA RowKept ==
    ASSUME GroupsOK, RowsAreFound, Grows, NEW r \in Requests, NEW step, Moves(r, step),
           NEW p \in memberOf, ~At(r, "create.sadd") \/ arg[r].group # p[2]
    PROVE  RowIsFound(p)'
<1>1. p[1] \in Users /\ p[2] \in Groups /\ p = <<p[1], p[2]>>
  BY DEF GroupsOK, Pairs
<1>2. CASE Found(p[1], p[2])
  BY <1>1, <1>2 DEF Grows, Found, RowIsFound
<1>3. CASE \E q \in Requests : At(q, "create.sadd") /\ arg[q].group = p[2]
  BY <1>3 DEF At, Moves, Rests, RowIsFound
<1>4. QED
  BY <1>1, <1>2, <1>3 DEF RowsAreFound, Found

LEMMA RowsStep ==
    ASSUME IInv, TypeOK', Grows, NEW r \in Requests, NEW step, Moves(r, step), Knows(r)',
           UNCHANGED <<contacted, stamped>>, \A p \in memberOf' : RowIsFound(p)'
    PROVE  IInv'
<1>1. HandlersKnow'
  BY SlotStep DEF IInv
<1>2. ContactsCount'
  BY ContactsKept DEF IInv, TypeOK, NothingIsForgotten
<1>3. QED
  BY <1>1, <1>2 DEF IInv, NothingIsForgotten, RowsAreFound, RowIsFound

GroupEntries == {"create.room", "leave.srem", "add.sadd", "delete.srem"}

GroupBegun(r, a, step) ==
    /\ Begin(r, a, step)
    /\ a.user \in Users /\ a.group \in Groups
    /\ step = "add.sadd" => a.peer \in Users

LEMMA GroupsBegin ==
    ASSUME IInv, alone' \in BOOLEAN, NEW r \in Requests, GroupsArrive(r), UNCHANGED supportVars
    PROVE  IInv'
<1>1. SocketsOK /\ GroupsOK /\ SupportOK /\ SlotsOK
  BY SocketsSlots DEF IInv, TypeOK
<1>2. UNCHANGED <<connections, groupsOf, twice, groupVars, supportVars>>
  BY DEF GroupsArrive, CreateBegin, LeaveBegin, AddBegin, DeleteBegin, groups
<1>3. GroupsOK' /\ SupportOK' /\ Grows /\ UNCHANGED <<memberOf, contacted, stamped>>
  BY <1>1, <1>2, GroupsTyped, SupportTyped, GrowsByNothing
  DEF connections, groupVars, supportVars, sessions, histories
<1>4. joined' \in [Users -> [Sockets -> SUBSET Groups]]
  <2>1. ASSUME NEW u \in Users, NEW s, NEW g, joined' = [joined EXCEPT ![u][s] = @ \ {g}]
        PROVE  joined' \in [Users -> [Sockets -> SUBSET Groups]]
    BY <1>1, <2>1 DEF SocketsOK
  <2>2. QED
    BY <1>1, <2>1 DEF GroupsArrive, CreateBegin, LeaveBegin, AddBegin, DeleteBegin, groups,
                      SocketsOK
<1>5. PICK step \in GroupEntries : \E a \in Arg : GroupBegun(r, a, step)
  <2>1. NoArg \in Arg
    BY <1>1, Arguments
  <2>2. ASSUME NEW u \in Users, NEW g \in Groups, NEW s \in Sockets, CreateBegin(r, u, s, g)
        PROVE  \E a \in Arg : GroupBegun(r, a, "create.room")
    <3> DEFINE a == [NoArg EXCEPT !.user = u, !.socket = s, !.group = g]
    <3>1. s \in 0..Connects
      BY BoundsAssumption DEF Sockets
    <3>2. a \in Arg /\ a.user = u /\ a.group = g
      BY <2>1, <3>1 DEF Arg
    <3>3. Begin(r, a, "create.room")
      BY <2>2 DEF CreateBegin
    <3> HIDE DEF a
    <3>4. QED
      BY <3>2, <3>3 DEF GroupBegun
  <2>3. ASSUME NEW u \in Users, NEW g \in Groups, NEW v \in Users, AddBegin(r, u, g, v)
        PROVE  \E a \in Arg : GroupBegun(r, a, "add.sadd")
    <3> DEFINE a == [NoArg EXCEPT !.user = u, !.peer = v, !.group = g]
    <3>1. a \in Arg /\ a.user = u /\ a.group = g /\ a.peer = v
      BY <2>1 DEF Arg
    <3>2. Begin(r, a, "add.sadd")
      BY <2>3 DEF AddBegin
    <3> HIDE DEF a
    <3>3. QED
      BY <3>1, <3>2 DEF GroupBegun
  <2>4. ASSUME NEW u \in Users, NEW g \in Groups, NEW step \in {"leave.srem", "delete.srem"},
               Begin(r, [NoArg EXCEPT !.user = u, !.group = g], step)
        PROVE  \E a \in Arg : GroupBegun(r, a, step)
    <3> DEFINE a == [NoArg EXCEPT !.user = u, !.group = g]
    <3>1. a \in Arg /\ a.user = u /\ a.group = g
      BY <2>1 DEF Arg
    <3>2. Begin(r, a, step)
      BY <2>4
    <3> HIDE DEF a
    <3>3. QED
      BY <3>1, <3>2 DEF GroupBegun
  <2>5. QED
    BY <2>2, <2>3, <2>4 DEF GroupsArrive, LeaveBegin, DeleteBegin, GroupEntries
<1> PICK a \in Arg : GroupBegun(r, a, step)
  BY <1>5
<1>6. pc[r] = "idle" /\ Moves(r, step) /\ arg'[r] = a
  BY <1>1, BeginMoves DEF GroupBegun
<1>7. Knows(r)'
  BY <1>6 DEF GroupBegun, GroupEntries, Moves, Knows, At, OfSockets, OfGroups, OfContact,
              OfReply, OfSaying, OfTickets
<1>8. SlotsOK'
  BY <1>1, SlotsBegin DEF GroupBegun, GroupEntries, Steps
<1>9. SocketsOK'
  BY <1>1, <1>2, <1>4, <1>8 DEF SocketsOK, SlotsOK, connections
<1>10. QED
  BY <1>3, <1>6, <1>7, <1>9, QuietStep DEF At, TypeOK


(* What a client is told keeps its type.                                   *)
LEMMA TellTyped ==
    ASSUME GroupsOK, NEW pairs \in SUBSET Pairs, Tell(pairs) \/ (Deaf(pairs) /\ UNCHANGED told)
    PROVE  told' \in SUBSET Pairs /\ unheard' \in SUBSET (Pairs \X Sockets)
<1>1. ASSUME NEW ps \in SUBSET Pairs, Deaf(ps) PROVE unheard' \in SUBSET (Pairs \X Sockets)
  BY <1>1 DEF Deaf, GroupsOK
<1>2. CASE Tell(pairs)
  <2> DEFINE heard == {p \in pairs : registry[p[1]] \in open[p[1]]}
  <2>1. told' = told \cup heard /\ Deaf(pairs \ heard)
    BY <1>2 DEF Tell
  <2>2. unheard' \in SUBSET (Pairs \X Sockets)
    BY <1>1, <2>1
  <2>3. QED
    BY <2>1, <2>2 DEF GroupsOK
<1>3. QED
  BY <1>1, <1>2 DEF GroupsOK

(* The handlers that write the rows or the sets of a group.                *)
LEMMA CreateRoomStep ==
    ASSUME IInv, alone' \in BOOLEAN, NEW r \in Requests, CreateRoom(r), UNCHANGED supportVars
    PROVE  IInv'
<1>1. SocketsOK /\ GroupsOK /\ SupportOK /\ SlotsOK /\ HandlersKnow /\ RowsAreFound
  BY SocketsSlots DEF IInv, TypeOK, NothingIsForgotten
<1>2. PICK u \in Users, s \in 0..Connects, g \in Groups :
         u = arg[r].user /\ s = arg[r].socket /\ g = arg[r].group
  BY <1>1, Arguments DEF CreateRoom, HandlersKnow, Knows, At, OfGroups
<1>3. UNCHANGED <<tickets, groupsOf, gone, deaths, contacted, stamped>> /\ SupportOK'
  BY <1>1, SupportTyped DEF CreateRoom, connections, supportVars, sessions, histories
<1>4. Grows
  BY <1>1, <1>3, GrowsByNothing
<1>5. CASE g \in groupRows
  <2>1. Finish(r) /\ UNCHANGED <<connections, groups, groupVars>> /\ ~At(r, "create.sadd")
    BY <1>2, <1>5 DEF CreateRoom, groups, groupVars, At
  <2>2. Moves(r, "idle") /\ SlotsOK' /\ GroupsOK' /\ SocketsOK'
    BY <1>1, <2>1, FinishMoves, SlotsFinish, GroupsTyped, SocketsTyped
  <2>3. Knows(r)'
    BY <2>2 DEF Moves, Knows, At, OfSockets, OfGroups, OfContact, OfReply, OfSaying, OfTickets
  <2>4. QED
    BY <1>3, <1>4, <2>1, <2>2, <2>3, QuietStep DEF TypeOK, groupVars
<1>6. CASE g \notin groupRows
  <2>1. /\ groupRows' = groupRows \cup {g}
        /\ \E others \in SUBSET (Users \ {u}) : memberOf' = memberOf \cup (others \X {g})
        /\ joined' = IF s \in open[u] THEN [joined EXCEPT ![u][s] = @ \cup {g}] ELSE joined
        /\ Goto(r, "create.sadd")
        /\ UNCHANGED <<connections, groupsOf, twice, told, dropped, unheard, gone>>
        /\ ~At(r, "create.sadd")
    BY <1>2, <1>6 DEF CreateRoom, At
  <2>2. PICK others \in SUBSET (Users \ {u}) : memberOf' = memberOf \cup (others \X {g})
    BY <2>1
  <2>3. Moves(r, "create.sadd") /\ arg'[r] = arg[r] /\ SlotsOK'
    BY <1>1, <2>1, GotoMoves, SlotsGoto DEF Steps
  <2>4. Knows(r)'
    BY <1>2, <2>3 DEF Moves, Knows, At, OfSockets, OfGroups, OfContact, OfReply, OfSaying, OfTickets
  <2>5. GroupsOK'
    BY <1>1, <2>1, <2>2 DEF GroupsOK, Pairs
  <2>6. SocketsOK'
    <3>1. [joined EXCEPT ![u][s] = @ \cup {g}] \in [Users -> [Sockets -> SUBSET Groups]]
      BY <1>1 DEF SocketsOK
    <3>2. joined' \in [Users -> [Sockets -> SUBSET Groups]]
      BY <1>1, <2>1, <3>1 DEF SocketsOK
    <3>3. QED
      BY <1>1, <2>1, <2>3, <3>2 DEF SocketsOK, SlotsOK, connections
  <2>7. ASSUME NEW p \in memberOf' PROVE RowIsFound(p)'
    <3>1. CASE p \in memberOf
      BY <1>1, <1>4, <2>1, <2>3, <3>1, RowKept
    <3>2. CASE p \in others \X {g}
      BY <1>2, <2>3, <3>2 DEF RowIsFound, At, Moves
    <3>3. QED
      BY <2>2, <3>1, <3>2
  <2>8. QED
    BY <1>3, <1>4, <2>3, <2>4, <2>5, <2>6, <2>7, RowsStep DEF TypeOK
<1>7. QED
  BY <1>5, <1>6

LEMMA CreateSaddStep ==
    ASSUME IInv, alone' \in BOOLEAN, NEW r \in Requests, CreateSadd(r), UNCHANGED supportVars
    PROVE  IInv'
<1>1. SocketsOK /\ GroupsOK /\ SupportOK /\ SlotsOK /\ HandlersKnow /\ RowsAreFound
  BY SocketsSlots DEF IInv, TypeOK, NothingIsForgotten
<1>2. PICK u \in Users, g \in Groups : u = arg[r].user /\ g = arg[r].group
  BY <1>1 DEF CreateSadd, HandlersKnow, Knows, At, OfGroups
<1> DEFINE others == {v \in Users : <<v, g>> \in memberOf}
<1>3. /\ groupsOf' = [v \in Users |-> groupsOf[v] \cup IF v \in others \cup {u} THEN {g} ELSE {}]
      /\ Tell(others \X {g}) \/ (Deaf(others \X {g}) /\ UNCHANGED told)
      /\ Finish(r)
      /\ UNCHANGED <<connections, joined, twice, groupRows, memberOf, dropped, gone>>
  BY <1>2 DEF CreateSadd
<1>4. UNCHANGED <<tickets, contacted, stamped>> /\ SupportOK'
  BY <1>1, SupportTyped DEF supportVars, sessions, histories
<1>5. \A v \in Users : groupsOf[v] \subseteq groupsOf'[v] /\ (v \in others => g \in groupsOf'[v])
  BY <1>3
<1>6. Grows
  BY <1>1, <1>3, <1>4, <1>5, GrowsBySets DEF Found, connections
<1>7. Moves(r, "idle") /\ SlotsOK'
  BY <1>1, <1>3, FinishMoves, SlotsFinish
<1>8. Knows(r)'
  BY <1>7 DEF Moves, Knows, At, OfSockets, OfGroups, OfContact, OfReply, OfSaying, OfTickets
<1>9. SocketsOK'
  <2>1. groupsOf' \in [Users -> SUBSET Groups]
    BY <1>1, <1>3 DEF SocketsOK
  <2>2. QED
    BY <1>1, <1>3, <1>7, <2>1 DEF SocketsOK, SlotsOK, connections
<1>10. GroupsOK'
  <2>1. others \X {g} \in SUBSET Pairs
    BY DEF Pairs
  <2> HIDE DEF others
  <2>2. told' \in SUBSET Pairs /\ unheard' \in SUBSET (Pairs \X Sockets)
    BY <1>1, <1>3, <2>1, TellTyped
  <2>3. QED
    BY <1>1, <1>3, <2>2 DEF GroupsOK
<1>11. ASSUME NEW p \in memberOf' PROVE RowIsFound(p)'
  <2>1. p \in memberOf /\ p[1] \in Users /\ p = <<p[1], p[2]>>
    BY <1>1, <1>3, <1>11 DEF GroupsOK, Pairs
  <2>2. CASE p[2] = g
    BY <1>5, <2>1, <2>2 DEF RowIsFound
  <2>3. CASE p[2] # g
    BY <1>1, <1>2, <1>6, <1>7, <2>1, <2>3, RowKept
  <2>4. QED
    BY <2>2, <2>3
<1>12. QED
  BY <1>4, <1>6, <1>7, <1>8, <1>9, <1>10, <1>11, RowsStep DEF TypeOK


(* addMemberToGroup: what has been written before the row is made.         *)
LEMMA AddStep ==
    ASSUME IInv, alone' \in BOOLEAN, NEW r \in Requests,
           AddSadd(r) \/ AddSocket(r) \/ AddRow(r) \/ AddMessage(r), UNCHANGED supportVars
    PROVE  IInv'
<1>1. SocketsOK /\ GroupsOK /\ SupportOK /\ SlotsOK /\ HandlersKnow /\ RowsAreFound
  BY SocketsSlots DEF IInv, TypeOK, NothingIsForgotten
<1>2. PICK v \in Users, g \in Groups : v = arg[r].peer /\ g = arg[r].group
  BY <1>1 DEF AddSadd, AddSocket, AddRow, AddMessage, HandlersKnow, Knows, At, OfGroups
<1>3. /\ UNCHANGED <<tickets, contacted, stamped>> /\ SupportOK' /\ ~At(r, "create.sadd")
      /\ arg[r].user \in Users
  BY <1>1, SupportTyped
  DEF supportVars, sessions, histories, AddSadd, AddSocket, AddRow, AddMessage, At,
      HandlersKnow, Knows, OfGroups
<1>4. ASSUME NEW step \in {"add.socket", "add.row", "add.message"}, Goto(r, step),
             step # "add.message" => Found(v, g)'
      PROVE  Moves(r, step) /\ SlotsOK' /\ Knows(r)'
  <2>1. Moves(r, step) /\ arg'[r] = arg[r] /\ SlotsOK'
    BY <1>1, <1>4, GotoMoves, SlotsGoto DEF Steps
  <2>2. step # "add.message" => Found(arg[r].peer, arg[r].group)'
    BY <1>2, <1>4, <2>1 DEF Found
  <2>3. QED
    BY <1>2, <1>3, <2>1, <2>2
    DEF Moves, Knows, At, OfSockets, OfGroups, OfContact, OfReply, OfSaying, OfTickets
<1>5. CASE AddSadd(r)
  <2>1. /\ groupsOf' = [groupsOf EXCEPT ![v] = @ \cup {g}] /\ gone' = gone \ {<<v, g>>}
        /\ Goto(r, "add.socket")
        /\ UNCHANGED <<connections, joined, twice, groupRows, memberOf, told, dropped, unheard>>
    BY <1>2, <1>5 DEF AddSadd
  <2>2. \A w \in Users : groupsOf[w] \subseteq groupsOf'[w]
    BY <1>1, <2>1 DEF SocketsOK
  <2>3. g \in groupsOf'[v]
    BY <1>1, <2>1 DEF SocketsOK
  <2>4. ASSUME NEW w \in Users, NEW h \in Groups, Found(w, h) PROVE Found(w, h)'
    BY <2>1, <2>2, <2>3, <2>4 DEF Found, connections
  <2>5. Grows
    BY <1>1, <1>3, <2>4, GrowsBySets
  <2>6. Moves(r, "add.socket") /\ SlotsOK' /\ Knows(r)'
    BY <1>4, <2>1, <2>3 DEF Found
  <2>7. SocketsOK'
    <3>1. groupsOf' \in [Users -> SUBSET Groups]
      BY <1>1, <2>1 DEF SocketsOK
    <3>2. QED
      BY <1>1, <2>1, <2>6, <3>1 DEF SocketsOK, SlotsOK, connections
  <2>8. GroupsOK'
    BY <1>1, <2>1 DEF GroupsOK
  <2>9. QED
    BY <1>3, <2>1, <2>5, <2>6, <2>7, <2>8, QuietStep DEF TypeOK
<1>6. CASE AddSocket(r)
  <2>1. Goto(r, "add.row") /\ UNCHANGED <<connections, groups, groupVars>> /\ At(r, "add.socket")
    BY <1>6 DEF AddSocket
  <2>2. Found(v, g)
    BY <1>1, <1>2, <2>1 DEF HandlersKnow, Knows, At
  <2>3. Found(v, g)'
    BY <2>1, <2>2 DEF Found, connections, groups, groupVars
  <2>4. Moves(r, "add.row") /\ SlotsOK' /\ Knows(r)'
    BY <1>4, <2>1, <2>3
  <2>5. Grows /\ SocketsOK' /\ GroupsOK' /\ UNCHANGED memberOf
    BY <1>1, <1>3, <2>1, <2>4, GrowsByNothing, SocketsTyped, GroupsTyped
    DEF connections, groups, groupVars
  <2>6. QED
    BY <1>3, <2>4, <2>5, QuietStep DEF TypeOK
<1>7. CASE AddRow(r)
  <2>1. /\ memberOf' = memberOf \cup {<<v, g>>} /\ Goto(r, "add.message") /\ At(r, "add.row")
        /\ UNCHANGED <<connections, groups, groupRows, told, dropped, unheard, gone>>
    BY <1>2, <1>7 DEF AddRow
  <2>2. Moves(r, "add.message") /\ SlotsOK' /\ Knows(r)'
    BY <1>4, <2>1
  <2>3. Grows /\ SocketsOK'
    BY <1>1, <1>3, <2>1, <2>2, GrowsByNothing, SocketsTyped DEF connections, groups
  <2>4. GroupsOK'
    BY <1>1, <2>1 DEF GroupsOK, Pairs
  <2>5. ASSUME NEW p \in memberOf' PROVE RowIsFound(p)'
    <3>1. CASE p \in memberOf
      BY <1>1, <1>3, <2>2, <2>3, <3>1, RowKept
    <3>2. CASE p = <<v, g>>
      <4>1. Found(v, g)
        BY <1>1, <1>2, <2>1 DEF HandlersKnow, Knows, At
      <4>2. Found(v, g)'
        BY <2>1, <4>1 DEF Found, connections, groups
      <4>3. QED
        BY <3>2, <4>2 DEF Found, RowIsFound
    <3>3. QED
      BY <2>1, <3>1, <3>2
  <2>6. QED
    BY <1>3, <2>2, <2>3, <2>4, <2>5, RowsStep DEF TypeOK
<1>8. CASE AddMessage(r)
  <2>1. /\ Tell({<<v, g>>}) /\ Finish(r)
        /\ UNCHANGED <<connections, groups, groupRows, memberOf, dropped, gone>>
    BY <1>2, <1>8 DEF AddMessage
  <2>2. Moves(r, "idle") /\ SlotsOK'
    BY <1>1, <2>1, FinishMoves, SlotsFinish
  <2>3. Knows(r)'
    BY <2>2 DEF Moves, Knows, At, OfSockets, OfGroups, OfContact, OfReply, OfSaying, OfTickets
  <2>4. Grows /\ SocketsOK'
    BY <1>1, <1>3, <2>1, <2>2, GrowsByNothing, SocketsTyped DEF connections, groups
  <2>5. GroupsOK'
    <3>1. told' \in SUBSET Pairs /\ unheard' \in SUBSET (Pairs \X Sockets)
      BY <1>1, <2>1, TellTyped DEF Pairs
    <3>2. QED
      BY <1>1, <2>1, <3>1 DEF GroupsOK
  <2>6. QED
    BY <1>3, <2>1, <2>2, <2>3, <2>4, <2>5, QuietStep DEF TypeOK
<1>9. QED
  BY <1>5, <1>6, <1>7, <1>8

(* groupLeave and deleteGroup take sets away, and who was in them is gone. *)
LEMMA LeaveStep ==
    ASSUME IInv, alone' \in BOOLEAN, NEW r \in Requests,
           LeaveSrem(r) \/ LeaveMessage(r) \/ DeleteSrem(r) \/ DeleteDestroy(r),
           UNCHANGED supportVars
    PROVE  IInv'
<1>1. SocketsOK /\ GroupsOK /\ SupportOK /\ SlotsOK /\ HandlersKnow /\ RowsAreFound
  BY SocketsSlots DEF IInv, TypeOK, NothingIsForgotten
<1>2. PICK u \in Users, g \in Groups : u = arg[r].user /\ g = arg[r].group
  BY <1>1 DEF LeaveSrem, LeaveMessage, DeleteSrem, DeleteDestroy, HandlersKnow, Knows, At, OfGroups
<1>3. UNCHANGED <<tickets, contacted, stamped>> /\ SupportOK' /\ ~At(r, "create.sadd")
  BY <1>1, SupportTyped
  DEF supportVars, sessions, histories, LeaveSrem, LeaveMessage, DeleteSrem, DeleteDestroy, At
<1>4. PICK step \in {"leave.message", "delete.destroy", "idle"} :
         (step # "idle" /\ Goto(r, step)) \/ (step = "idle" /\ Finish(r))
  BY DEF LeaveSrem, LeaveMessage, DeleteSrem, DeleteDestroy
<1>5. Moves(r, step) /\ SlotsOK' /\ (step # "idle" => arg'[r] = arg[r])
  BY <1>1, <1>4, GotoMoves, FinishMoves, SlotsGoto, SlotsFinish DEF Steps
<1>6. Knows(r)'
  BY <1>2, <1>5 DEF Moves, Knows, At, OfSockets, OfGroups, OfContact, OfReply, OfSaying, OfTickets
<1>7. /\ UNCHANGED <<connections, joined, twice, memberOf>>
      /\ groupsOf' \in [Users -> SUBSET Groups] /\ GroupsOK'
      /\ \A w \in Users, h \in Groups : Found(w, h) => Found(w, h)'
  <2>1. CASE LeaveSrem(r)
    <3>1. /\ groupsOf' = [groupsOf EXCEPT ![u] = @ \ {g}] /\ gone' = gone \cup {<<u, g>>}
          /\ dropped' = dropped \ {<<u, g>>}
          /\ UNCHANGED <<connections, joined, twice, groupRows, memberOf, told, unheard>>
      BY <1>2, <2>1 DEF LeaveSrem
    <3>2. ASSUME NEW w \in Users, NEW h \in Groups, Found(w, h) PROVE Found(w, h)'
      BY <1>1, <3>1, <3>2 DEF Found, SocketsOK, connections
    <3>3. GroupsOK'
      BY <1>1, <3>1 DEF GroupsOK, Pairs
    <3>4. QED
      BY <1>1, <3>1, <3>2, <3>3 DEF SocketsOK
  <2>2. CASE DeleteSrem(r)
    <3>1. PICK others \in SUBSET Users :
             /\ groupsOf' = [v \in Users |-> groupsOf[v] \ IF v \in others \cup {u} THEN {g} ELSE {}]
             /\ gone' = gone \cup ((others \cup {u}) \X {g})
      BY <1>2, <2>2 DEF DeleteSrem
    <3>2. /\ dropped' = dropped \cup {<<v, g>> : v \in {w \in Users : Listening(w, g)}}
          /\ UNCHANGED <<connections, joined, twice, groupRows, memberOf, told, unheard>>
      BY <1>2, <2>2 DEF DeleteSrem
    <3>3. ASSUME NEW w \in Users, NEW h \in Groups, Found(w, h) PROVE Found(w, h)'
      BY <3>1, <3>2, <3>3 DEF Found, connections
    <3>4. GroupsOK'
      BY <1>1, <3>1, <3>2 DEF GroupsOK, Pairs
    <3>5. QED
      BY <1>1, <3>1, <3>2, <3>3, <3>4 DEF SocketsOK
  <2>3. CASE LeaveMessage(r) \/ DeleteDestroy(r)
    <3>1. UNCHANGED <<connections, groups, groupVars>>
      BY <2>3 DEF LeaveMessage, DeleteDestroy
    <3>2. QED
      BY <1>1, <3>1, GroupsTyped DEF SocketsOK, groups, groupVars, connections, Found
  <2>4. QED
    BY <2>1, <2>2, <2>3
<1>8. Grows
  BY <1>1, <1>3, <1>7, GrowsBySets
<1>9. SocketsOK'
  BY <1>1, <1>5, <1>7 DEF SocketsOK, SlotsOK, connections
<1>10. QED
  BY <1>3, <1>5, <1>6, <1>7, <1>8, <1>9, QuietStep DEF TypeOK

(* joinUserToGroup takes no slot.                                          *)
LEMMA JoinStep ==
    ASSUME IInv, alone' \in BOOLEAN, NEW u \in Users, NEW s \in Sockets, NEW g \in Groups,
           Join(u, s, g), UNCHANGED supportVars
    PROVE  IInv'
<1>1. SocketsOK /\ GroupsOK /\ SupportOK
  BY DEF IInv, TypeOK
<1>2. UNCHANGED <<tickets, groupsOf, gone, deaths, contacted, stamped, memberOf, pc, arg>>
  BY DEF Join, connections, supportVars, sessions, histories
<1>3. SupportOK' /\ Grows
  BY <1>1, <1>2, SupportTyped, GrowsByNothing
<1>4. GroupsOK'
  BY <1>1 DEF Join, GroupsOK
<1>5. SocketsOK'
  <2>1. joined' \in [Users -> [Sockets -> SUBSET Groups]]
    BY <1>1 DEF Join, SocketsOK
  <2>2. QED
    BY <1>1, <1>2, <2>1 DEF Join, SocketsOK, connections
<1>6. HandlersKnow'
  BY <1>2, <1>3, KnowsKept DEF IInv, HandlersKnow, Rests
<1>7. NothingIsForgotten'
  BY <1>2 DEF IInv, NothingIsForgotten, ContactsCount, RowsAreFound, TicketsOf, At
<1>8. QED
  BY <1>3, <1>4, <1>5, <1>6, <1>7 DEF IInv, TypeOK


-----------------------------------------------------------------------------
(* Support sessions.                                                       *)
LEMMA RoomsTyped ==
    ASSUME SupportOK, NEW m \in Rooms, room[m] # NoRoom
    PROVE  /\ room[m].customer \in Customers /\ room[m].agent \in Agents
           /\ room[m].customer \in Users /\ room[m].agent \in Users
  BY PeopleAssumption DEF SupportOK

LEMMA StayTyped ==
    ASSUME SocketsOK, GroupsOK, alone' \in BOOLEAN, SlotsOK', Stay
    PROVE  SocketsOK' /\ GroupsOK'
  BY SocketsTyped, GroupsTyped DEF Stay

SupportEntries ==
    {"contact.socket", "start.target", "reply.target", "say.target", "close.socket", "rate.save",
     "detach.log"}

SupportBegun(r, a, step) ==
    /\ Begin(r, a, step)
    /\ step = "contact.socket" => a.user \in Customers /\ a.peer \in Agents
    /\ step = "reply.target" => a.user \in Agents /\ a.room \in Rooms
    /\ step = "say.target" => a.peer \in Agents
    /\ step \in {"close.socket", "rate.save"} => a.ticket \in 1..Len(tickets)

LEMMA SupportBegin ==
    ASSUME IInv, alone' \in BOOLEAN, NEW r \in Requests, SupportArrive(r), ~Throw
    PROVE  IInv'
<1>1. SocketsOK /\ GroupsOK /\ SupportOK /\ SlotsOK
  BY SocketsSlots DEF IInv, TypeOK
<1>2. Stay /\ UNCHANGED <<room, stamped, tickets, queue, contacted, answered>>
  BY DEF SupportArrive, ContactFind, StartBegin, ReplyBegin, SayBegin, CloseFind, RateFind,
         DetachUpdate, supportVars, sessions, histories
<1>3. SupportOK'
  <2>1. CASE UNCHANGED supportVars
    BY <1>1, <2>1, SupportTyped
  <2>2. ASSUME NEW a \in Agents, Available(a) PROVE SupportOK'
    BY <1>1, <1>2, <2>2 DEF Available, SupportOK, queue
  <2>3. QED
    BY <2>1, <2>2 DEF SupportArrive, ContactFind, StartBegin, ReplyBegin, SayBegin, CloseFind,
                      RateFind, DetachUpdate
<1>4. PICK step \in SupportEntries : \E a \in Arg : SupportBegun(r, a, step)
  <2>1. NoArg \in Arg /\ Users = Customers \cup Agents
    BY <1>1, Arguments, PeopleAssumption
  <2>2. ASSUME NEW u \in Users, NEW v \in Users, NEW step \in SupportEntries,
               Begin(r, [NoArg EXCEPT !.user = u, !.peer = v], step),
               step \in {"contact.socket", "start.target"},
               step = "contact.socket" => u \in Customers /\ v \in Agents
        PROVE  \E a \in Arg : SupportBegun(r, a, step)
    <3> DEFINE a == [NoArg EXCEPT !.user = u, !.peer = v]
    <3>1. a \in Arg /\ a.user = u /\ a.peer = v /\ Begin(r, a, step)
      BY <2>1, <2>2 DEF Arg
    <3> HIDE DEF a
    <3>2. QED
      BY <2>2, <3>1 DEF SupportBegun
  <2>3. ASSUME NEW u \in Users, NEW v \in Users, NEW m \in Rooms, NEW step \in SupportEntries,
               Begin(r, [NoArg EXCEPT !.user = u, !.peer = v, !.room = m], step),
               step \in {"reply.target", "say.target"}, step = "reply.target" => u \in Agents,
               step = "say.target" => v \in Agents
        PROVE  \E a \in Arg : SupportBegun(r, a, step)
    <3> DEFINE a == [NoArg EXCEPT !.user = u, !.peer = v, !.room = m]
    <3>1. a \in Arg /\ a.user = u /\ a.peer = v /\ a.room = m /\ Begin(r, a, step)
      BY <2>1, <2>3 DEF Arg
    <3> HIDE DEF a
    <3>2. QED
      BY <2>3, <3>1 DEF SupportBegun
  <2>4. ASSUME NEW m \in Rooms, TicketsOf(m) # {}
        PROVE  FirstOf(TicketsOf(m)) \in 1..Len(tickets) /\ FirstOf(TicketsOf(m)) \in 0..Tickets
    <3>1. FirstOf(TicketsOf(m)) \in 1..Len(tickets) /\ Len(tickets) \in Nat /\ Len(tickets) <= Tickets
      BY <1>1, <2>4, TicketsTyped, FirstIsOne DEF SupportOK
    <3>2. QED
      BY <3>1, BoundsAssumption
  <2>5. ASSUME NEW m \in Rooms, CloseFind(r, m)
        PROVE  \E a \in Arg : SupportBegun(r, a, "close.socket")
    <3>1. room[m] # NoRoom /\ TicketsOf(m) # {}
      BY <2>5 DEF CloseFind
    <3>2. room[m].customer \in Users
      BY <1>1, <3>1, RoomsTyped
    <3> DEFINE t == FirstOf(TicketsOf(m))
               a == [NoArg EXCEPT !.peer = room[m].customer, !.ticket = t]
    <3>3. Begin(r, a, "close.socket") /\ t \in 1..Len(tickets) /\ t \in 0..Tickets
      BY <2>4, <2>5, <3>1 DEF CloseFind
    <3> HIDE DEF t
    <3>4. a \in Arg /\ a.ticket = t
      BY <2>1, <3>2, <3>3 DEF Arg
    <3> HIDE DEF a
    <3>5. QED
      BY <3>3, <3>4 DEF SupportBegun
  <2>6. ASSUME NEW m \in Rooms, RateFind(r, m)
        PROVE  \E a \in Arg : SupportBegun(r, a, "rate.save")
    <3> DEFINE t == FirstOf(TicketsOf(m))
               a == [NoArg EXCEPT !.ticket = t]
    <3>1. Begin(r, a, "rate.save") /\ t \in 1..Len(tickets) /\ t \in 0..Tickets
      BY <2>4, <2>6 DEF RateFind
    <3> HIDE DEF t
    <3>2. a \in Arg /\ a.ticket = t
      BY <2>1, <3>1 DEF Arg
    <3> HIDE DEF a
    <3>3. QED
      BY <3>1, <3>2 DEF SupportBegun
  <2>7. ASSUME NEW u \in Agents, DetachUpdate(r, u)
        PROVE  \E a \in Arg : SupportBegun(r, a, "detach.log")
    <3> DEFINE a == [NoArg EXCEPT !.user = u]
    <3>1. a \in Arg /\ Begin(r, a, "detach.log")
      BY <2>1, <2>7 DEF DetachUpdate, Arg
    <3> HIDE DEF a
    <3>2. QED
      BY <3>1 DEF SupportBegun
  <2>8. ASSUME NEW c \in Customers, ContactFind(r, c)
        PROVE  \E a \in Arg : SupportBegun(r, a, "contact.socket")
    BY <2>1, <2>2, <2>8 DEF ContactFind, SupportEntries
  <2>9. ASSUME NEW c \in Customers, NEW a \in Agents, StartBegin(r, c, a)
        PROVE  \E b \in Arg : SupportBegun(r, b, "start.target")
    BY <2>1, <2>2, <2>9 DEF StartBegin, SupportEntries
  <2>10. ASSUME NEW m \in Rooms, ReplyBegin(r, m)
         PROVE  \E a \in Arg : SupportBegun(r, a, "reply.target")
    BY <1>1, <2>3, <2>10, RoomsTyped DEF ReplyBegin, SupportEntries
  <2>11. ASSUME NEW m \in Rooms, SayBegin(r, m)
         PROVE  \E a \in Arg : SupportBegun(r, a, "say.target")
    BY <1>1, <2>3, <2>11, RoomsTyped DEF SayBegin, SupportEntries
  <2>12. QED
    BY <2>5, <2>6, <2>7, <2>8, <2>9, <2>10, <2>11 DEF SupportArrive, SupportEntries
<1> PICK a \in Arg : SupportBegun(r, a, step)
  BY <1>4
<1>5. pc[r] = "idle" /\ Moves(r, step) /\ arg'[r] = a /\ SlotsOK'
  BY <1>1, BeginMoves, SlotsBegin DEF SupportBegun, SupportEntries, Steps
<1>6. Knows(r)'
  BY <1>2, <1>5 DEF SupportBegun, SupportEntries, Moves, Knows, At, OfSockets, OfGroups,
                    OfContact, OfReply, OfSaying, OfTickets
<1>7. SocketsOK' /\ GroupsOK'
  BY <1>1, <1>2, <1>5, StayTyped
<1>8. Grows /\ UNCHANGED <<memberOf, contacted, stamped>> /\ ~At(r, "create.sadd")
  BY <1>1, <1>2, <1>5, GrowsByNothing DEF Stay, connections, groups, groupVars, At
<1>9. QED
  BY <1>3, <1>5, <1>6, <1>7, <1>8, QuietStep DEF TypeOK


(* A handler of a support session goes on, and neither contacts nor        *)
(* tickets are touched, or a ticket is added or written.                   *)
LEMMA SupportMove ==
    ASSUME IInv, alone' \in BOOLEAN, NEW r \in Requests, NEW step, Moves(r, step),
           SlotsOK', Knows(r)', Stay, SupportOK', Grows, UNCHANGED <<contacted, stamped>>,
           ~At(r, "create.sadd")
    PROVE  IInv'
<1>1. SocketsOK' /\ GroupsOK'
  BY StayTyped DEF IInv, TypeOK
<1>2. UNCHANGED memberOf
  BY DEF Stay, groupVars
<1>3. QED
  BY <1>1, <1>2, QuietStep DEF TypeOK

LEMMA StayGrows == ASSUME SupportOK, Stay, UNCHANGED tickets PROVE Grows
  BY GrowsByNothing DEF Stay, connections, groups, groupVars

(* Calls after which a handler knows what it knew.                         *)
CallTable ==
    {<<"contact.socket", "contact.busy">>, <<"contact.busy", "contact.room">>,
     <<"contact.log", "contact.stamp">>, <<"start.target", "start.room">>,
     <<"reply.target", "reply.message">>, <<"reply.message", "reply.stamp">>,
     <<"reply.stamp", "reply.ticket">>, <<"reply.stamp", "reply.pending">>,
     <<"reply.unstamp", "reply.pending">>, <<"reply.pending", "reply.add">>,
     <<"say.target", "say.message">>, <<"say.message", "say.entry">>,
     <<"say.unrecord", "say.remove">>, <<"close.socket", "close.save">>}

LEMMA CallStep ==
    ASSUME SocketsOK, NEW r \in Requests, Knows(r), UNCHANGED tickets,
           NEW step, <<pc[r], step>> \in CallTable, Goto(r, step)
    PROVE  Moves(r, step) /\ SlotsOK' /\ Knows(r)'
<1>1. Moves(r, step) /\ arg'[r] = arg[r]
  BY GotoMoves
<1>2. SlotsOK'
  BY SocketsSlots, SlotsGoto DEF CallTable, Steps
<1>3. pc'[r] = step
  BY <1>1 DEF Moves
<1>4. QED
  BY <1>1, <1>2, <1>3
  DEF CallTable, Knows, At, OfSockets, OfGroups, OfContact, OfReply, OfSaying, OfTickets

LEMMA EndStep ==
    ASSUME SocketsOK, NEW r \in Requests, Finish(r)
    PROVE  Moves(r, "idle") /\ SlotsOK' /\ Knows(r)'
<1>1. Moves(r, "idle") /\ SlotsOK'
  BY SocketsSlots, FinishMoves, SlotsFinish
<1>2. QED
  BY <1>1 DEF Moves, Knows, At, OfSockets, OfGroups, OfContact, OfReply, OfSaying, OfTickets

LEMMA TargetStep ==
    ASSUME IInv, alone' \in BOOLEAN, NEW r \in Requests, NEW at, NEW step,
           <<at, step>> \in CallTable, Target(r, at, step), ~Throw
    PROVE  IInv'
<1>1. SocketsOK /\ SupportOK /\ Knows(r)
  BY DEF IInv, TypeOK, HandlersKnow
<1>2. pc[r] = at /\ Goto(r, step) /\ Stay /\ UNCHANGED supportVars
  BY DEF Target, At
<1>3. Moves(r, step) /\ SlotsOK' /\ Knows(r)'
  BY <1>1, <1>2, CallStep DEF supportVars, sessions
<1>4. SupportOK' /\ Grows /\ UNCHANGED <<contacted, stamped>>
  BY <1>1, <1>2, SupportTyped, StayGrows DEF supportVars, sessions, histories
<1>5. ~At(r, "create.sadd")
  BY <1>2 DEF At, CallTable
<1>6. QED
  BY <1>2, <1>3, <1>4, <1>5, SupportMove

(* contactSupport and the message that makes a room.                       *)
LEMMA ContactStep ==
    ASSUME IInv, alone' \in BOOLEAN, NEW r \in Requests,
           ContactBusy(r) \/ ContactRoom(r) \/ ContactLog(r) \/ ContactStamp(r) \/ StartRoom(r)
    PROVE  IInv'
<1>1. SocketsOK /\ GroupsOK /\ SupportOK /\ SlotsOK /\ Knows(r) /\ NothingIsForgotten
  BY SocketsSlots DEF IInv, TypeOK, HandlersKnow
<1>2. Stay /\ UNCHANGED tickets /\ ~At(r, "create.sadd")
  BY DEF ContactBusy, ContactRoom, ContactLog, ContactStamp, StartRoom, supportVars, sessions, At
<1>3. Grows
  BY <1>1, <1>2, StayGrows
<1>4. CASE ContactBusy(r)
  <2>1. Moves(r, "contact.room") /\ SlotsOK' /\ Knows(r)'
    BY <1>1, <1>2, <1>4, CallStep DEF ContactBusy, At, CallTable
  <2>2. arg[r].user \in Customers /\ arg[r].peer \in Agents
    BY <1>1, <1>4 DEF ContactBusy, Knows, At, OfContact
  <2>3. SupportOK'
    BY <1>1, <1>4, <2>2 DEF ContactBusy, SupportOK, queue
  <2>4. QED
    BY <1>2, <1>3, <1>4, <2>1, <2>3, SupportMove DEF ContactBusy
<1>5. CASE ContactRoom(r)
  <2>1. PICK m \in Rooms : OpenRoom(m, arg[r].user, arg[r].peer) /\ arg' = [arg EXCEPT ![r].room = m]
    BY <1>5 DEF ContactRoom
  <2>2. arg[r].user \in Customers /\ arg[r].peer \in Agents /\ pc' = [pc EXCEPT ![r] = "contact.log"]
    BY <1>1, <1>5 DEF ContactRoom, Knows, At, OfContact
  <2>3. [arg[r] EXCEPT !.room = m] \in Arg
    BY <1>1 DEF SlotsOK, Arg
  <2>4. SlotsOK' /\ arg'[r] = [arg[r] EXCEPT !.room = m]
    BY <1>1, <2>1, <2>2, <2>3 DEF SlotsOK, Steps
  <2>5. Moves(r, "contact.log")
    BY <1>1, <2>1, <2>2 DEF SlotsOK, Moves, Rests
  <2>6. arg'[r].room = m /\ arg'[r].user = arg[r].user /\ arg'[r].peer = arg[r].peer
    BY <1>1, <2>4 DEF SlotsOK, Arg
  <2>7. Knows(r)'
    BY <2>2, <2>5, <2>6 DEF Moves, Knows, At, OfSockets, OfGroups, OfContact, OfReply, OfSaying,
                            OfTickets
  <2>8. SupportOK'
    <3>1. room' \in [Rooms -> {NoRoom} \cup [customer: Customers, agent: Agents]]
      BY <1>1, <2>1, <2>2 DEF SupportOK, OpenRoom
    <3>2. QED
      BY <1>1, <1>5, <3>1 DEF ContactRoom, SupportOK, queue, histories
  <2>9. QED
    BY <1>2, <1>3, <1>5, <2>4, <2>5, <2>7, <2>8, SupportMove DEF ContactRoom, histories
<1>6. CASE ContactLog(r)
  <2>1. Moves(r, "contact.stamp") /\ SlotsOK' /\ Knows(r)'
    BY <1>1, <1>2, <1>6, CallStep DEF ContactLog, At, CallTable
  <2>2. SupportOK' /\ UNCHANGED <<contacted, stamped>>
    BY <1>1, <1>6, SupportTyped DEF ContactLog, supportVars, sessions, histories
  <2>3. QED
    BY <1>2, <1>3, <2>1, <2>2, SupportMove
<1>7. CASE ContactStamp(r)
  <2>1. /\ stamped' = stamped \cup {arg[r].room} /\ contacted' = contacted \cup {arg[r].room}
        /\ Finish(r) /\ arg[r].room \in Rooms
        /\ UNCHANGED <<agent, room, tickets, queue, serves, answered>>
    BY <1>1, <1>7 DEF ContactStamp, Knows, At
  <2>2. Moves(r, "idle") /\ SlotsOK' /\ Knows(r)'
    BY <1>1, <2>1, EndStep
  <2>3. SupportOK'
    BY <1>1, <2>1 DEF SupportOK, queue
  <2>4. TypeOK'
    BY <1>1, <1>2, <2>2, <2>3, StayTyped DEF TypeOK
  <2>5. HandlersKnow'
    BY <1>3, <2>2, SlotStep DEF IInv
  <2>6. ContactsCount'
    BY <1>1, <2>1 DEF NothingIsForgotten, ContactsCount, TicketsOf
  <2>7. RowsAreFound'
    BY <1>1, <1>2, <1>3, <2>2, RowsKept DEF NothingIsForgotten, Moves, Stay, groupVars
  <2>8. QED
    BY <2>4, <2>5, <2>6, <2>7 DEF IInv, NothingIsForgotten
<1>8. CASE StartRoom(r)
  <2>1. PICK m \in Rooms, c \in Customers, a \in Agents :
           OpenRoom(m, c, a)
    BY <1>8 DEF StartRoom
  <2>2. UNCHANGED <<contacted, stamped, tickets>>
    BY <1>8 DEF StartRoom, histories
  <2>3. SupportOK'
    <3>1. room' \in [Rooms -> {NoRoom} \cup [customer: Customers, agent: Agents]]
      BY <1>1, <2>1 DEF SupportOK, OpenRoom
    <3>2. QED
      BY <1>1, <1>8, <3>1 DEF StartRoom, SupportOK, queue, histories
  <2>4. Moves(r, "idle") /\ SlotsOK' /\ Knows(r)'
    BY <1>1, <1>8, EndStep DEF StartRoom
  <2>5. QED
    BY <1>2, <1>3, <1>8, <2>2, <2>3, <2>4, SupportMove DEF StartRoom
<1>9. QED
  BY <1>4, <1>5, <1>6, <1>7, <1>8


(* message, from the agent: the ticket is there before the time is deleted.*)
LEMMA ReplyStep ==
    ASSUME IInv, alone' \in BOOLEAN, NEW r \in Requests,
           \/ ReplyMessage(r) \/ ReplyStamp(r) \/ ReplyTicket(r) \/ ReplyUnstamp(r)
           \/ ReplyPending(r) \/ ReplyAdd(r) \/ ReplyRecord(r)
    PROVE  IInv'
<1>1. SocketsOK /\ GroupsOK /\ SupportOK /\ SlotsOK /\ Knows(r) /\ NothingIsForgotten
  BY SocketsSlots DEF IInv, TypeOK, HandlersKnow
<1>2. Stay /\ ~At(r, "create.sadd") /\ arg[r].user \in Agents /\ arg[r].room \in Rooms
  BY <1>1 DEF ReplyMessage, ReplyStamp, ReplyTicket, ReplyUnstamp, ReplyPending, ReplyAdd,
              ReplyRecord, At, Knows, OfReply
<1>3. CASE ReplyMessage(r)
  <2>1. Moves(r, "reply.stamp") /\ SlotsOK' /\ Knows(r)'
    BY <1>1, <1>3, CallStep DEF ReplyMessage, At, CallTable, sessions
  <2>2. SupportOK'
    BY <1>1, <1>2, <1>3, PeopleAssumption DEF ReplyMessage, SupportOK, sessions, queue
  <2>3. Grows /\ UNCHANGED <<contacted, stamped>>
    BY <1>1, <1>2, <1>3, StayGrows DEF ReplyMessage, sessions
  <2>4. QED
    BY <1>2, <2>1, <2>2, <2>3, SupportMove
<1>4. CASE ReplyStamp(r)
  <2>1. PICK step \in {"reply.ticket", "reply.pending"} : Goto(r, step)
    BY <1>4 DEF ReplyStamp
  <2>2. Moves(r, step) /\ SlotsOK' /\ Knows(r)'
    BY <1>1, <1>4, <2>1, CallStep DEF ReplyStamp, At, CallTable, supportVars, sessions
  <2>3. SupportOK' /\ Grows /\ UNCHANGED <<contacted, stamped>>
    BY <1>1, <1>2, <1>4, SupportTyped, StayGrows DEF ReplyStamp, supportVars, sessions, histories
  <2>4. QED
    BY <1>2, <2>2, <2>3, SupportMove
<1>5. CASE ReplyTicket(r)
  <2> DEFINE t == [room |-> arg[r].room, agent |-> arg[r].user,
                   status |-> "pending", rated |-> FALSE]
  <2>1. /\ tickets' = Append(tickets, t) /\ Len(tickets) < Tickets /\ Goto(r, "reply.unstamp")
        /\ UNCHANGED <<agent, room, stamped, queue, histories>>
    BY <1>5 DEF ReplyTicket
  <2>2. t \in Ticket /\ tickets \in Seq(Ticket) /\ t.room = arg[r].room
    BY <1>1, <1>2 DEF Ticket, SupportOK
  <2> HIDE DEF t
  <2>3. /\ tickets' \in Seq(Ticket) /\ Len(tickets') = Len(tickets) + 1
        /\ \A i \in 1..Len(tickets) : tickets'[i] = tickets[i]
        /\ tickets'[Len(tickets) + 1] = t
    BY <2>1, <2>2, AppendProperties
  <2>4. /\ Len(tickets) \in Nat /\ DOMAIN tickets = 1..Len(tickets)
        /\ DOMAIN tickets' = 1..(Len(tickets) + 1)
    BY <2>2, <2>3, LenProperties
  <2>5. SupportOK'
    <3>1. Len(tickets') <= Tickets
      BY <2>1, <2>3, <2>4, BoundsAssumption
    <3>2. QED
      BY <1>1, <2>1, <2>3, <3>1 DEF SupportOK, queue, histories
  <2>6. \A m \in Rooms : TicketsOf(m) \subseteq TicketsOf(m)'
    BY <2>3, <2>4 DEF TicketsOf
  <2>7. Grows
    <3>1. \A u \in Users, g \in Groups : Found(u, g) => Found(u, g)'
      BY <1>2 DEF Found, Stay, connections, groups, groupVars
    <3>2. Len(tickets) \in Nat /\ Len(tickets') \in Nat /\ Len(tickets) <= Len(tickets')
      BY <2>3, <2>4
    <3>3. QED
      BY <2>6, <3>1, <3>2 DEF Grows
  <2>8. Moves(r, "reply.unstamp") /\ arg'[r] = arg[r] /\ SlotsOK'
    BY <1>1, <2>1, GotoMoves, SlotsGoto DEF Steps
  <2>9. Knows(r)'
    <3>1. Len(tickets) + 1 \in TicketsOf(arg[r].room)'
      BY <2>2, <2>3, <2>4, <2>8 DEF TicketsOf
    <3>2. QED
      BY <1>2, <2>8, <3>1 DEF Moves, Knows, At, OfSockets, OfGroups, OfContact, OfReply,
                              OfSaying, OfTickets
  <2>10. QED
    BY <1>2, <2>1, <2>5, <2>7, <2>8, <2>9, SupportMove DEF histories
<1>6. CASE ReplyUnstamp(r)
  <2>1. /\ stamped' = stamped \ {arg[r].room} /\ Goto(r, "reply.pending")
        /\ UNCHANGED <<agent, room, tickets, queue, histories>> /\ pc[r] = "reply.unstamp"
    BY <1>6 DEF ReplyUnstamp, At
  <2>2. Moves(r, "reply.pending") /\ SlotsOK' /\ Knows(r)'
    BY <1>1, <2>1, CallStep DEF CallTable
  <2>3. SupportOK'
    BY <1>1, <2>1 DEF SupportOK, queue, histories
  <2>4. Grows
    BY <1>1, <1>2, <2>1, StayGrows
  <2>5. TypeOK'
    BY <1>1, <1>2, <2>2, <2>3, StayTyped DEF TypeOK
  <2>6. HandlersKnow'
    BY <2>2, <2>4, SlotStep DEF IInv
  <2>7. ContactsCount'
    <3>1. TicketsOf(arg[r].room) # {}
      BY <1>1, <2>1 DEF Knows, At
    <3>2. QED
      BY <1>1, <2>1, <3>1 DEF NothingIsForgotten, ContactsCount, TicketsOf, histories
  <2>8. RowsAreFound'
    BY <1>1, <1>2, <2>2, <2>4, RowsKept DEF NothingIsForgotten, Moves, Stay, groupVars
  <2>9. QED
    BY <2>5, <2>6, <2>7, <2>8 DEF IInv, NothingIsForgotten
<1>7. CASE ReplyPending(r)
  <2>1. UNCHANGED supportVars /\ (Finish(r) \/ Goto(r, "reply.add")) /\ pc[r] = "reply.pending"
    BY <1>7 DEF ReplyPending, At
  <2>2. PICK step : Moves(r, step) /\ SlotsOK' /\ Knows(r)'
    BY <1>1, <2>1, EndStep, CallStep DEF CallTable, supportVars, sessions
  <2>3. SupportOK' /\ Grows /\ UNCHANGED <<contacted, stamped>>
    BY <1>1, <1>2, <2>1, SupportTyped, StayGrows DEF supportVars, sessions, histories
  <2>4. QED
    BY <1>2, <2>2, <2>3, SupportMove
<1>8. CASE ReplyAdd(r)
  <2>1. PICK j \in Jobs : /\ job' = [job EXCEPT ![j] = "delayed"]
                          /\ jobFor' = [jobFor EXCEPT ![j] = arg[r].user]
                          /\ arg' = [arg EXCEPT ![r].job = j]
    BY <1>8 DEF ReplyAdd
  <2>2. pc' = [pc EXCEPT ![r] = "reply.record"] /\ UNCHANGED <<sessions, entry, histories>>
    BY <1>8 DEF ReplyAdd
  <2>3. [arg[r] EXCEPT !.job = j] \in Arg
    BY <1>1 DEF SlotsOK, Arg
  <2>4. SlotsOK' /\ arg'[r] = [arg[r] EXCEPT !.job = j]
    BY <1>1, <2>1, <2>2, <2>3 DEF SlotsOK, Steps
  <2>5. Moves(r, "reply.record")
    BY <1>1, <2>1, <2>2 DEF SlotsOK, Moves, Rests
  <2>6. arg'[r].room = arg[r].room /\ arg'[r].user = arg[r].user
    BY <1>1, <2>4 DEF SlotsOK, Arg
  <2>7. Knows(r)'
    BY <1>2, <2>5, <2>6 DEF Moves, Knows, At, OfSockets, OfGroups, OfContact, OfReply, OfSaying,
                            OfTickets
  <2>8. SupportOK'
    BY <1>1, <1>2, <2>1, <2>2 DEF SupportOK, sessions, histories
  <2>9. Grows /\ UNCHANGED <<contacted, stamped>>
    BY <1>1, <1>2, <2>2, StayGrows DEF sessions, histories
  <2>10. QED
    BY <1>2, <2>4, <2>5, <2>7, <2>8, <2>9, SupportMove
<1>9. CASE ReplyRecord(r)
  <2>1. Finish(r) /\ UNCHANGED <<sessions, job, jobFor, histories>>
        /\ entry' = [entry EXCEPT ![arg[r].user] = arg[r].job]
    BY <1>9 DEF ReplyRecord
  <2>2. arg[r].job \in Jobs \cup {None}
    BY <1>1, Arguments
  <2>3. SupportOK'
    BY <1>1, <1>2, <2>1, <2>2 DEF SupportOK, sessions, histories
  <2>4. Moves(r, "idle") /\ SlotsOK' /\ Knows(r)'
    BY <1>1, <2>1, EndStep
  <2>5. Grows /\ UNCHANGED <<contacted, stamped>>
    BY <1>1, <1>2, <2>1, StayGrows DEF sessions, histories
  <2>6. QED
    BY <1>2, <2>3, <2>4, <2>5, SupportMove
<1>10. QED
  BY <1>3, <1>4, <1>5, <1>6, <1>7, <1>8, <1>9


(* message, from the customer, and the end of a detachment by hand.        *)
LEMMA SayStep ==
    ASSUME IInv, alone' \in BOOLEAN, NEW r \in Requests, ~Throw,
           SayMessage(r) \/ SayEntry(r) \/ SayUnrecord(r) \/ SayRemove(r) \/ DetachLog(r)
    PROVE  IInv'
<1>1. SocketsOK /\ SupportOK /\ SlotsOK /\ Knows(r)
  BY SocketsSlots DEF IInv, TypeOK, HandlersKnow
<1>2. Stay /\ ~At(r, "create.sadd") /\ UNCHANGED <<sessions, contacted>>
  BY DEF SayMessage, SayEntry, SayUnrecord, SayRemove, DetachLog, At, supportVars, histories
<1>3. Grows /\ UNCHANGED <<contacted, stamped, tickets>>
  BY <1>1, <1>2, StayGrows DEF sessions
<1>4. SupportOK'
  <2>1. CASE SayMessage(r)
    <3>1. answered' \in SUBSET Rooms
      BY <1>1, <2>1 DEF SayMessage, SupportOK
    <3>2. QED
      BY <1>1, <2>1, <3>1 DEF SayMessage, SupportOK, sessions, queue
  <2>2. CASE SayUnrecord(r)
    BY <1>1, <2>2 DEF SayUnrecord, SupportOK, sessions, histories
  <2>3. CASE SayRemove(r)
    BY <1>1, <2>3 DEF SayRemove, SupportOK, sessions, histories
  <2>4. CASE SayEntry(r) \/ DetachLog(r)
    BY <1>1, <2>4, SupportTyped DEF SayEntry, DetachLog
  <2>5. QED
    BY <2>1, <2>2, <2>3, <2>4
<1>5. CASE Finish(r)
  BY <1>1, <1>2, <1>3, <1>4, <1>5, EndStep, SupportMove
<1>6. ASSUME NEW step, <<pc[r], step>> \in CallTable, Goto(r, step) PROVE IInv'
  BY <1>1, <1>2, <1>3, <1>4, <1>6, CallStep, SupportMove
<1>7. CASE SayMessage(r) \/ SayUnrecord(r) \/ SayRemove(r) \/ DetachLog(r)
  <2>1. CASE SayMessage(r) /\ ~Finish(r)
    <3>1. pc[r] = "say.message" /\ Goto(r, "say.entry")
      BY <2>1 DEF SayMessage, At
    <3>2. <<pc[r], "say.entry">> \in CallTable
      BY <3>1 DEF CallTable
    <3>3. QED
      BY <1>6, <3>1, <3>2
  <2>2. CASE SayUnrecord(r)
    <3>1. pc[r] = "say.unrecord" /\ Goto(r, "say.remove")
      BY <2>2 DEF SayUnrecord, At
    <3>2. <<pc[r], "say.remove">> \in CallTable
      BY <3>1 DEF CallTable
    <3>3. QED
      BY <1>6, <3>1, <3>2
  <2>3. CASE SayRemove(r) \/ DetachLog(r)
    BY <1>5, <2>3 DEF SayRemove, DetachLog
  <2>4. QED
    BY <1>5, <1>7, <2>1, <2>2, <2>3
<1>8. CASE SayEntry(r)
  <2>1. ASSUME NEW j \in Jobs, arg' = [arg EXCEPT ![r].job = j],
               pc' = [pc EXCEPT ![r] = "say.unrecord"]
        PROVE  IInv'
    <3>1. [arg[r] EXCEPT !.job = j] \in Arg
      BY <1>1 DEF SlotsOK, Arg
    <3>2. SlotsOK'
      BY <1>1, <2>1, <3>1 DEF SlotsOK, Steps
    <3>3. Moves(r, "say.unrecord")
      BY <1>1, <2>1 DEF SlotsOK, Moves, Rests
    <3>4. Knows(r)'
      BY <3>3 DEF Moves, Knows, At, OfSockets, OfGroups, OfContact, OfReply, OfSaying, OfTickets
    <3>5. QED
      BY <1>2, <1>3, <1>4, <3>2, <3>3, <3>4, SupportMove
  <2>2. arg[r].peer \in Agents
    BY <1>1, <1>8 DEF SayEntry, Knows, At, OfSaying
  <2>3. entry[arg[r].peer] \in Jobs \cup {None}
    BY <1>1, <2>2 DEF SupportOK
  <2>4. QED
    BY <1>5, <1>8, <2>1, <2>3 DEF SayEntry
<1>9. QED
  BY <1>7, <1>8

(* A ticket is closed or rated.                                            *)
LEMMA TicketStep ==
    ASSUME IInv, alone' \in BOOLEAN, NEW r \in Requests, CloseSave(r) \/ RateSave(r)
    PROVE  IInv'
<1>1. SocketsOK /\ SupportOK /\ SlotsOK /\ Knows(r)
  BY SocketsSlots DEF IInv, TypeOK, HandlersKnow
<1>2. /\ Stay /\ ~At(r, "create.sadd") /\ Finish(r)
      /\ UNCHANGED <<agent, room, stamped, queue, histories>>
  BY DEF CloseSave, RateSave, At
<1>3. arg[r].ticket \in 1..Len(tickets)
  BY <1>1 DEF CloseSave, RateSave, Knows, At, OfTickets
<1> DEFINE i == arg[r].ticket
<1>4. PICK t \in Ticket : tickets' = [tickets EXCEPT ![i] = t] /\ t.room = tickets[i].room
  <2>1. tickets[i] \in Ticket
    BY <1>1, <1>3, ElementOfSeq DEF SupportOK
  <2>2. CASE CloseSave(r)
    <3>1. PICK end \in {"resolved", "failed"} : tickets' = [tickets EXCEPT ![i].status = end]
      BY <2>2 DEF CloseSave
    <3>2. [tickets[i] EXCEPT !.status = end] \in Ticket
          /\ [tickets[i] EXCEPT !.status = end].room = tickets[i].room
      BY <2>1 DEF Ticket
    <3>3. QED
      BY <3>1, <3>2
  <2>3. CASE RateSave(r)
    <3>1. tickets' = [tickets EXCEPT ![i].rated = TRUE]
      BY <2>3 DEF RateSave
    <3>2. [tickets[i] EXCEPT !.rated = TRUE] \in Ticket
          /\ [tickets[i] EXCEPT !.rated = TRUE].room = tickets[i].room
      BY <2>1 DEF Ticket
    <3>3. QED
      BY <3>1, <3>2
  <2>4. QED
    BY <2>2, <2>3
<1> HIDE DEF i
<1>5. /\ tickets' \in Seq(Ticket) /\ Len(tickets') = Len(tickets) /\ Len(tickets) \in Nat
      /\ DOMAIN tickets = 1..Len(tickets) /\ DOMAIN tickets' = 1..Len(tickets)
      /\ \A j \in 1..Len(tickets) : tickets'[j].room = tickets[j].room
  <2>1. tickets \in Seq(Ticket) /\ i \in 1..Len(tickets)
    BY <1>1, <1>3 DEF SupportOK, i
  <2>2. /\ tickets' \in Seq(Ticket) /\ Len(tickets') = Len(tickets)
        /\ \A j \in 1..Len(tickets) : tickets'[j] = IF j = i THEN t ELSE tickets[j]
    BY <1>4, <2>1, ExceptSeq
  <2>3. /\ Len(tickets) \in Nat /\ DOMAIN tickets = 1..Len(tickets)
        /\ DOMAIN tickets' = 1..Len(tickets')
    BY <2>1, <2>2, LenProperties
  <2>4. QED
    BY <1>4, <2>2, <2>3
<1>6. \A m \in Rooms : TicketsOf(m)' = TicketsOf(m)
  BY <1>5 DEF TicketsOf
<1>7. Grows
  <2>1. \A u \in Users, g \in Groups : Found(u, g) => Found(u, g)'
    BY <1>2 DEF Found, Stay, connections, groups, groupVars
  <2>2. QED
    BY <1>5, <1>6, <2>1 DEF Grows
<1>8. SupportOK'
  BY <1>1, <1>2, <1>5 DEF SupportOK, queue, histories
<1>9. Moves(r, "idle") /\ SlotsOK' /\ Knows(r)'
  BY <1>1, <1>2, EndStep
<1>10. QED
  BY <1>2, <1>7, <1>8, <1>9, SupportMove DEF histories

(* The detachment worker takes no slot.                                    *)
LEMMA WorkerStep ==
    ASSUME IInv, alone' \in BOOLEAN, NEW j \in Jobs, JobFind(j) \/ JobSave(j)
    PROVE  IInv'
<1>1. SocketsOK /\ GroupsOK /\ SupportOK /\ HandlersKnow /\ NothingIsForgotten
  BY DEF IInv, TypeOK
<1>2. Stay /\ UNCHANGED <<room, stamped, tickets, entry, jobFor, contacted, answered, pc, arg>>
  BY DEF JobFind, JobSave, sessions, histories
<1>3. SupportOK'
  <2>1. CASE JobFind(j)
    BY <1>1, <2>1 DEF JobFind, SupportOK, sessions, histories
  <2>2. CASE JobSave(j)
    <3>1. agent' \in [Agents -> {"available", "busy"}] /\ serves' \in [Agents -> SUBSET Customers]
      BY <1>1, <2>2 DEF JobSave, Available, SupportOK
    <3>2. job' \in [Jobs -> {"none", "delayed", "read busy", "read available", "done"}]
      BY <1>1, <2>2 DEF JobSave, SupportOK
    <3>3. QED
      BY <1>1, <1>2, <3>1, <3>2 DEF SupportOK
  <2>3. QED
    BY <2>1, <2>2
<1>4. Grows
  BY <1>1, <1>2, StayGrows
<1>5. HandlersKnow'
  BY <1>1, <1>2, <1>4, KnowsKept DEF HandlersKnow, Rests
<1>6. SlotsOK'
  BY <1>1, <1>2, SocketsSlots DEF SlotsOK
<1>7. SocketsOK' /\ GroupsOK'
  BY <1>1, <1>2, <1>6, StayTyped
<1>8. NothingIsForgotten'
  BY <1>1, <1>2
  DEF NothingIsForgotten, ContactsCount, RowsAreFound, TicketsOf, At, Stay, connections, groups,
      groupVars
<1>9. QED
  BY <1>3, <1>5, <1>7, <1>8 DEF IInv, TypeOK

-----------------------------------------------------------------------------
LEMMA NextInvariant == IInv /\ [Next]_vars => IInv'
<1> SUFFICES ASSUME IInv, [Next]_vars PROVE IInv'
  OBVIOUS
<1>1. CASE UNCHANGED vars
  <2>1. UNCHANGED <<connections, groups, groupVars, supportVars, alone, pc, arg>>
    BY <1>1 DEF vars
  <2>2. TypeOK'
    BY <2>1
    DEF connections, groups, groupVars, supportVars, sessions, queue, histories, IInv, TypeOK,
        SocketsOK, GroupsOK, SupportOK
  <2>3. HandlersKnow'
    BY <2>1
    DEF connections, groups, groupVars, supportVars, sessions, IInv, HandlersKnow, Knows, Found,
        TicketsOf, At
  <2>4. NothingIsForgotten'
    BY <2>1
    DEF connections, groups, groupVars, supportVars, sessions, histories, IInv, TicketsOf,
        NothingIsForgotten, ContactsCount, RowsAreFound, At
  <2>5. QED
    BY <2>2, <2>3, <2>4 DEF IInv
<1>2. CASE Next
  <2>1. Step /\ alone' \in BOOLEAN
    <3>1. alone \in BOOLEAN
      BY DEF IInv, TypeOK, SocketsOK
    <3>2. alone' = (alone /\ OneAtATime')
      BY <1>2 DEF Next
    <3>3. alone' \in BOOLEAN
      BY <3>1, <3>2, Zenon
    <3>4. QED
      BY <1>2, <3>3 DEF Next
  <2>2. CASE Throw
    BY <2>1, <2>2, DieStep DEF Throw
  <2>3. ASSUME NEW r \in Requests, SocketsArrive(r) \/ SocketsContinue(r),
               UNCHANGED <<groupVars, supportVars>>
        PROVE  IInv'
    BY <2>1, <2>3, SocketsStep
  <2>4. ASSUME NEW r \in Requests, GroupsArrive(r) \/ GroupsContinue(r), UNCHANGED supportVars
        PROVE  IInv'
    BY <2>1, <2>4, GroupsBegin, CreateRoomStep, CreateSaddStep, AddStep, LeaveStep
    DEF GroupsContinue
  <2>5. ASSUME NEW r \in Requests, GroupsThrow(r), Stalled,
               UNCHANGED <<sessions, entry, jobFor, histories>>
        PROVE  IInv'
    BY <2>1, <2>5, DieStep DEF GroupsThrow, AddSocketMissing, AddRowTwice, AdminOnly
  <2>6. ASSUME NEW r \in Requests, SupportArrive(r), ~Throw PROVE IInv'
    BY <2>1, <2>6, SupportBegin
  <2>7. ASSUME NEW r \in Requests, SupportContinue(r), ~Throw PROVE IInv'
    <3>1. ASSUME NEW at, NEW step, <<at, step>> \in CallTable, Target(r, at, step) PROVE IInv'
      BY <2>1, <2>7, <3>1, TargetStep
    <3>2. QED
      BY <2>1, <2>7, <3>1, ContactStep, ReplyStep, SayStep, TicketStep
      DEF SupportContinue, CallTable
  <2>8. ASSUME GroupsClient, UNCHANGED supportVars PROVE IInv'
    BY <2>1, <2>8, JoinStep DEF GroupsClient
  <2>9. CASE Worker
    BY <2>1, <2>9, WorkerStep DEF Worker
  <2>10. QED
    BY <2>1, <2>2, <2>3, <2>4, <2>5, <2>6, <2>7, <2>8, <2>9 DEF Step, Crash
<1>3. QED
  BY <1>1, <1>2

(* The strengthened invariant of the chat, for any number of users,        *)
(* groups, rooms, tickets, jobs and handlers, wherever the process dies.   *)
THEOREM Invariance == Spec => []IInv
<1>1. Init => IInv
  BY InitInvariant
<1>2. IInv /\ [Next]_vars => IInv'
  BY NextInvariant
<1>3. QED
  BY <1>1, <1>2, PTL DEF Spec

(* The chat's variables keep their types.                                  *)
THEOREM TypeCorrect == Spec => []TypeOK
<1>1. IInv => TypeOK
  BY DEF IInv
<1>2. QED
  BY <1>1, Invariance, PTL

(* However listeners overlap and wherever the process dies: a contact that *)
(* contactSupport has finished is kept as a time or as a ticket, and the   *)
(* row of a group's member has its set in Redis.                           *)
THEOREM NothingForgotten == Spec => []NothingIsForgotten
<1>1. IInv => NothingIsForgotten
  BY DEF IInv
<1>2. QED
  BY <1>1, Invariance, PTL

-----------------------------------------------------------------------------
(* Between handlers that run one at a time: connections and groups.        *)
Linking == OfSockets \cup {"create.room", "create.sadd", "leave.srem"} \cup Adding

(* What is linked with nothing open stays so before any step that opens    *)
(* nothing.                                                                *)
LEMMA LinkedOn ==
    ASSUME NEW s, s \notin Linking, NEW a, Linked(s, a)
    PROVE  /\ \A t, b : AgreeWith(t, b)
           /\ \A t, b : t \notin Linking => Linked(t, b)
<1>1. ASSUME NEW t, NEW b
      PROVE  AgreeWith(t, b)
  BY DEF Linked, AgreeWith, Linking, Adding
<1>2. ASSUME NEW t, NEW b, t \notin Linking
      PROVE  FoundWith(t, b) /\ GroupsKnow(t, b)
  BY <1>2 DEF Linked, FoundWith, GroupsKnow, Linking, Adding, OfSockets
<1>3. ToldBelong
  BY DEF Linked
<1>4. QED
  BY <1>1, <1>2, <1>3 DEF Linked

LEMMA LinkedThere ==
    ASSUME NEW r \in Requests, NEW s, NEW a, pc'[r] = s, arg'[r] = a, Linked(s, a)'
    PROVE  Linked(pc[r], arg[r])'
  BY DEF Linked, FoundWith, AgreeWith, GroupsKnow, ToldBelong, Connected

LEMMA LinkedKept ==
    ASSUME NEW s, NEW a, Linked(s, a), UNCHANGED <<connections, groups, groupVars>>
    PROVE  Linked(s, a)'
<1>1. /\ open' = open /\ registry' = registry /\ groupsOf' = groupsOf /\ joined' = joined
      /\ twice' = twice /\ told' = told /\ dropped' = dropped /\ unheard' = unheard
  BY DEF connections, groups, groupVars
<1>2. FoundWith(s, a)' /\ GroupsKnow(s, a)' /\ ToldBelong'
  BY <1>1 DEF Linked, FoundWith, GroupsKnow, ToldBelong, Connected
<1>3. AgreeWith(s, a)'
  BY <1>1 DEF Linked, AgreeWith
<1>4. QED
  BY <1>2, <1>3 DEF Linked

LEMMA SlotMoves ==
    ASSUME SocketsOK, NEW r \in Requests
    PROVE  /\ \A a, s : Begin(r, a, s) => pc'[r] = s /\ arg'[r] = a /\ pc[r] = "idle"
           /\ Finish(r) => pc'[r] = "idle" /\ arg'[r] = NoArg
           /\ \A s : Goto(r, s) => pc'[r] = s /\ arg'[r] = arg[r]
           /\ arg[r] \in Arg
  BY DEF SocketsOK, Begin, Finish, Goto

LEMMA JoinedAt ==
    ASSUME SocketsOK, NEW u \in Users, NEW s \in Sockets, NEW G,
           joined' = [joined EXCEPT ![u][s] = G]
    PROVE  /\ joined'[u][s] = G
           /\ \A v \in Users, x \in Sockets : v # u \/ x # s => joined'[v][x] = joined[v][x]
  BY DEF SocketsOK

(* Sockets come and go.                                                    *)
LEMMA LinkedConnect ==
    ASSUME IInv, NEW r \in Requests, Linked(pc[r], arg[r]), NEW u \in Users, Connect(r, u),
           UNCHANGED groupVars
    PROVE  Linked(pc[r], arg[r])'
<1>1. PICK b : b = [NoArg EXCEPT !.user = u, !.socket = opened[u] + 1]
  OBVIOUS
<1>2. b.user = u
  BY <1>1 DEF NoArg
<1>3. pc[r] = "idle" /\ pc'[r] = "init.set" /\ arg'[r] = b
  BY <1>1, SlotMoves DEF Connect, IInv, TypeOK
<1>4. Linked("idle", arg[r]) /\ AgreeWith("init.set", b)
  BY <1>3, LinkedOn DEF Linking, OfSockets, Adding
<1>5. /\ UNCHANGED <<open, registry, groupsOf, joined, told, dropped, unheard>>
      /\ \A v \in Users \ twice' : v \notin twice
      /\ u \notin twice' => ~Connected(u)
  BY DEF Connect, groupVars, Connected
<1>6. FoundWith("init.set", b)'
  BY <1>2, <1>4, <1>5 DEF Linked, FoundWith, Connected
<1>7. AgreeWith("init.set", b)'
  BY <1>4, <1>5 DEF AgreeWith, Adding
<1>8. GroupsKnow("init.set", b)' /\ ToldBelong'
  BY <1>4, <1>5 DEF GroupsKnow, Adding, Linked, ToldBelong
<1>9. QED
  BY <1>3, <1>6, <1>7, <1>8, LinkedThere DEF Linked

LEMMA LinkedInitSet ==
    ASSUME IInv, NEW r \in Requests, Linked(pc[r], arg[r]), InitSet(r), UNCHANGED groupVars
    PROVE  Linked(pc[r], arg[r])'
<1>1. PICK a : a = arg[r]
  OBVIOUS
<1>2. pc[r] = "init.set" /\ a.user \in Users
  BY <1>1 DEF InitSet, At, IInv, HandlersKnow, Knows, OfSockets
<1>3. pc'[r] = "init.groups" /\ arg'[r] = a
  BY <1>1, SlotMoves DEF InitSet, IInv, TypeOK
<1>4. Linked("init.set", a)
  BY <1>1, <1>2
<1>5. /\ UNCHANGED <<open, twice, groupsOf, joined, told, dropped, unheard>>
      /\ registry'[a.user] = a.socket /\ \A v \in Users \ {a.user} : registry'[v] = registry[v]
  BY <1>1, <1>2 DEF InitSet, groupVars, groups, IInv, TypeOK, SocketsOK
<1>6. FoundWith("init.groups", a)'
  BY <1>4, <1>5 DEF Linked, FoundWith, Connected, OfSockets
<1>7. AgreeWith("init.groups", a)'
  BY <1>4, <1>5 DEF Linked, AgreeWith, Adding
<1>8. GroupsKnow("init.groups", a)' /\ ToldBelong'
  BY <1>4, <1>5 DEF GroupsKnow, Adding, Linked, ToldBelong
<1>9. QED
  BY <1>3, <1>6, <1>7, <1>8, LinkedThere DEF Linked

LEMMA LinkedInitGroups ==
    ASSUME IInv, NEW r \in Requests, Linked(pc[r], arg[r]), InitGroups(r), UNCHANGED groupVars
    PROVE  Linked(pc[r], arg[r])'
<1>1. PICK a : a = arg[r]
  OBVIOUS
<1>2. pc[r] = "init.groups" /\ a.user \in Users /\ a.socket \in Sockets
  BY <1>1 DEF InitGroups, At, IInv, HandlersKnow, Knows, OfSockets
<1>3. pc'[r] = "idle" /\ arg'[r] = NoArg
  BY SlotMoves DEF InitGroups, IInv, TypeOK
<1>4. Linked("init.groups", a) /\ SocketsOK
  BY <1>1, <1>2 DEF IInv, TypeOK
<1>5. UNCHANGED <<registry, groupsOf, twice, told, dropped, unheard>>
  BY DEF InitGroups, groupVars
<1>6. \/ UNCHANGED <<open, joined>>
      \/ /\ open' = [open EXCEPT ![a.user] = @ \cup {a.socket}]
         /\ joined' = [joined EXCEPT ![a.user][a.socket] = groupsOf[a.user]]
  BY <1>1 DEF InitGroups
<1>7. CASE UNCHANGED <<open, joined>>
  <2>1. FoundWith("idle", NoArg)'
    BY <1>4, <1>5, <1>7 DEF Linked, FoundWith, Connected, OfSockets
  <2>2. AgreeWith("idle", NoArg)'
    BY <1>4, <1>5, <1>7 DEF Linked, AgreeWith, Adding
  <2>3. GroupsKnow("idle", NoArg)' /\ ToldBelong'
    BY <1>4, <1>5 DEF GroupsKnow, Adding, Linked, ToldBelong
  <2>4. QED
    BY <1>3, <2>1, <2>2, <2>3, LinkedThere DEF Linked
<1>8. CASE /\ open' = [open EXCEPT ![a.user] = @ \cup {a.socket}]
           /\ joined' = [joined EXCEPT ![a.user][a.socket] = groupsOf[a.user]]
  <2>1. /\ joined'[a.user][a.socket] = groupsOf[a.user]
        /\ \A v \in Users, x \in Sockets :
              v # a.user \/ x # a.socket => joined'[v][x] = joined[v][x]
    <3>1. PICK u, s, G : u = a.user /\ s = a.socket /\ G = groupsOf[a.user]
      OBVIOUS
    <3>2. u \in Users /\ s \in Sockets /\ SocketsOK /\ joined' = [joined EXCEPT ![u][s] = G]
      BY <1>2, <1>4, <1>8, <3>1
    <3>3. /\ joined'[u][s] = G
          /\ \A v \in Users, x \in Sockets : v # u \/ x # s => joined'[v][x] = joined[v][x]
      BY <3>2 DEF SocketsOK
    <3>4. QED
      BY <3>1, <3>3
  <2>2. /\ \A v \in Users \ {a.user} : open'[v] = open[v]
        /\ open'[a.user] = open[a.user] \cup {a.socket}
    BY <1>2, <1>4, <1>8 DEF SocketsOK
  <2>3. a.user \notin twice => open'[a.user] = {a.socket} /\ registry[a.user] = a.socket
    <3> SUFFICES ASSUME a.user \notin twice
                 PROVE  open'[a.user] = {a.socket} /\ registry[a.user] = a.socket
      OBVIOUS
    <3>1. open[a.user] = {}
      BY <1>2, <1>4 DEF Linked, FoundWith, Connected, OfSockets
    <3>2. registry[a.user] = a.socket
      BY <1>4 DEF Linked, GroupsKnow
    <3>3. QED
      BY <2>2, <3>1, <3>2
  <2>4. FoundWith("idle", NoArg)'
    <3> SUFFICES ASSUME NEW u \in Users \ twice
                 PROVE  /\ \A x, y \in open'[u] : x = y
                        /\ open'[u] # {} => registry[u] \in open'[u]
      BY <1>5 DEF FoundWith, Connected, OfSockets
    <3>1. CASE u = a.user
      BY <2>3, <3>1
    <3>2. CASE u # a.user
      BY <1>4, <2>2, <3>2 DEF Linked, FoundWith, Connected
    <3>3. QED
      BY <3>1, <3>2
  <2>5. AgreeWith("idle", NoArg)'
    <3> SUFFICES ASSUME NEW u \in Users \ twice, NEW x \in Sockets, NEW g \in Groups, x \in open'[u]
                 PROVE  /\ g \in joined'[u][x] => g \in groupsOf[u] \/ <<u, g>> \in dropped
                        /\ g \in groupsOf[u] => \/ g \in joined'[u][x] \/ <<<<u, g>>, x>> \in unheard
                                                \/ <<u, g>> \in told
      BY <1>5 DEF AgreeWith
    <3>1. CASE u = a.user
      BY <2>1, <2>3, <3>1
    <3>2. CASE u # a.user
      BY <1>4, <2>1, <2>2, <3>2 DEF Linked, AgreeWith, Adding
    <3>3. QED
      BY <3>1, <3>2
  <2>6. GroupsKnow("idle", NoArg)' /\ ToldBelong'
    BY <1>4, <1>5 DEF GroupsKnow, Adding, Linked, ToldBelong
  <2>7. QED
    BY <1>3, <2>4, <2>5, <2>6, LinkedThere DEF Linked
<1>9. QED
  BY <1>6, <1>7, <1>8

LEMMA LinkedDisconnect ==
    ASSUME IInv, NEW r \in Requests, Linked(pc[r], arg[r]), NEW u \in Users, NEW s \in Sockets,
           Disconnect(r, u, s), UNCHANGED groupVars
    PROVE  Linked(pc[r], arg[r])'
<1>1. PICK b : b = [NoArg EXCEPT !.user = u, !.socket = s]
  OBVIOUS
<1>2. b.user = u
  BY <1>1 DEF NoArg
<1>3. pc[r] = "idle" /\ pc'[r] = "bye.delete" /\ arg'[r] = b /\ SocketsOK
  BY <1>1, SlotMoves DEF Disconnect, IInv, TypeOK
<1>4. Linked("idle", arg[r]) /\ AgreeWith("bye.delete", b)
  BY <1>3, LinkedOn DEF Linking, OfSockets, Adding
<1>5. UNCHANGED <<registry, groupsOf, twice, told, dropped, unheard>>
  BY DEF Disconnect, groupVars
<1>6. /\ open'[u] = open[u] \ {s} /\ s \in open[u]
      /\ \A v \in Users \ {u} : open'[v] = open[v]
  BY <1>3 DEF Disconnect, SocketsOK
<1>7. \A v \in Users, x \in Sockets : v # u \/ x # s => joined'[v][x] = joined[v][x]
  BY <1>3, JoinedAt DEF Disconnect
<1>8. u \notin twice => open'[u] = {}
  BY <1>4, <1>6 DEF Linked, FoundWith
<1>9. FoundWith("bye.delete", b)'
  BY <1>2, <1>4, <1>5, <1>6, <1>8 DEF Linked, FoundWith, Connected, OfSockets
<1>10. AgreeWith("bye.delete", b)'
  BY <1>4, <1>5, <1>6, <1>7, <1>8 DEF AgreeWith, Adding
<1>11. GroupsKnow("bye.delete", b)' /\ ToldBelong'
  BY <1>4, <1>5 DEF GroupsKnow, Adding, Linked, ToldBelong
<1>12. QED
  BY <1>3, <1>9, <1>10, <1>11, LinkedThere DEF Linked

LEMMA LinkedBye ==
    ASSUME IInv, NEW r \in Requests, Linked(pc[r], arg[r]), ByeDelete(r), UNCHANGED groupVars
    PROVE  Linked(pc[r], arg[r])'
<1>1. PICK a : a = arg[r]
  OBVIOUS
<1>2. pc[r] = "bye.delete" /\ a.user \in Users
  BY <1>1 DEF ByeDelete, At, IInv, HandlersKnow, Knows, OfSockets
<1>3. pc'[r] = "idle" /\ arg'[r] = NoArg
  BY SlotMoves DEF ByeDelete, IInv, TypeOK
<1>4. Linked("bye.delete", a)
  BY <1>1, <1>2
<1>5. /\ UNCHANGED <<open, twice, groupsOf, joined, told, dropped, unheard>>
      /\ \A v \in Users \ {a.user} : registry'[v] = registry[v]
  BY <1>1, <1>2 DEF ByeDelete, groupVars, groups, IInv, TypeOK, SocketsOK
<1>6. FoundWith("idle", NoArg)'
  BY <1>4, <1>5 DEF Linked, FoundWith, Connected, OfSockets
<1>7. AgreeWith("idle", NoArg)'
  BY <1>4, <1>5 DEF Linked, AgreeWith, Adding
<1>8. GroupsKnow("idle", NoArg)' /\ ToldBelong'
  BY <1>4, <1>5 DEF GroupsKnow, Adding, Linked, ToldBelong
<1>9. QED
  BY <1>3, <1>6, <1>7, <1>8, LinkedThere DEF Linked

(* Steps of groups.                                                        *)
LEMMA LinkedLook ==
    ASSUME NEW r \in Requests, NEW s, NEW a, NEW t, NEW b, Linked(s, a), s \notin Linking,
           pc'[r] = t, arg'[r] = b, t \notin OfSockets, GroupsKnow(t, b),
           UNCHANGED <<connections, groups, groupVars>>
    PROVE  Linked(pc[r], arg[r])'
<1>1. AgreeWith(t, b)
  BY LinkedOn
<1>2. FoundWith(t, b) /\ ToldBelong
  BY DEF Linked, FoundWith
<1>3. Linked(t, b)
  BY <1>1, <1>2 DEF Linked
<1>4. QED
  BY <1>3, LinkedKept, LinkedThere

LEMMA LinkedBegins ==
    ASSUME IInv, NEW r \in Requests, Linked(pc[r], arg[r]), NEW u \in Users, NEW g \in Groups,
           \/ \E s \in Sockets : CreateBegin(r, u, s, g)
           \/ \E v \in Users : AddBegin(r, u, g, v)
           \/ DeleteBegin(r, u, g)
    PROVE  Linked(pc[r], arg[r])'
<1>1. pc[r] = "idle" /\ pc[r] \notin Linking /\ SocketsOK
  BY DEF CreateBegin, AddBegin, DeleteBegin, Begin, Linking, OfSockets, Adding, IInv, TypeOK
<1>2. UNCHANGED <<connections, groups, groupVars>>
  BY DEF CreateBegin, AddBegin, DeleteBegin
<1>3. ASSUME NEW s \in Sockets, CreateBegin(r, u, s, g)
      PROVE  Linked(pc[r], arg[r])'
  <2>1. PICK b : b = [NoArg EXCEPT !.user = u, !.socket = s, !.group = g]
    OBVIOUS
  <2>2. b.user = u /\ b.socket = s
    BY <2>1 DEF NoArg
  <2>3. pc'[r] = "create.room" /\ arg'[r] = b
    BY <1>1, <1>3, <2>1, SlotMoves DEF CreateBegin
  <2>4. GroupsKnow("create.room", b)
    BY <1>3, <2>2 DEF GroupsKnow, CreateBegin, Adding
  <2>5. QED
    BY <1>1, <1>2, <2>3, <2>4, LinkedLook DEF OfSockets
<1>4. CASE DeleteBegin(r, u, g) \/ \E v \in Users : AddBegin(r, u, g, v)
  <2>1. pc'[r] \in {"add.sadd", "delete.srem"}
    BY <1>1, <1>4, SlotMoves DEF DeleteBegin, AddBegin
  <2>2. PICK t, b : t = pc'[r] /\ b = arg'[r]
    OBVIOUS
  <2>3. GroupsKnow(t, b) /\ t \notin OfSockets
    BY <2>1, <2>2 DEF GroupsKnow, Adding, OfSockets
  <2>4. QED
    BY <1>1, <1>2, <2>2, <2>3, LinkedLook
<1>5. QED
  BY <1>3, <1>4

LEMMA LinkedCreateRoom ==
    ASSUME IInv, NEW r \in Requests, Linked(pc[r], arg[r]), CreateRoom(r)
    PROVE  Linked(pc[r], arg[r])'
<1>1. PICK a : a = arg[r]
  OBVIOUS
<1>2. /\ pc[r] = "create.room" /\ a.user \in Users /\ a.group \in Groups
      /\ SocketsOK
  BY <1>1 DEF CreateRoom, At, IInv, TypeOK, HandlersKnow, Knows, OfGroups
<1>3. Linked("create.room", a) /\ a.socket \in open[a.user] /\ a.socket \in Sockets
  BY <1>1, <1>2 DEF Linked, GroupsKnow, SocketsOK
<1>4. UNCHANGED <<open, registry, twice, groupsOf, told, dropped, unheard>>
  BY DEF CreateRoom, connections
<1>5. CASE Finish(r) /\ UNCHANGED joined
  <2>1. pc'[r] = "idle" /\ arg'[r] = NoArg
    BY <1>2, <1>5, SlotMoves
  <2>2. FoundWith("idle", NoArg)'
    BY <1>3, <1>4 DEF Linked, FoundWith, Connected, OfSockets
  <2>3. AgreeWith("idle", NoArg)'
    BY <1>3, <1>4, <1>5 DEF Linked, AgreeWith, Adding
  <2>4. GroupsKnow("idle", NoArg)' /\ ToldBelong'
    BY <1>3, <1>4 DEF Linked, GroupsKnow, Adding, ToldBelong
  <2>5. QED
    BY <2>1, <2>2, <2>3, <2>4, LinkedThere DEF Linked
<1>6. CASE /\ joined' = [joined EXCEPT ![a.user][a.socket] = @ \cup {a.group}]
           /\ Goto(r, "create.sadd")
  <2>1. pc'[r] = "create.sadd" /\ arg'[r] = a
    BY <1>1, <1>2, <1>6, SlotMoves
  <2>2. /\ joined'[a.user][a.socket] = joined[a.user][a.socket] \cup {a.group}
        /\ \A v \in Users, x \in Sockets :
              v # a.user \/ x # a.socket => joined'[v][x] = joined[v][x]
    <3>1. PICK u, s, g : u = a.user /\ s = a.socket /\ g = a.group
      OBVIOUS
    <3>2. u \in Users /\ s \in Sockets /\ joined' = [joined EXCEPT ![u][s] = @ \cup {g}]
      BY <1>2, <1>3, <1>6, <3>1
    <3>3. /\ joined'[u][s] = joined[u][s] \cup {g}
          /\ \A v \in Users, x \in Sockets : v # u \/ x # s => joined'[v][x] = joined[v][x]
      BY <1>2, <3>2 DEF SocketsOK
    <3>4. QED
      BY <3>1, <3>3
  <2>3. FoundWith("create.sadd", a)'
    BY <1>3, <1>4 DEF Linked, FoundWith, Connected, OfSockets
  <2>4. AgreeWith("create.sadd", a)'
    BY <1>3, <1>4, <2>2 DEF Linked, AgreeWith, Adding
  <2>5. a.user \notin twice => \A x \in open[a.user] : x = a.socket
    BY <1>2, <1>3 DEF Linked, FoundWith
  <2>6. GroupsKnow("create.sadd", a)'
    BY <1>4, <2>2, <2>5 DEF GroupsKnow, Adding
  <2>7. QED
    BY <1>3, <1>4, <2>1, <2>3, <2>4, <2>6, LinkedThere DEF Linked, ToldBelong
<1>7. QED
  BY <1>1, <1>3, <1>5, <1>6 DEF CreateRoom

(* Those who are told of a group, and those who are not.                   *)
LEMMA TellHears ==
    ASSUME NEW P \in SUBSET Pairs, Tell(P) \/ (Deaf(P) /\ UNCHANGED told), SocketsOK
    PROVE  /\ \A p \in P, x \in Sockets : x \in open[p[1]] => p \in told' \/ <<p, x>> \in unheard'
           /\ told' \subseteq told \cup P
           /\ \A p \in told : p \in told'
           /\ \A y \in unheard : y \in unheard'
<1>1. ASSUME NEW Q, Q \subseteq P, Deaf(Q)
      PROVE  /\ \A p \in Q, x \in Sockets : x \in open[p[1]] => <<p, x>> \in unheard'
             /\ \A y \in unheard : y \in unheard'
  BY <1>1 DEF Deaf
<1>2. CASE Tell(P)
  <2>1. PICK heard : /\ heard \subseteq P /\ told' = told \cup heard
                     /\ Deaf(P \ heard)
    BY <1>2 DEF Tell
  <2>2. QED
    BY <1>1, <2>1
<1>3. QED
  BY <1>1, <1>2

LEMMA LinkedCreateSadd ==
    ASSUME IInv, NEW r \in Requests, Linked(pc[r], arg[r]), CreateSadd(r)
    PROVE  Linked(pc[r], arg[r])'
<1>1. PICK a : a = arg[r]
  OBVIOUS
<1>2. pc[r] = "create.sadd" /\ a.user \in Users /\ a.group \in Groups /\ SocketsOK
  BY <1>1 DEF CreateSadd, At, IInv, TypeOK, HandlersKnow, Knows, OfGroups
<1>3. pc'[r] = "idle" /\ arg'[r] = NoArg
  BY <1>2, SlotMoves DEF CreateSadd
<1>4. Linked("create.sadd", a)
  BY <1>1, <1>2
<1>5. UNCHANGED <<open, registry, twice, joined, dropped>>
  BY DEF CreateSadd, connections
<1>6. PICK others : others = {v \in Users : <<v, a.group>> \in memberOf}
  OBVIOUS
<1>7. /\ others \subseteq Users
      /\ groupsOf' = [v \in Users |-> groupsOf[v] \cup IF v \in others \cup {a.user} THEN {a.group} ELSE {}]
      /\ Tell(others \X {a.group}) \/ (Deaf(others \X {a.group}) /\ UNCHANGED told)
  BY <1>1, <1>6 DEF CreateSadd
<1>8. PICK P : P = others \X {a.group}
  OBVIOUS
<1>9. P \in SUBSET Pairs /\ (\A p \in P : p[1] \in others /\ p[2] = a.group)
      /\ \A v \in others : <<v, a.group>> \in P
  BY <1>2, <1>7, <1>8 DEF Pairs
<1>10. /\ \A p \in P, x \in Sockets : x \in open[p[1]] => p \in told' \/ <<p, x>> \in unheard'
       /\ told' \subseteq told \cup P
       /\ \A p \in told : p \in told'
       /\ \A y \in unheard : y \in unheard'
  BY <1>2, <1>7, <1>8, <1>9, TellHears
<1>11. \A v \in others, x \in Sockets :
          x \in open[v] => <<v, a.group>> \in told' \/ <<<<v, a.group>>, x>> \in unheard'
  BY <1>9, <1>10
<1>12. /\ \A v \in Users, g \in Groups : g \in groupsOf[v] => g \in groupsOf'[v]
       /\ \A v \in Users, g \in Groups :
             g \in groupsOf'[v] => g \in groupsOf[v] \/ (g = a.group /\ v \in others \cup {a.user})
       /\ \A v \in others \cup {a.user} : a.group \in groupsOf'[v]
  BY <1>2, <1>7
<1>13. FoundWith("idle", NoArg)'
  BY <1>4, <1>5 DEF Linked, FoundWith, Connected, OfSockets
<1>14. AgreeWith("idle", NoArg)'
  <2> SUFFICES ASSUME NEW u \in Users \ twice, NEW x \in Sockets, NEW g \in Groups, x \in open[u]
               PROVE  /\ g \in joined[u][x] => g \in groupsOf'[u] \/ <<u, g>> \in dropped
                      /\ g \in groupsOf'[u] => \/ g \in joined[u][x] \/ <<<<u, g>>, x>> \in unheard'
                                               \/ <<u, g>> \in told'
    BY <1>5 DEF AgreeWith
  <2>1. /\ g \in joined[u][x] => \/ g \in groupsOf[u] \/ <<u, g>> \in dropped
                                 \/ u = a.user /\ g = a.group
        /\ g \in groupsOf[u] => \/ g \in joined[u][x] \/ <<<<u, g>>, x>> \in unheard
                                \/ <<u, g>> \in told
    BY <1>4 DEF Linked, AgreeWith, Adding
  <2>2. u = a.user => a.group \in joined[u][x]
    BY <1>4 DEF Linked, GroupsKnow
  <2>3. QED
    BY <1>10, <1>11, <1>12, <2>1, <2>2
<1>15. ToldBelong'
  <2> SUFFICES ASSUME NEW p \in told' PROVE p[2] \in groupsOf'[p[1]]
    BY DEF ToldBelong
  <2>1. CASE p \in told
    <3>1. p[1] \in Users /\ p[2] \in Groups /\ p[2] \in groupsOf[p[1]]
      BY <1>4, <2>1 DEF Linked, ToldBelong, IInv, TypeOK, GroupsOK, Pairs
    <3>2. QED
      BY <1>12, <3>1
  <2>2. CASE p \in P
    BY <1>9, <1>12, <2>2
  <2>3. QED
    BY <1>10, <2>1, <2>2
<1>16. GroupsKnow("idle", NoArg)'
  BY DEF GroupsKnow, Adding
<1>17. QED
  BY <1>3, <1>13, <1>14, <1>15, <1>16, LinkedThere DEF Linked

LEMMA LinkedJoin ==
    ASSUME IInv, Linked("idle", NoArg), NEW u \in Users, NEW s \in Sockets, NEW g \in Groups,
           Join(u, s, g)
    PROVE  Linked("idle", NoArg)'
<1>1. SocketsOK
  BY DEF IInv, TypeOK
<1>2. UNCHANGED <<open, registry, twice, groupsOf, dropped, unheard>>
  BY DEF Join, connections
<1>3. /\ joined'[u][s] = joined[u][s] \cup {g}
      /\ \A v \in Users, x \in Sockets : v # u \/ x # s => joined'[v][x] = joined[v][x]
  BY <1>1 DEF Join, SocketsOK
<1>4. s \in open[u] /\ <<u, g>> \in told /\ told' = told \ {<<u, g>>} /\ g \in groupsOf[u]
  <2>1. s \in open[u] /\ <<u, g>> \in told /\ told' = told \ {<<u, g>>}
    BY DEF Join
  <2>2. g \in groupsOf[u]
    BY <2>1 DEF Linked, ToldBelong
  <2>3. QED
    BY <2>1, <2>2
<1>5. FoundWith("idle", NoArg)'
  BY <1>2 DEF Linked, FoundWith, Connected, OfSockets
<1>6. AgreeWith("idle", NoArg)'
  <2> SUFFICES ASSUME NEW v \in Users \ twice, NEW x \in Sockets, NEW h \in Groups, x \in open[v]
               PROVE  /\ h \in joined'[v][x] => h \in groupsOf[v] \/ <<v, h>> \in dropped
                      /\ h \in groupsOf[v] => \/ h \in joined'[v][x] \/ <<<<v, h>>, x>> \in unheard
                                              \/ <<v, h>> \in told'
    BY <1>2 DEF AgreeWith
  <2>1. /\ h \in joined[v][x] => h \in groupsOf[v] \/ <<v, h>> \in dropped
        /\ h \in groupsOf[v] => \/ h \in joined[v][x] \/ <<<<v, h>>, x>> \in unheard
                                \/ <<v, h>> \in told
    BY DEF Linked, AgreeWith, Adding
  <2>2. v = u => x = s
    BY <1>4 DEF Linked, FoundWith
  <2>3. CASE v = u
    BY <1>3, <1>4, <2>1, <2>2, <2>3
  <2>4. CASE v # u
    BY <1>3, <1>4, <2>1, <2>4
  <2>5. QED
    BY <2>3, <2>4
<1>7. ToldBelong' /\ GroupsKnow("idle", NoArg)'
  BY <1>2, <1>4 DEF Linked, ToldBelong, GroupsKnow, Adding
<1>8. QED
  BY <1>5, <1>6, <1>7 DEF Linked

LEMMA LinkedAddSadd ==
    ASSUME IInv, NEW r \in Requests, Linked(pc[r], arg[r]), AddSadd(r)
    PROVE  Linked(pc[r], arg[r])'
<1>1. PICK a : a = arg[r]
  OBVIOUS
<1>2. pc[r] = "add.sadd" /\ a.peer \in Users /\ a.group \in Groups /\ SocketsOK
  BY <1>1 DEF AddSadd, At, IInv, TypeOK, HandlersKnow, Knows, OfGroups
<1>3. pc'[r] = "add.socket" /\ arg'[r] = a
  BY <1>1, <1>2, SlotMoves DEF AddSadd
<1>4. Linked("add.sadd", a)
  BY <1>1, <1>2
<1>5. UNCHANGED <<open, registry, twice, joined, told, dropped, unheard>>
  BY DEF AddSadd, connections
<1>6. /\ groupsOf'[a.peer] = groupsOf[a.peer] \cup {a.group}
      /\ \A v \in Users \ {a.peer} : groupsOf'[v] = groupsOf[v]
  BY <1>1, <1>2 DEF AddSadd, SocketsOK
<1>7. FoundWith("add.socket", a)'
  BY <1>4, <1>5 DEF Linked, FoundWith, Connected, OfSockets
<1>8. AgreeWith("add.socket", a)'
  BY <1>4, <1>5, <1>6 DEF Linked, AgreeWith, Adding
<1>9. GroupsKnow("add.socket", a)'
  BY <1>6 DEF GroupsKnow, Adding
<1>10. ToldBelong'
  <2> SUFFICES ASSUME NEW p \in told PROVE p[2] \in groupsOf'[p[1]]
    BY <1>5 DEF ToldBelong
  <2>1. p[1] \in Users /\ p[2] \in groupsOf[p[1]]
    BY <1>4 DEF Linked, ToldBelong, IInv, TypeOK, GroupsOK, Pairs
  <2>2. QED
    BY <1>6, <2>1
<1>11. QED
  BY <1>3, <1>7, <1>8, <1>9, <1>10, LinkedThere DEF Linked

LEMMA LinkedAddRow ==
    ASSUME IInv, NEW r \in Requests, Linked(pc[r], arg[r]), AddSocket(r) \/ AddRow(r)
    PROVE  Linked(pc[r], arg[r])'
<1>1. PICK s, a : s = pc[r] /\ a = arg[r]
  OBVIOUS
<1>2. s \in {"add.socket", "add.row"} /\ SocketsOK
  BY <1>1 DEF AddSocket, AddRow, At, IInv, TypeOK
<1>3. PICK t : t = pc'[r]
  OBVIOUS
<1>4. t \in {"add.row", "add.message"} /\ arg'[r] = a
  BY <1>1, <1>2, <1>3, SlotMoves DEF AddSocket, AddRow
<1>5. /\ UNCHANGED <<open, registry, twice, groupsOf, joined>>
      /\ UNCHANGED <<told, dropped, unheard>>
  BY DEF AddSocket, AddRow, connections, groups, groupVars
<1>6. Linked(s, a)
  BY <1>1
<1>7. FoundWith(t, a)'
  BY <1>4, <1>5, <1>6 DEF Linked, FoundWith, Connected, OfSockets
<1>8. AgreeWith(t, a)'
  BY <1>2, <1>4, <1>5, <1>6 DEF Linked, AgreeWith, Adding
<1>9. GroupsKnow(t, a)' /\ ToldBelong'
  BY <1>2, <1>4, <1>5, <1>6 DEF Linked, GroupsKnow, Adding, ToldBelong
<1>10. QED
  BY <1>3, <1>4, <1>7, <1>8, <1>9, LinkedThere DEF Linked

LEMMA LinkedAddMessage ==
    ASSUME IInv, NEW r \in Requests, Linked(pc[r], arg[r]), AddMessage(r)
    PROVE  Linked(pc[r], arg[r])'
<1>1. PICK a : a = arg[r]
  OBVIOUS
<1>2. pc[r] = "add.message" /\ a.peer \in Users /\ a.group \in Groups /\ SocketsOK
  BY <1>1 DEF AddMessage, At, IInv, TypeOK, HandlersKnow, Knows, OfGroups
<1>3. pc'[r] = "idle" /\ arg'[r] = NoArg
  BY <1>2, SlotMoves DEF AddMessage
<1>4. Linked("add.message", a)
  BY <1>1, <1>2
<1>5. UNCHANGED <<open, registry, twice, groupsOf, joined, dropped>>
  BY DEF AddMessage, connections, groups
<1>6. PICK P : P = {<<a.peer, a.group>>}
  OBVIOUS
<1>7. P \in SUBSET Pairs /\ Tell(P)
  BY <1>1, <1>2, <1>6 DEF AddMessage, Pairs
<1>8. /\ \A p \in P, x \in Sockets : x \in open[p[1]] => p \in told' \/ <<p, x>> \in unheard'
      /\ told' \subseteq told \cup P
      /\ \A p \in told : p \in told'
      /\ \A y \in unheard : y \in unheard'
  BY <1>2, <1>7, TellHears
<1>9. \A x \in Sockets : x \in open[a.peer] =>
         <<a.peer, a.group>> \in told' \/ <<<<a.peer, a.group>>, x>> \in unheard'
  BY <1>6, <1>8
<1>10. FoundWith("idle", NoArg)'
  BY <1>4, <1>5 DEF Linked, FoundWith, Connected, OfSockets
<1>11. AgreeWith("idle", NoArg)'
  <2> SUFFICES ASSUME NEW u \in Users \ twice, NEW x \in Sockets, NEW g \in Groups, x \in open[u]
               PROVE  /\ g \in joined[u][x] => g \in groupsOf[u] \/ <<u, g>> \in dropped
                      /\ g \in groupsOf[u] => \/ g \in joined[u][x] \/ <<<<u, g>>, x>> \in unheard'
                                              \/ <<u, g>> \in told'
    BY <1>5 DEF AgreeWith
  <2>1. /\ g \in joined[u][x] => g \in groupsOf[u] \/ <<u, g>> \in dropped
        /\ g \in groupsOf[u] => \/ g \in joined[u][x] \/ <<<<u, g>>, x>> \in unheard
                                \/ <<u, g>> \in told \/ (u = a.peer /\ g = a.group)
    BY <1>4 DEF Linked, AgreeWith
  <2>2. QED
    BY <1>8, <1>9, <2>1
<1>12. ToldBelong'
  <2>1. \A p \in told : p[2] \in groupsOf'[p[1]]
    BY <1>4, <1>5 DEF Linked, ToldBelong
  <2>2. \A p \in P : p[2] \in groupsOf'[p[1]]
    BY <1>4, <1>5, <1>6 DEF Linked, GroupsKnow, Adding
  <2>3. QED
    BY <1>8, <2>1, <2>2 DEF ToldBelong
<1>13. GroupsKnow("idle", NoArg)'
  BY DEF GroupsKnow, Adding
<1>14. QED
  BY <1>3, <1>10, <1>11, <1>12, <1>13, LinkedThere DEF Linked

LEMMA LinkedLeaveBegin ==
    ASSUME IInv, NEW r \in Requests, Linked(pc[r], arg[r]),
           NEW u \in Users, NEW s \in Sockets, NEW g \in Groups, LeaveBegin(r, u, s, g)
    PROVE  Linked(pc[r], arg[r])'
<1>1. PICK b : b = [NoArg EXCEPT !.user = u, !.group = g]
  OBVIOUS
<1>2. b.user = u /\ b.group = g
  BY <1>1 DEF NoArg
<1>3. pc[r] = "idle" /\ pc'[r] = "leave.srem" /\ arg'[r] = b /\ SocketsOK
  BY <1>1, SlotMoves DEF LeaveBegin, IInv, TypeOK
<1>4. Linked("idle", arg[r]) /\ AgreeWith("idle", b)
  BY <1>3, LinkedOn DEF Linking, OfSockets, Adding
<1>5. UNCHANGED <<open, registry, twice, groupsOf, told, dropped, unheard>>
  BY DEF LeaveBegin, connections, groupVars
<1>6. /\ s \in open[u] /\ joined'[u][s] = joined[u][s] \ {g}
      /\ \A v \in Users, x \in Sockets : v # u \/ x # s => joined'[v][x] = joined[v][x]
  BY <1>3 DEF LeaveBegin, SocketsOK
<1>7. u \notin twice => \A x \in open[u] : x = s
  BY <1>4, <1>6 DEF Linked, FoundWith
<1>8. FoundWith("leave.srem", b)'
  BY <1>4, <1>5 DEF Linked, FoundWith, Connected, OfSockets
<1>9. AgreeWith("leave.srem", b)'
  BY <1>2, <1>4, <1>5, <1>6 DEF AgreeWith, Adding
<1>10. GroupsKnow("leave.srem", b)' /\ ToldBelong'
  BY <1>2, <1>4, <1>5, <1>6, <1>7 DEF GroupsKnow, Adding, Linked, ToldBelong
<1>11. QED
  BY <1>3, <1>8, <1>9, <1>10, LinkedThere DEF Linked

LEMMA LinkedLeaveSrem ==
    ASSUME IInv, NEW r \in Requests, Linked(pc[r], arg[r]), LeaveSrem(r), told = {}
    PROVE  Linked(pc[r], arg[r])'
<1>1. PICK a : a = arg[r]
  OBVIOUS
<1>2. pc[r] = "leave.srem" /\ a.user \in Users /\ a.group \in Groups /\ SocketsOK
  BY <1>1 DEF LeaveSrem, At, IInv, TypeOK, HandlersKnow, Knows, OfGroups
<1>3. pc'[r] = "leave.message" /\ arg'[r] = a
  BY <1>1, <1>2, SlotMoves DEF LeaveSrem
<1>4. Linked("leave.srem", a)
  BY <1>1, <1>2
<1>5. UNCHANGED <<open, registry, twice, joined, told, unheard>>
  BY DEF LeaveSrem, connections
<1>6. /\ groupsOf'[a.user] = groupsOf[a.user] \ {a.group}
      /\ \A v \in Users \ {a.user} : groupsOf'[v] = groupsOf[v]
      /\ dropped' = dropped \ {<<a.user, a.group>>}
  BY <1>1, <1>2 DEF LeaveSrem, SocketsOK
<1>7. a.user \notin twice => \A x \in open[a.user] : a.group \notin joined[a.user][x]
  BY <1>4 DEF Linked, GroupsKnow
<1>8. FoundWith("leave.message", a)'
  BY <1>4, <1>5 DEF Linked, FoundWith, Connected, OfSockets
<1>9. AgreeWith("leave.message", a)'
  <2> SUFFICES ASSUME NEW u \in Users \ twice, NEW x \in Sockets, NEW g \in Groups, x \in open[u]
               PROVE  /\ g \in joined[u][x] => g \in groupsOf'[u] \/ <<u, g>> \in dropped'
                      /\ g \in groupsOf'[u] => \/ g \in joined[u][x] \/ <<<<u, g>>, x>> \in unheard
                                               \/ <<u, g>> \in told
    BY <1>5 DEF AgreeWith
  <2>1. /\ g \in joined[u][x] => g \in groupsOf[u] \/ <<u, g>> \in dropped
        /\ g \in groupsOf[u] => \/ g \in joined[u][x] \/ <<<<u, g>>, x>> \in unheard
                                \/ <<u, g>> \in told \/ (u = a.user /\ g = a.group)
    BY <1>4 DEF Linked, AgreeWith, Adding
  <2>2. QED
    BY <1>6, <1>7, <2>1
<1>10. GroupsKnow("leave.message", a)' /\ ToldBelong'
  BY <1>5 DEF GroupsKnow, Adding, ToldBelong
<1>11. QED
  BY <1>3, <1>8, <1>9, <1>10, LinkedThere DEF Linked

LEMMA LinkedDeleteSrem ==
    ASSUME IInv, NEW r \in Requests, Linked(pc[r], arg[r]), DeleteSrem(r), told = {}
    PROVE  Linked(pc[r], arg[r])'
<1>1. PICK a : a = arg[r]
  OBVIOUS
<1>2. pc[r] = "delete.srem" /\ SocketsOK
  BY DEF DeleteSrem, At, IInv, TypeOK
<1>3. pc'[r] = "delete.destroy" /\ arg'[r] = a
  BY <1>1, <1>2, SlotMoves DEF DeleteSrem
<1>4. Linked("delete.srem", a)
  BY <1>1, <1>2
<1>5. UNCHANGED <<open, registry, twice, joined, told, unheard>>
  BY DEF DeleteSrem, connections
<1>6. PICK named : groupsOf' = [v \in Users |-> groupsOf[v] \ IF v \in named THEN {a.group} ELSE {}]
  <2>1. PICK others \in SUBSET Users :
           groupsOf' = [v \in Users |-> groupsOf[v] \ IF v \in others \cup {a.user} THEN {a.group} ELSE {}]
    BY <1>1 DEF DeleteSrem
  <2>2. QED
    BY <2>1
<1>7. /\ \A v \in Users, g \in Groups : g \in groupsOf'[v] => g \in groupsOf[v]
      /\ \A v \in Users, g \in Groups : g \in groupsOf[v] => g \in groupsOf'[v] \/ g = a.group
  BY <1>6
<1>8. /\ \A p \in dropped : p \in dropped'
      /\ \A v \in Users, x \in Sockets : x \in open[v] /\ a.group \in joined[v][x] =>
            <<v, a.group>> \in dropped'
  BY <1>1 DEF DeleteSrem, Listening
<1>9. FoundWith("delete.destroy", a)'
  BY <1>4, <1>5 DEF Linked, FoundWith, Connected, OfSockets
<1>10. AgreeWith("delete.destroy", a)'
  <2> SUFFICES ASSUME NEW u \in Users \ twice, NEW x \in Sockets, NEW g \in Groups, x \in open[u]
               PROVE  /\ g \in joined[u][x] => g \in groupsOf'[u] \/ <<u, g>> \in dropped'
                      /\ g \in groupsOf'[u] => \/ g \in joined[u][x] \/ <<<<u, g>>, x>> \in unheard
                                               \/ <<u, g>> \in told
    BY <1>5 DEF AgreeWith
  <2>1. /\ g \in joined[u][x] => g \in groupsOf[u] \/ <<u, g>> \in dropped
        /\ g \in groupsOf[u] => \/ g \in joined[u][x] \/ <<<<u, g>>, x>> \in unheard
                                \/ <<u, g>> \in told
    BY <1>4 DEF Linked, AgreeWith, Adding
  <2>2. QED
    BY <1>7, <1>8, <2>1
<1>11. GroupsKnow("delete.destroy", a)' /\ ToldBelong'
  BY <1>5 DEF GroupsKnow, Adding, ToldBelong
<1>12. QED
  BY <1>3, <1>9, <1>10, <1>11, LinkedThere DEF Linked

LEMMA LinkedEnds ==
    ASSUME IInv, NEW r \in Requests, Linked(pc[r], arg[r]), LeaveMessage(r) \/ DeleteDestroy(r)
    PROVE  Linked(pc[r], arg[r])'
<1>1. pc[r] \notin Linking /\ UNCHANGED <<connections, groups, groupVars>> /\ SocketsOK
  BY DEF LeaveMessage, DeleteDestroy, At, Linking, OfSockets, Adding, IInv, TypeOK
<1>2. pc'[r] = "idle" /\ arg'[r] = NoArg
  BY <1>1, SlotMoves DEF LeaveMessage, DeleteDestroy
<1>3. GroupsKnow("idle", NoArg) /\ "idle" \notin OfSockets
  BY DEF GroupsKnow, Adding, OfSockets
<1>4. QED
  BY <1>1, <1>2, <1>3, LinkedLook

-----------------------------------------------------------------------------
(* Between handlers that run one at a time: support sessions.              *)
Serves == {"reply.unstamp", "reply.record", "say.entry", "say.unrecord", "say.remove"}
Supporting ==
    {"contact.socket", "contact.busy", "contact.log", "contact.stamp", "say.unrecord", "say.remove"}
    \cup OfReply \cup OfSaying

LEMMA ServedOn ==
    ASSUME NEW s, s \notin Serves, NEW a, Served(s, a), NEW t, NEW b
    PROVE  /\ TicketsWith(t, b) /\ Serving /\ JobsWith(t, b)
           /\ SupportKnows(t, b) => Served(t, b)
<1>1. TicketsWith(t, b)
  BY DEF Served, TicketsWith, Serves
<1>2. JobsWith(t, b)
  BY DEF Served, JobsWith, Serves
<1>3. QED
  BY <1>1, <1>2 DEF Served

LEMMA SupportQuiet == \A t, b : t \notin Supporting => SupportKnows(t, b)
  BY DEF Supporting, SupportKnows, OfReply, OfSaying

LEMMA ServedThere ==
    ASSUME NEW r \in Requests, NEW s, NEW a, pc'[r] = s, arg'[r] = a, Served(s, a)'
    PROVE  Served(pc[r], arg[r])'
<1>1. TicketsWith(pc[r], arg[r])' /\ Serving' /\ JobsWith(pc[r], arg[r])'
  BY DEF Served, TicketsWith, TicketsOf, Serving, JobsWith, LastWord
<1>2. SupportKnows(pc[r], arg[r])'
  BY DEF Served, SupportKnows, Talk, TicketsOf
<1>3. QED
  BY <1>1, <1>2 DEF Served

LEMMA ServedKept ==
    ASSUME NEW s, NEW a, Served(s, a), UNCHANGED supportVars
    PROVE  Served(s, a)'
<1>1. /\ agent' = agent /\ room' = room /\ stamped' = stamped /\ tickets' = tickets
      /\ entry' = entry /\ job' = job /\ jobFor' = jobFor /\ serves' = serves /\ answered' = answered
  BY DEF supportVars, sessions, queue, histories
<1>2. TicketsWith(s, a)' /\ Serving'
  BY <1>1 DEF Served, TicketsWith, TicketsOf, Serving
<1>3. JobsWith(s, a)'
  BY <1>1 DEF Served, JobsWith, LastWord
<1>4. SupportKnows(s, a)'
  BY <1>1 DEF Served, SupportKnows, Talk, TicketsOf
<1>5. QED
  BY <1>2, <1>3, <1>4 DEF Served

LEMMA ServedLook ==
    ASSUME NEW r \in Requests, NEW s, NEW a, NEW t, NEW b, Served(s, a), s \notin Serves,
           pc'[r] = t, arg'[r] = b, SupportKnows(t, b), UNCHANGED supportVars
    PROVE  Served(pc[r], arg[r])'
<1>1. Served(t, b)
  BY ServedOn
<1>2. QED
  BY <1>1, ServedKept, ServedThere

(* Steps that only look.                                                   *)
LEMMA ServedBegins ==
    ASSUME IInv, NEW r \in Requests, Served(pc[r], arg[r]), UNCHANGED supportVars,
           \/ \E c \in Customers :
                 \/ \E b \in Agents : /\ agent[b] = "available"
                                      /\ Begin(r, [NoArg EXCEPT !.user = c, !.peer = b], "contact.socket")
                 \/ \E b \in Agents : StartBegin(r, c, b)
           \/ \E m \in Rooms : \/ ReplyBegin(r, m) \/ SayBegin(r, m) \/ RateFind(r, m)
                               \/ \E b : Begin(r, b, "close.socket")
    PROVE  Served(pc[r], arg[r])'
<1>1. SocketsOK /\ SupportOK
  BY DEF IInv, TypeOK
<1>2. \A a, t : Begin(r, a, t) => /\ pc[r] = "idle" /\ pc[r] \notin Serves
                                  /\ pc'[r] = t /\ arg'[r] = a
  BY <1>1, SlotMoves DEF Serves
<1> DEFINE Good == Served(pc[r], arg[r])'
<1> SUFFICES Good
  OBVIOUS
<1>3. \A a, t : Begin(r, a, t) /\ SupportKnows(t, a) => Good
  BY <1>2, ServedLook
<1>4. \A a, t : Begin(r, a, t) /\ t \notin Supporting => Good
  BY <1>3, SupportQuiet
<1> HIDE DEF Good
<1>5. ASSUME NEW c \in Customers, NEW b \in Agents, agent[b] = "available",
             Begin(r, [NoArg EXCEPT !.user = c, !.peer = b], "contact.socket")
      PROVE  Good
  <2> DEFINE a == [NoArg EXCEPT !.user = c, !.peer = b]
  <2>1. Begin(r, a, "contact.socket") /\ a.peer = b
    BY <1>5 DEF NoArg
  <2> HIDE DEF a
  <2>2. SupportKnows("contact.socket", a)
    BY <1>5, <2>1 DEF SupportKnows, OfReply, OfSaying
  <2>3. QED
    BY <1>3, <2>1, <2>2
<1>6. ASSUME NEW c \in Customers, NEW b \in Agents, StartBegin(r, c, b)
      PROVE  Good
  <2>1. "start.target" \notin Supporting
    BY DEF Supporting, OfReply, OfSaying
  <2>2. QED
    BY <1>4, <1>6, <2>1 DEF StartBegin
<1>7. ASSUME NEW m \in Rooms, ReplyBegin(r, m)
      PROVE  Good
  <2> DEFINE a == [NoArg EXCEPT !.user = room[m].agent, !.peer = room[m].customer, !.room = m]
  <2>1. Begin(r, a, "reply.target") /\ a.user = room[m].agent /\ a.room = m /\ room[m] # NoRoom
    BY <1>7 DEF NoArg, ReplyBegin
  <2> HIDE DEF a
  <2>2. Talk(a.room, a.user)
    BY <1>1, <2>1, RoomsTyped DEF Talk
  <2>3. SupportKnows("reply.target", a)
    BY <2>2 DEF SupportKnows, OfReply, OfSaying
  <2>4. QED
    BY <1>3, <2>1, <2>3
<1>8. ASSUME NEW m \in Rooms, SayBegin(r, m)
      PROVE  Good
  <2> DEFINE a == [NoArg EXCEPT !.user = room[m].customer, !.peer = room[m].agent, !.room = m]
  <2>1. Begin(r, a, "say.target") /\ a.peer = room[m].agent /\ a.room = m /\ room[m] # NoRoom
    BY <1>8 DEF NoArg, SayBegin
  <2> HIDE DEF a
  <2>2. Talk(a.room, a.peer)
    BY <1>1, <2>1, RoomsTyped DEF Talk
  <2>3. SupportKnows("say.target", a)
    BY <2>2 DEF SupportKnows, OfReply, OfSaying
  <2>4. QED
    BY <1>3, <2>1, <2>3
<1>9. ASSUME NEW m \in Rooms, RateFind(r, m) \/ \E b : Begin(r, b, "close.socket")
      PROVE  Good
  <2>1. "rate.save" \notin Supporting /\ "close.socket" \notin Supporting
    BY DEF Supporting, OfReply, OfSaying
  <2>2. QED
    BY <1>4, <1>9, <2>1 DEF RateFind
<1>10. QED
  BY <1>5, <1>6, <1>7, <1>8, <1>9

LEMMA ServedTarget ==
    ASSUME IInv, NEW r \in Requests, Served(pc[r], arg[r]), UNCHANGED supportVars, NEW s, NEW t,
           <<s, t>> \in {<<"contact.socket", "contact.busy">>, <<"start.target", "start.room">>,
                         <<"reply.target", "reply.message">>, <<"say.target", "say.message">>,
                         <<"close.socket", "close.save">>, <<"contact.log", "contact.stamp">>},
           At(r, s), Goto(r, t)
    PROVE  Served(pc[r], arg[r])'
<1>1. PICK a : a = arg[r]
  OBVIOUS
<1>2. Served(s, a) /\ s \notin Serves /\ pc'[r] = t /\ arg'[r] = a
  BY <1>1, SlotMoves DEF At, Serves, IInv, TypeOK
<1>3. SupportKnows(t, a)
  BY <1>2 DEF Served, SupportKnows, OfReply, OfSaying
<1>4. QED
  BY <1>2, <1>3, ServedLook

LEMMA ServedReads ==
    ASSUME IInv, NEW r \in Requests, Served(pc[r], arg[r]), ReplyStamp(r) \/ ReplyPending(r) \/ DetachLog(r)
    PROVE  Served(pc[r], arg[r])'
<1>1. PICK s, a : s = pc[r] /\ a = arg[r]
  OBVIOUS
<1>2. s \in {"reply.stamp", "reply.pending", "detach.log"} /\ Served(s, a) /\ s \notin Serves
  BY <1>1 DEF ReplyStamp, ReplyPending, DetachLog, At, Serves
<1>3. SocketsOK /\ UNCHANGED supportVars
  BY DEF IInv, TypeOK, ReplyStamp, ReplyPending, DetachLog
<1>4. CASE ReplyStamp(r)
  <2>1. s = "reply.stamp" /\ arg'[r] = a
        /\ pc'[r] = IF a.room \in stamped THEN "reply.ticket" ELSE "reply.pending"
    BY <1>1, <1>3, <1>4, SlotMoves DEF ReplyStamp, At
  <2>2. PICK t : t = pc'[r]
    OBVIOUS
  <2>3. SupportKnows(t, a)
    BY <1>2, <2>1, <2>2 DEF Served, SupportKnows, OfReply, OfSaying
  <2>4. QED
    BY <1>2, <1>3, <2>1, <2>2, <2>3, ServedLook
<1>5. CASE ReplyPending(r) /\ entry[a.user] = None
  <2>1. s = "reply.pending" /\ arg'[r] = a /\ pc'[r] = "reply.add"
    BY <1>1, <1>3, <1>5, SlotMoves DEF ReplyPending, At
  <2>2. SupportKnows("reply.add", a)
    BY <1>2, <1>5, <2>1 DEF Served, SupportKnows, OfReply, OfSaying
  <2>3. QED
    BY <1>2, <1>3, <2>1, <2>2, ServedLook
<1>6. CASE Finish(r)
  <2>1. pc'[r] = "idle" /\ "idle" \notin Supporting
    BY <1>3, <1>6, SlotMoves DEF Supporting, OfReply, OfSaying
  <2>2. QED
    BY <1>2, <1>3, <2>1, SupportQuiet, ServedLook
<1>7. QED
  BY <1>1, <1>4, <1>5, <1>6 DEF ReplyPending, DetachLog

(* Steps with agents and rooms.                                            *)
LEMMA ServedDetach ==
    ASSUME IInv, NEW r \in Requests, Served(pc[r], arg[r]), NEW u \in Agents, DetachUpdate(r, u)
    PROVE  Served(pc[r], arg[r])'
<1>1. pc[r] = "idle" /\ pc'[r] = "detach.log" /\ SupportOK
  BY SlotMoves DEF DetachUpdate, IInv, TypeOK
<1>2. PICK b : b = arg'[r]
  OBVIOUS
<1>3. TicketsWith("detach.log", b) /\ Serving /\ JobsWith("detach.log", b)
  BY <1>1, ServedOn DEF Serves
<1>4. UNCHANGED <<room, stamped, tickets, entry, job, jobFor, answered>>
  BY DEF DetachUpdate, queue
<1>5. TicketsWith("detach.log", b)' /\ JobsWith("detach.log", b)'
  BY <1>3, <1>4 DEF TicketsWith, TicketsOf, JobsWith, LastWord
<1>6. Serving'
  BY <1>1, <1>3, ZenonT(60) DEF DetachUpdate, Available, Serving, SupportOK
<1>7. SupportKnows("detach.log", b)'
  BY DEF SupportKnows, OfReply, OfSaying
<1>8. QED
  BY <1>1, <1>2, <1>5, <1>6, <1>7, ServedThere DEF Served

LEMMA ServedBusy ==
    ASSUME IInv, NEW r \in Requests, Served(pc[r], arg[r]), ContactBusy(r)
    PROVE  Served(pc[r], arg[r])'
<1>1. PICK a : a = arg[r]
  OBVIOUS
<1>2. pc[r] = "contact.busy" /\ a.peer \in Agents /\ SocketsOK /\ SupportOK
  BY <1>1 DEF ContactBusy, At, IInv, TypeOK, HandlersKnow, Knows, OfContact
<1>3. pc'[r] = "contact.room" /\ arg'[r] = a
  BY <1>1, <1>2, SlotMoves DEF ContactBusy
<1>4. TicketsWith("contact.room", a) /\ Serving /\ JobsWith("contact.room", a)
  BY <1>2, ServedOn DEF Serves
<1>5. agent[a.peer] = "available"
  BY <1>1, <1>2 DEF Served, SupportKnows
<1>6. UNCHANGED <<room, stamped, tickets, entry, job, jobFor, answered>>
  BY DEF ContactBusy, queue
<1>7. TicketsWith("contact.room", a)' /\ JobsWith("contact.room", a)'
  BY <1>4, <1>6 DEF TicketsWith, TicketsOf, JobsWith, LastWord
<1>8. /\ agent'[a.peer] = "busy" /\ serves'[a.peer] = serves[a.peer] \cup {a.user}
      /\ \A b \in Agents \ {a.peer} : agent'[b] = agent[b] /\ serves'[b] = serves[b]
  BY <1>1, <1>2 DEF ContactBusy, SupportOK
<1>9. serves[a.peer] = {}
  BY <1>2, <1>4, <1>5 DEF Serving
<1>10. Serving'
  <2> SUFFICES ASSUME NEW b \in Agents
               PROVE  /\ agent'[b] = "available" => serves'[b] = {}
                      /\ \A c, d \in serves'[b] : c = d
    BY DEF Serving
  <2>1. CASE b = a.peer
    BY <1>8, <1>9, <2>1
  <2>2. CASE b # a.peer
    BY <1>4, <1>8, <2>2 DEF Serving
  <2>3. QED
    BY <2>1, <2>2
<1>11. SupportKnows("contact.room", a)'
  BY DEF SupportKnows, OfReply, OfSaying
<1>12. QED
  BY <1>3, <1>7, <1>10, <1>11, ServedThere DEF Served

(* A room is opened where there was none.                                  *)
LEMMA RoomOpened ==
    ASSUME SupportOK, NEW m \in Rooms, NEW c \in Customers, NEW b \in Agents,
           room[m] = NoRoom, room' = [room EXCEPT ![m] = [customer |-> c, agent |-> b]],
           UNCHANGED <<stamped, tickets, entry, job, jobFor, answered>>,
           NEW s, NEW a, TicketsWith(s, a), JobsWith(s, a)
    PROVE  /\ room'[m] # NoRoom /\ TicketsOf(m)' = {}
           /\ TicketsWith(s, a)' /\ JobsWith(s, a)'
<1>1. \A x \in Rooms \ {m} : room'[x] = room[x]
  BY DEF SupportOK
<1>2. room'[m] # NoRoom
  <2>1. c # None /\ room'[m].customer = c
    BY NoneAssumption, PeopleAssumption DEF SupportOK
  <2>2. NoRoom.customer = None
    BY DEF NoRoom
  <2>3. QED
    BY <2>1, <2>2
<1>3. \A x \in Rooms : TicketsOf(x)' = TicketsOf(x)
  BY DEF TicketsOf
<1>4. TicketsOf(m)' = {}
  BY <1>3 DEF TicketsWith
<1>5. TicketsWith(s, a)'
  <2> SUFFICES ASSUME NEW x \in Rooms
               PROVE  /\ \A t, o \in TicketsOf(x)' : t = o
                      /\ x \in stamped => TicketsOf(x)' = {} \/ (s = "reply.unstamp" /\ x = a.room)
                      /\ room'[x] = NoRoom => x \notin stamped /\ TicketsOf(x)' = {}
    BY DEF TicketsWith, TicketsOf
  <2>1. TicketsOf(x)' = TicketsOf(x) /\ (room'[x] = NoRoom => room[x] = NoRoom)
    BY <1>1, <1>2, <1>3
  <2> HIDE DEF TicketsOf
  <2>2. QED
    BY <2>1 DEF TicketsWith
<1>6. \A d : LastWord(d) => LastWord(d)'
  <2> SUFFICES ASSUME NEW d, LastWord(d) PROVE LastWord(d)'
    OBVIOUS
  <2>1. PICK x \in Rooms : room[x] # NoRoom /\ room[x].agent = d /\ x \in answered
    BY DEF LastWord
  <2>2. x # m
    BY <2>1
  <2>3. room'[x] = room[x] /\ x \in answered'
    BY <1>1, <2>1, <2>2
  <2>4. QED
    BY <2>1, <2>3 DEF LastWord
<1>7. JobsWith(s, a)'
  <2>1. \A j \in Jobs : LastWord(jobFor[j]) => LastWord(jobFor[j])'
    <3> SUFFICES ASSUME NEW j \in Jobs, LastWord(jobFor[j]) PROVE LastWord(jobFor[j])'
      OBVIOUS
    <3>1. PICK d : d = jobFor[j]
      OBVIOUS
    <3>2. LastWord(d)'
      BY <1>6, <3>1
    <3>3. QED
      BY <3>1, <3>2 DEF LastWord
  <2>2. QED
    BY <2>1 DEF JobsWith, LastWord
<1>8. QED
  BY <1>2, <1>4, <1>5, <1>7

LEMMA ServedRoom ==
    ASSUME IInv, NEW r \in Requests, Served(pc[r], arg[r]), ContactRoom(r)
    PROVE  Served(pc[r], arg[r])'
<1>1. PICK a : a = arg[r]
  OBVIOUS
<1>2. /\ pc[r] = "contact.room" /\ a.user \in Customers /\ a.peer \in Agents /\ a \in Arg
      /\ SocketsOK /\ SupportOK
  BY <1>1, SlotMoves DEF ContactRoom, At, IInv, TypeOK, HandlersKnow, Knows, OfContact
<1>3. PICK m \in Rooms : OpenRoom(m, a.user, a.peer) /\ arg' = [arg EXCEPT ![r].room = m]
  BY <1>1 DEF ContactRoom
<1>4. PICK b : b = [a EXCEPT !.room = m]
  OBVIOUS
<1>5. b.room = m
  BY <1>2, <1>4 DEF Arg
<1>6. pc'[r] = "contact.log" /\ arg'[r] = b
  BY <1>1, <1>2, <1>3, <1>4 DEF ContactRoom, SocketsOK
<1>7. TicketsWith("contact.log", b) /\ Serving /\ JobsWith("contact.log", b)
  BY <1>2, ServedOn DEF Serves
<1>8. UNCHANGED <<agent, serves>> /\ UNCHANGED <<stamped, tickets, entry, job, jobFor, answered>>
  BY DEF ContactRoom, queue, histories
<1>9. /\ room'[m] # NoRoom /\ TicketsOf(m)' = {}
      /\ TicketsWith("contact.log", b)' /\ JobsWith("contact.log", b)'
  BY <1>2, <1>3, <1>7, <1>8, RoomOpened DEF OpenRoom
<1>10. Serving'
  BY <1>7, <1>8 DEF Serving
<1>11. SupportKnows("contact.log", b)'
  BY <1>5, <1>9 DEF SupportKnows, OfReply, OfSaying, TicketsOf
<1>12. QED
  BY <1>6, <1>9, <1>10, <1>11, ServedThere DEF Served

LEMMA ServedStart ==
    ASSUME IInv, NEW r \in Requests, Served(pc[r], arg[r]), StartRoom(r)
    PROVE  Served(pc[r], arg[r])'
<1>1. pc[r] = "start.room" /\ SocketsOK /\ SupportOK
  BY DEF StartRoom, At, IInv, TypeOK
<1>2. pc'[r] = "idle" /\ arg'[r] = NoArg
  BY <1>1, SlotMoves DEF StartRoom
<1>3. PICK m \in Rooms, c \in Customers, b \in Agents :
         /\ room[m] = NoRoom
         /\ room' = [room EXCEPT ![m] = [customer |-> c, agent |-> b]]
  BY DEF StartRoom, OpenRoom
<1>4. TicketsWith("idle", NoArg) /\ Serving /\ JobsWith("idle", NoArg)
  BY <1>1, ServedOn DEF Serves
<1>5. UNCHANGED <<agent, serves>> /\ UNCHANGED <<stamped, tickets, entry, job, jobFor, answered>>
  BY DEF StartRoom, queue, histories
<1>6. TicketsWith("idle", NoArg)' /\ JobsWith("idle", NoArg)'
  BY <1>1, <1>3, <1>4, <1>5, RoomOpened
<1>7. Serving'
  BY <1>4, <1>5 DEF Serving
<1>8. SupportKnows("idle", NoArg)'
  BY DEF SupportKnows, OfReply, OfSaying
<1>9. QED
  BY <1>2, <1>6, <1>7, <1>8, ServedThere DEF Served

LEMMA ServedStamp ==
    ASSUME IInv, NEW r \in Requests, Served(pc[r], arg[r]), ContactStamp(r)
    PROVE  Served(pc[r], arg[r])'
<1>1. PICK a : a = arg[r]
  OBVIOUS
<1>2. pc[r] = "contact.stamp" /\ SocketsOK
  BY DEF ContactStamp, At, IInv, TypeOK
<1>3. pc'[r] = "idle" /\ arg'[r] = NoArg
  BY <1>2, SlotMoves DEF ContactStamp
<1>4. TicketsWith("idle", NoArg) /\ Serving /\ JobsWith("idle", NoArg)
  BY <1>2, ServedOn DEF Serves
<1>5. room[a.room] # NoRoom /\ TicketsOf(a.room) = {}
  BY <1>1, <1>2 DEF Served, SupportKnows
<1>6. /\ UNCHANGED <<agent, room, tickets, entry, job, jobFor, serves, answered>>
      /\ stamped' = stamped \cup {a.room}
  BY <1>1 DEF ContactStamp, queue
<1>7. \A m \in Rooms : TicketsOf(m)' = TicketsOf(m)
  BY <1>6 DEF TicketsOf
<1>8. TicketsWith("idle", NoArg)'
  <2> SUFFICES ASSUME NEW m \in Rooms
               PROVE  /\ \A t, o \in TicketsOf(m) : t = o
                      /\ m \in stamped' => TicketsOf(m) = {}
                      /\ room[m] = NoRoom => m \notin stamped' /\ TicketsOf(m) = {}
    BY <1>6, <1>7 DEF TicketsWith, TicketsOf
  <2>1. QED
    BY <1>4, <1>5, <1>6 DEF TicketsWith
<1>9. JobsWith("idle", NoArg)' /\ Serving'
  BY <1>4, <1>6 DEF JobsWith, LastWord, Serving
<1>10. SupportKnows("idle", NoArg)'
  BY DEF SupportKnows, OfReply, OfSaying
<1>11. QED
  BY <1>3, <1>8, <1>9, <1>10, ServedThere DEF Served

(* Steps of the agent's answer.                                            *)
LEMMA ServedReplyMessage ==
    ASSUME IInv, NEW r \in Requests, Served(pc[r], arg[r]), ReplyMessage(r)
    PROVE  Served(pc[r], arg[r])'
<1>1. PICK a : a = arg[r]
  OBVIOUS
<1>2. pc[r] = "reply.message" /\ SocketsOK /\ SupportOK
  BY DEF ReplyMessage, At, IInv, TypeOK
<1>3. pc'[r] = "reply.stamp" /\ arg'[r] = a
  BY <1>1, <1>2, SlotMoves DEF ReplyMessage
<1>4. TicketsWith("reply.stamp", a) /\ Serving /\ JobsWith("reply.stamp", a)
  BY <1>2, ServedOn DEF Serves
<1>5. Talk(a.room, a.user)
  BY <1>1, <1>2 DEF Served, SupportKnows, OfReply
<1>6. /\ UNCHANGED <<agent, room, stamped, tickets, entry, job, jobFor, serves>>
      /\ answered' = answered \cup {a.room}
  BY <1>1, <1>2, <1>5 DEF ReplyMessage, sessions, queue, Talk, SupportOK
<1>7. TicketsWith("reply.stamp", a)' /\ Serving'
  BY <1>4, <1>6 DEF TicketsWith, TicketsOf, Serving
<1>8. \A b : LastWord(b) => \E m \in Rooms : room[m] # NoRoom /\ room[m].agent = b /\ m \in answered'
  BY <1>5, <1>6 DEF LastWord, Talk
<1>9. JobsWith("reply.stamp", a)'
  BY <1>4, <1>6, <1>8 DEF JobsWith, LastWord
<1>10. SupportKnows("reply.stamp", a)'
  BY <1>5, <1>6 DEF SupportKnows, OfReply, OfSaying, Talk
<1>11. QED
  BY <1>3, <1>7, <1>9, <1>10, ServedThere DEF Served

LEMMA ServedTicket ==
    ASSUME IInv, NEW r \in Requests, Served(pc[r], arg[r]), ReplyTicket(r)
    PROVE  Served(pc[r], arg[r])'
<1>1. PICK a, n : /\ a = arg[r]
                  /\ n = [room |-> arg[r].room, agent |-> arg[r].user, status |-> "pending", rated |-> FALSE]
  OBVIOUS
<1>2. pc[r] = "reply.ticket" /\ SocketsOK /\ SupportOK
  BY DEF ReplyTicket, At, IInv, TypeOK
<1>3. pc'[r] = "reply.unstamp" /\ arg'[r] = a
  BY <1>1, <1>2, SlotMoves DEF ReplyTicket
<1>4. TicketsWith("idle", NoArg) /\ Serving /\ JobsWith("reply.unstamp", a)
  BY <1>2, ServedOn DEF Serves
<1>5. Talk(a.room, a.user) /\ a.room \in answered /\ a.room \in stamped /\ TicketsOf(a.room) = {}
  <2>1. Talk(a.room, a.user) /\ a.room \in answered /\ a.room \in stamped
    BY <1>1, <1>2 DEF Served, SupportKnows, OfReply
  <2>2. QED
    BY <1>4, <2>1 DEF TicketsWith, Talk
<1>6. /\ UNCHANGED <<agent, room, stamped, entry, job, jobFor, serves, answered>>
      /\ tickets' = Append(tickets, n)
  BY <1>1 DEF ReplyTicket, queue, histories
<1>7. /\ Len(tickets) \in Nat /\ DOMAIN tickets = 1..Len(tickets)
      /\ DOMAIN tickets' = 1..(Len(tickets) + 1)
      /\ tickets'[Len(tickets) + 1].room = a.room
      /\ \A t \in 1..Len(tickets) : tickets'[t] = tickets[t]
  <2>1. tickets \in Seq(Ticket)
    BY <1>2 DEF SupportOK
  <2>2. Len(tickets) \in Nat /\ DOMAIN tickets = 1..Len(tickets)
    BY <2>1, LenProperties
  <2>3. /\ DOMAIN tickets' = 1..(Len(tickets) + 1) /\ tickets'[Len(tickets) + 1] = n
        /\ \A t \in 1..Len(tickets) : tickets'[t] = tickets[t]
    BY <1>6, <2>1, <2>2
  <2>4. n.room = a.room
    BY <1>1
  <2>5. QED
    BY <2>2, <2>3, <2>4
<1>8. /\ \A m \in Rooms \ {a.room} : TicketsOf(m)' = TicketsOf(m)
      /\ TicketsOf(a.room)' = {Len(tickets) + 1}
  <2>1. ASSUME NEW m \in Rooms \ {a.room} PROVE TicketsOf(m)' = TicketsOf(m)
    BY <1>7 DEF TicketsOf
  <2>2. TicketsOf(a.room)' = {Len(tickets) + 1}
    BY <1>5, <1>7 DEF TicketsOf
  <2>3. QED
    BY <2>1, <2>2
<1>9. TicketsWith("reply.unstamp", a)'
  <2> SUFFICES ASSUME NEW m \in Rooms
               PROVE  /\ \A t, o \in TicketsOf(m)' : t = o
                      /\ m \in stamped => TicketsOf(m)' = {} \/ m = a.room
                      /\ room[m] = NoRoom => m \notin stamped /\ TicketsOf(m)' = {}
    BY <1>6 DEF TicketsWith, TicketsOf
  <2> HIDE DEF TicketsOf
  <2>1. CASE m = a.room
    BY <1>5, <1>8, <2>1 DEF Talk
  <2>2. CASE m # a.room
    BY <1>4, <1>8, <2>2 DEF TicketsWith
  <2>3. QED
    BY <2>1, <2>2
<1>10. Serving' /\ JobsWith("reply.unstamp", a)'
  BY <1>4, <1>6 DEF Serving, JobsWith, LastWord
<1>11. SupportKnows("reply.unstamp", a)'
  BY <1>5, <1>6 DEF SupportKnows, OfReply, OfSaying, Talk
<1>12. QED
  BY <1>3, <1>9, <1>10, <1>11, ServedThere DEF Served

LEMMA ServedUnstamp ==
    ASSUME IInv, NEW r \in Requests, Served(pc[r], arg[r]), ReplyUnstamp(r)
    PROVE  Served(pc[r], arg[r])'
<1>1. PICK a : a = arg[r]
  OBVIOUS
<1>2. pc[r] = "reply.unstamp" /\ SocketsOK
  BY DEF ReplyUnstamp, At, IInv, TypeOK
<1>3. pc'[r] = "reply.pending" /\ arg'[r] = a
  BY <1>1, <1>2, SlotMoves DEF ReplyUnstamp
<1>4. Served("reply.unstamp", a)
  BY <1>1, <1>2
<1>5. /\ UNCHANGED <<agent, room, tickets, entry, job, jobFor, serves, answered>>
      /\ stamped' = stamped \ {a.room}
  BY <1>1 DEF ReplyUnstamp, queue, histories
<1>6. TicketsWith("reply.pending", a)'
  BY <1>4, <1>5 DEF Served, TicketsWith, TicketsOf
<1>7. Serving' /\ JobsWith("reply.pending", a)'
  BY <1>4, <1>5 DEF Served, Serving, JobsWith, LastWord
<1>8. SupportKnows("reply.pending", a)'
  BY <1>4, <1>5 DEF Served, SupportKnows, OfReply, OfSaying, Talk
<1>9. QED
  BY <1>3, <1>6, <1>7, <1>8, ServedThere DEF Served

LEMMA ServedAdd ==
    ASSUME IInv, NEW r \in Requests, Served(pc[r], arg[r]), ReplyAdd(r)
    PROVE  Served(pc[r], arg[r])'
<1>1. PICK a : a = arg[r]
  OBVIOUS
<1>2. pc[r] = "reply.add" /\ SocketsOK /\ SupportOK /\ a \in Arg
  BY <1>1, SlotMoves DEF ReplyAdd, At, IInv, TypeOK
<1>3. PICK j \in Jobs : /\ job' = [job EXCEPT ![j] = "delayed"]
                        /\ jobFor' = [jobFor EXCEPT ![j] = a.user]
                        /\ arg' = [arg EXCEPT ![r].job = j]
  BY <1>1 DEF ReplyAdd
<1>4. PICK b : b = [a EXCEPT !.job = j]
  OBVIOUS
<1>5. b.user = a.user /\ b.room = a.room /\ b.job = j
  BY <1>2, <1>4 DEF Arg
<1>6. pc'[r] = "reply.record" /\ arg'[r] = b
  BY <1>1, <1>2, <1>3, <1>4 DEF ReplyAdd, SocketsOK
<1>7. TicketsWith("reply.record", b) /\ Serving /\ JobsWith("idle", NoArg)
  BY <1>2, ServedOn DEF Serves
<1>8. Talk(a.room, a.user) /\ a.room \in answered /\ entry[a.user] = None
  BY <1>1, <1>2 DEF Served, SupportKnows, OfReply
<1>9. UNCHANGED <<agent, room, stamped, tickets, entry, serves, answered>>
  BY DEF ReplyAdd, sessions, histories
<1>10. /\ jobFor'[j] = a.user
       /\ \A i \in Jobs \ {j} : job'[i] = job[i] /\ jobFor'[i] = jobFor[i]
  BY <1>2, <1>3 DEF SupportOK
<1>11. TicketsWith("reply.record", b)' /\ Serving'
  BY <1>7, <1>9 DEF TicketsWith, TicketsOf, Serving
<1>12. JobsWith("reply.record", b)'
  <2>1. LastWord(a.user) /\ a.user \in Agents
    BY <1>8 DEF LastWord, Talk
  <2> SUFFICES ASSUME NEW i \in Jobs, job'[i] = "delayed"
               PROVE  /\ jobFor'[i] \in Agents
                      /\ entry[jobFor'[i]] = i \/ i = b.job
                      /\ \E m \in Rooms :
                            room[m] # NoRoom /\ room[m].agent = jobFor'[i] /\ m \in answered
    BY <1>9 DEF JobsWith, LastWord
  <2>2. CASE i = j
    BY <1>5, <1>10, <2>1, <2>2 DEF LastWord
  <2>3. CASE i # j
    BY <1>7, <1>10, <2>3 DEF JobsWith, LastWord
  <2>4. QED
    BY <2>2, <2>3
<1>13. SupportKnows("reply.record", b)'
  BY <1>5, <1>8, <1>9, <1>10 DEF SupportKnows, OfReply, OfSaying, Talk
<1>14. QED
  BY <1>6, <1>11, <1>12, <1>13, ServedThere DEF Served

LEMMA ServedRecord ==
    ASSUME IInv, NEW r \in Requests, Served(pc[r], arg[r]), ReplyRecord(r)
    PROVE  Served(pc[r], arg[r])'
<1>1. PICK a : a = arg[r]
  OBVIOUS
<1>2. pc[r] = "reply.record" /\ SocketsOK /\ SupportOK
  BY DEF ReplyRecord, At, IInv, TypeOK
<1>3. pc'[r] = "idle" /\ arg'[r] = NoArg
  BY <1>2, SlotMoves DEF ReplyRecord
<1>4. Served("reply.record", a)
  BY <1>1, <1>2
<1>5. a.user \in Agents /\ entry[a.user] = None /\ jobFor[a.job] = a.user
  BY <1>4 DEF Served, SupportKnows, OfReply, Talk
<1>6. /\ UNCHANGED <<agent, room, stamped, tickets, job, jobFor, serves, answered>>
      /\ entry'[a.user] = a.job /\ \A b \in Agents \ {a.user} : entry'[b] = entry[b]
  BY <1>1, <1>2, <1>5 DEF ReplyRecord, sessions, histories, SupportOK
<1>7. TicketsWith("idle", NoArg)' /\ Serving'
  BY <1>4, <1>6 DEF Served, TicketsWith, TicketsOf, Serving
<1>8. JobsWith("idle", NoArg)'
  <2> SUFFICES ASSUME NEW j \in Jobs, job[j] = "delayed"
               PROVE  /\ jobFor[j] \in Agents /\ entry'[jobFor[j]] = j
                      /\ LastWord(jobFor[j])
    BY <1>6 DEF JobsWith, LastWord
  <2>1. /\ jobFor[j] \in Agents /\ LastWord(jobFor[j])
        /\ entry[jobFor[j]] = j \/ j = a.job
    BY <1>4 DEF Served, JobsWith
  <2>2. CASE j = a.job
    BY <1>5, <1>6, <2>1, <2>2
  <2>3. CASE j # a.job
    <3>1. jobFor[j] # a.user
      BY <1>5, <2>1, <2>3, NoneAssumption
    <3>2. QED
      BY <1>6, <2>1, <2>3, <3>1
  <2>4. QED
    BY <2>2, <2>3
<1>9. SupportKnows("idle", NoArg)'
  BY DEF SupportKnows, OfReply, OfSaying
<1>10. QED
  BY <1>3, <1>7, <1>8, <1>9, ServedThere DEF Served

(* Steps of the customer's answer.                                         *)
LEMMA ServedSayMessage ==
    ASSUME IInv, NEW r \in Requests, Served(pc[r], arg[r]), SayMessage(r)
    PROVE  Served(pc[r], arg[r])'
<1>1. PICK a : a = arg[r]
  OBVIOUS
<1>2. pc[r] = "say.message" /\ SocketsOK /\ SupportOK /\ UNCHANGED <<sessions, queue, serves>>
  BY DEF SayMessage, At, IInv, TypeOK
<1>3. Talk(a.room, a.peer)
  BY <1>1, <1>2 DEF Served, SupportKnows, OfSaying
<1>4. UNCHANGED <<agent, room, stamped, tickets, entry, job, jobFor, serves>>
  BY <1>2 DEF sessions, queue
<1>5. CASE Finish(r) /\ UNCHANGED answered
  <2>1. pc'[r] = "idle" /\ arg'[r] = NoArg
    BY <1>2, <1>5, SlotMoves
  <2>2. TicketsWith("idle", NoArg) /\ Serving /\ JobsWith("idle", NoArg)
    BY <1>2, ServedOn DEF Serves
  <2>3. TicketsWith("idle", NoArg)' /\ Serving' /\ JobsWith("idle", NoArg)'
    BY <1>4, <1>5, <2>2 DEF TicketsWith, TicketsOf, Serving, JobsWith, LastWord
  <2>4. SupportKnows("idle", NoArg)'
    BY DEF SupportKnows, OfReply, OfSaying
  <2>5. QED
    BY <2>1, <2>3, <2>4, ServedThere DEF Served
<1>6. CASE answered' = answered \ {a.room} /\ Goto(r, "say.entry")
  <2>1. pc'[r] = "say.entry" /\ arg'[r] = a
    BY <1>1, <1>2, <1>6, SlotMoves
  <2>2. TicketsWith("say.entry", a) /\ Serving /\ JobsWith("idle", NoArg)
    BY <1>2, ServedOn DEF Serves
  <2>3. TicketsWith("say.entry", a)' /\ Serving'
    BY <1>4, <2>2 DEF TicketsWith, TicketsOf, Serving
  <2>4. \A m \in Rooms \ {a.room} : m \in answered' <=> m \in answered
    BY <1>6
  <2>5. \A b : LastWord(b) => b = a.peer \/
                  \E m \in Rooms : room[m] # NoRoom /\ room[m].agent = b /\ m \in answered'
    BY <1>3, <2>4 DEF LastWord, Talk
  <2>6. JobsWith("say.entry", a)'
    BY <1>4, <2>2, <2>5 DEF JobsWith, LastWord
  <2>7. SupportKnows("say.entry", a)'
    BY <1>3, <1>4 DEF SupportKnows, OfReply, OfSaying, Talk
  <2>8. QED
    BY <2>1, <2>3, <2>6, <2>7, ServedThere DEF Served
<1>7. QED
  BY <1>1, <1>5, <1>6 DEF SayMessage

LEMMA ServedSayEntry ==
    ASSUME IInv, NEW r \in Requests, Served(pc[r], arg[r]), SayEntry(r)
    PROVE  Served(pc[r], arg[r])'
<1>1. PICK a, j : a = arg[r] /\ j = entry[arg[r].peer]
  OBVIOUS
<1>2. pc[r] = "say.entry" /\ SocketsOK /\ SupportOK /\ UNCHANGED supportVars /\ a \in Arg
  BY <1>1, SlotMoves DEF SayEntry, At, IInv, TypeOK
<1>3. Served("say.entry", a) /\ j = entry[a.peer]
  BY <1>1, <1>2
<1>4. Talk(a.room, a.peer)
  BY <1>3 DEF Served, SupportKnows, OfSaying
<1>5. CASE j = None /\ Finish(r)
  <2>1. pc'[r] = "idle" /\ arg'[r] = NoArg
    BY <1>2, <1>5, SlotMoves
  <2>2. TicketsWith("idle", NoArg)
    BY <1>3 DEF Served, TicketsWith
  <2>3. JobsWith("idle", NoArg)
    <3> SUFFICES ASSUME NEW i \in Jobs, job[i] = "delayed"
                 PROVE  jobFor[i] \in Agents /\ entry[jobFor[i]] = i /\ LastWord(jobFor[i])
      BY DEF JobsWith
    <3>1. /\ jobFor[i] \in Agents /\ entry[jobFor[i]] = i
          /\ LastWord(jobFor[i]) \/ jobFor[i] = a.peer
      BY <1>3 DEF Served, JobsWith
    <3>2. jobFor[i] # a.peer
      BY <1>3, <1>5, <3>1, NoneAssumption
    <3>3. QED
      BY <3>1, <3>2
  <2>4. SupportKnows("idle", NoArg)
    BY DEF SupportKnows, OfReply, OfSaying
  <2>5. Served("idle", NoArg)
    BY <1>3, <2>2, <2>3, <2>4 DEF Served
  <2>6. QED
    BY <1>2, <2>1, <2>5, ServedKept, ServedThere
<1>6. CASE j # None /\ arg' = [arg EXCEPT ![r].job = j] /\ pc' = [pc EXCEPT ![r] = "say.unrecord"]
  <2>1. PICK b : b = [a EXCEPT !.job = j]
    OBVIOUS
  <2>2. b.peer = a.peer /\ b.job = j
    BY <1>2, <2>1 DEF Arg
  <2>3. pc'[r] = "say.unrecord" /\ arg'[r] = b
    BY <1>1, <1>2, <1>6, <2>1 DEF SocketsOK
  <2>4. TicketsWith("say.unrecord", b)
    BY <1>3 DEF Served, TicketsWith
  <2>5. JobsWith("say.unrecord", b)
    BY <1>3, <2>2 DEF Served, JobsWith
  <2>6. SupportKnows("say.unrecord", b)
    <3>1. b.peer \in Agents /\ b.job \in Jobs /\ entry[b.peer] = b.job
      BY <1>2, <1>3, <1>4, <1>6, <2>2, ZenonT(60) DEF Talk, SupportOK
    <3>2. QED
      BY <3>1 DEF SupportKnows, OfReply, OfSaying
  <2>7. Served("say.unrecord", b)
    BY <1>3, <2>4, <2>5, <2>6 DEF Served
  <2>8. QED
    BY <1>2, <2>3, <2>7, ServedKept, ServedThere
<1>7. QED
  BY <1>1, <1>5, <1>6 DEF SayEntry

LEMMA ServedUnrecord ==
    ASSUME IInv, NEW r \in Requests, Served(pc[r], arg[r]), SayUnrecord(r)
    PROVE  Served(pc[r], arg[r])'
<1>1. PICK a : a = arg[r]
  OBVIOUS
<1>2. pc[r] = "say.unrecord" /\ SocketsOK /\ SupportOK
  BY DEF SayUnrecord, At, IInv, TypeOK
<1>3. pc'[r] = "say.remove" /\ arg'[r] = a
  BY <1>1, <1>2, SlotMoves DEF SayUnrecord
<1>4. Served("say.unrecord", a)
  BY <1>1, <1>2
<1>5. a.peer \in Agents /\ a.job \in Jobs /\ entry[a.peer] = a.job
  BY <1>4 DEF Served, SupportKnows
<1>6. /\ UNCHANGED <<agent, room, stamped, tickets, job, jobFor, serves, answered>>
      /\ entry'[a.peer] = None /\ \A b \in Agents \ {a.peer} : entry'[b] = entry[b]
  BY <1>1, <1>2, <1>5 DEF SayUnrecord, sessions, histories, SupportOK
<1>7. TicketsWith("say.remove", a)' /\ Serving'
  BY <1>4, <1>6 DEF Served, TicketsWith, TicketsOf, Serving
<1>8. JobsWith("say.remove", a)'
  <2> SUFFICES ASSUME NEW j \in Jobs, job[j] = "delayed"
               PROVE  /\ jobFor[j] \in Agents /\ (entry'[jobFor[j]] = j \/ j = a.job)
                      /\ LastWord(jobFor[j]) \/ jobFor[j] = a.peer
    BY <1>6 DEF JobsWith, LastWord
  <2>1. /\ jobFor[j] \in Agents /\ entry[jobFor[j]] = j
        /\ LastWord(jobFor[j]) \/ jobFor[j] = a.peer
    BY <1>4 DEF Served, JobsWith
  <2>2. QED
    BY <1>5, <1>6, <2>1
<1>9. SupportKnows("say.remove", a)'
  BY <1>5, <1>6 DEF SupportKnows, OfReply, OfSaying
<1>10. QED
  BY <1>3, <1>7, <1>8, <1>9, ServedThere DEF Served

LEMMA ServedRemove ==
    ASSUME IInv, NEW r \in Requests, Served(pc[r], arg[r]), SayRemove(r), ~Throw
    PROVE  Served(pc[r], arg[r])'
<1>1. PICK a : a = arg[r]
  OBVIOUS
<1>2. pc[r] = "say.remove" /\ SocketsOK /\ SupportOK
  BY DEF SayRemove, At, IInv, TypeOK
<1>3. pc'[r] = "idle" /\ arg'[r] = NoArg
  BY <1>2, SlotMoves DEF SayRemove
<1>4. Served("say.remove", a)
  BY <1>1, <1>2
<1>5. a.peer \in Agents /\ a.job \in Jobs /\ entry[a.peer] = None
  BY <1>4 DEF Served, SupportKnows
<1>6. /\ UNCHANGED <<agent, room, stamped, tickets, entry, jobFor, serves, answered>>
      /\ job'[a.job] = "done" /\ \A j \in Jobs \ {a.job} : job'[j] = job[j]
  BY <1>1, <1>2, <1>5 DEF SayRemove, sessions, histories, SupportOK
<1>7. TicketsWith("idle", NoArg)' /\ Serving'
  BY <1>4, <1>6 DEF Served, TicketsWith, TicketsOf, Serving
<1>8. JobsWith("idle", NoArg)'
  <2> SUFFICES ASSUME NEW j \in Jobs, job'[j] = "delayed"
               PROVE  jobFor[j] \in Agents /\ entry[jobFor[j]] = j /\ LastWord(jobFor[j])
    BY <1>6 DEF JobsWith, LastWord
  <2>1. j # a.job /\ job[j] = "delayed"
    BY <1>6
  <2>2. /\ jobFor[j] \in Agents /\ entry[jobFor[j]] = j
        /\ LastWord(jobFor[j]) \/ jobFor[j] = a.peer
    BY <1>4, <2>1 DEF Served, JobsWith
  <2>3. jobFor[j] # a.peer
    BY <1>5, <2>2, NoneAssumption
  <2>4. QED
    BY <2>2, <2>3
<1>9. SupportKnows("idle", NoArg)'
  BY DEF SupportKnows, OfReply, OfSaying
<1>10. QED
  BY <1>3, <1>7, <1>8, <1>9, ServedThere DEF Served

(* Tickets are closed and rated in place.                                  *)
LEMMA ServedClose ==
    ASSUME IInv, NEW r \in Requests, Served(pc[r], arg[r]), CloseSave(r) \/ RateSave(r)
    PROVE  Served(pc[r], arg[r])'
<1>1. pc[r] \in {"close.save", "rate.save"} /\ SocketsOK /\ SupportOK
  BY DEF CloseSave, RateSave, At, IInv, TypeOK
<1>2. pc'[r] = "idle" /\ arg'[r] = NoArg
  BY <1>1, SlotMoves DEF CloseSave, RateSave
<1>3. TicketsWith("idle", NoArg) /\ Serving /\ JobsWith("idle", NoArg)
  BY <1>1, ServedOn DEF Serves
<1>4. UNCHANGED <<agent, room, stamped, entry, job, jobFor, serves, answered>>
  BY DEF CloseSave, RateSave, queue, histories
<1>5. PICK i : i = arg[r].ticket
  OBVIOUS
<1>6. /\ DOMAIN tickets' = DOMAIN tickets
      /\ \A t \in DOMAIN tickets : tickets'[t].room = tickets[t].room
  <2>1. \A t \in DOMAIN tickets : tickets[t] \in Ticket
    BY <1>1, ElementOfSeq, LenProperties, ZenonT(60) DEF SupportOK
  <2>2. CASE CloseSave(r)
    <3>1. PICK end : tickets' = [tickets EXCEPT ![i].status = end]
      BY <1>5, <2>2 DEF CloseSave
    <3>2. QED
      BY <2>1, <3>1 DEF Ticket
  <2>3. CASE RateSave(r)
    <3>1. tickets' = [tickets EXCEPT ![i].rated = TRUE]
      BY <1>5, <2>3 DEF RateSave
    <3>2. QED
      BY <2>1, <3>1 DEF Ticket
  <2>4. QED
    BY <2>2, <2>3
<1>7. \A m \in Rooms : TicketsOf(m)' = TicketsOf(m)
  BY <1>6 DEF TicketsOf
<1>8. TicketsWith("idle", NoArg)'
  <2> SUFFICES ASSUME NEW m \in Rooms
               PROVE  /\ \A t, o \in TicketsOf(m)' : t = o
                      /\ m \in stamped => TicketsOf(m)' = {}
                      /\ room[m] = NoRoom => m \notin stamped /\ TicketsOf(m)' = {}
    BY <1>4 DEF TicketsWith, TicketsOf
  <2>1. TicketsOf(m)' = TicketsOf(m)
    BY <1>7
  <2> HIDE DEF TicketsOf
  <2>2. QED
    BY <1>3, <2>1 DEF TicketsWith
<1>9. Serving' /\ JobsWith("idle", NoArg)'
  BY <1>3, <1>4 DEF Serving, JobsWith, LastWord
<1>10. SupportKnows("idle", NoArg)'
  BY DEF SupportKnows, OfReply, OfSaying
<1>11. QED
  BY <1>2, <1>8, <1>9, <1>10, ServedThere DEF Served

(* The worker opens nothing.                                               *)
LEMMA ServedWorker ==
    ASSUME IInv, NEW j \in Jobs, JobFind(j) \/ JobSave(j), NEW s, NEW a, Served(s, a)
    PROVE  Served(s, a)'
<1>1. SupportOK
  BY DEF IInv, TypeOK
<1>2. UNCHANGED <<room, stamped, tickets, entry, jobFor, answered>>
  BY DEF JobFind, JobSave, sessions, histories
<1>3. \A i \in Jobs : job'[i] = "delayed" => job[i] = "delayed"
  BY <1>1 DEF JobFind, JobSave, SupportOK
<1>4. \/ UNCHANGED <<agent, serves>>
      \/ Available(jobFor[j])
  BY DEF JobFind, JobSave, sessions, histories
<1>5. \A b \in Agents : \/ agent'[b] = agent[b] /\ serves'[b] = serves[b]
                        \/ agent'[b] = "available" /\ serves'[b] = {}
  BY <1>1, <1>4 DEF Available, SupportOK
<1>6. \A b \in Agents : agent[b] = "available" => agent'[b] = "available"
  BY <1>1, <1>4 DEF Available, SupportOK
<1>7. TicketsWith(s, a)'
  BY <1>2 DEF Served, TicketsWith, TicketsOf
<1>8. Serving'
  BY <1>5 DEF Served, Serving
<1>9. JobsWith(s, a)'
  BY <1>2, <1>3 DEF Served, JobsWith, LastWord
<1>10. SupportKnows(s, a)'
  BY <1>2, <1>6 DEF Served, SupportKnows, Talk, TicketsOf
<1>11. QED
  BY <1>7, <1>8, <1>9, <1>10 DEF Served

-----------------------------------------------------------------------------
(* Between handlers that run one at a time: any step.                      *)
LEMMA LinkedStep ==
    ASSUME IInv, NEW r \in Requests, Linked(pc[r], arg[r]), pc[r] = "idle" \/ told = {},
           \/ (SocketsArrive(r) \/ SocketsContinue(r)) /\ UNCHANGED groupVars
           \/ GroupsArrive(r) \/ GroupsContinue(r)
    PROVE  Linked(pc[r], arg[r])'
<1> DEFINE Good == Linked(pc[r], arg[r])'
<1> SUFFICES Good
  OBVIOUS
<1>1. ASSUME NEW u \in Users, Connect(r, u) \/ \E s \in Sockets : Disconnect(r, u, s),
             UNCHANGED groupVars
      PROVE  Good
  BY <1>1, LinkedConnect, LinkedDisconnect
<1>2. CASE SocketsContinue(r) /\ UNCHANGED groupVars
  BY <1>2, LinkedInitSet, LinkedInitGroups, LinkedBye DEF SocketsContinue
<1>3. ASSUME NEW u \in Users, NEW g \in Groups,
             \/ \E s \in Sockets : CreateBegin(r, u, s, g)
             \/ \E v \in Users : AddBegin(r, u, g, v)
             \/ DeleteBegin(r, u, g)
      PROVE  Good
  BY <1>3, LinkedBegins
<1>4. ASSUME NEW u \in Users, NEW g \in Groups, NEW s \in Sockets, LeaveBegin(r, u, s, g)
      PROVE  Good
  BY <1>4, LinkedLeaveBegin
<1>5. CASE CreateRoom(r) \/ CreateSadd(r) \/ AddSadd(r) \/ AddSocket(r) \/ AddRow(r) \/ AddMessage(r)
  BY <1>5, LinkedCreateRoom, LinkedCreateSadd, LinkedAddSadd, LinkedAddRow, LinkedAddMessage
<1>6. CASE LeaveSrem(r) \/ DeleteSrem(r)
  <2>1. told = {}
    BY <1>6 DEF LeaveSrem, DeleteSrem, At
  <2>2. QED
    BY <1>6, <2>1, LinkedLeaveSrem, LinkedDeleteSrem
<1>7. CASE LeaveMessage(r) \/ DeleteDestroy(r)
  BY <1>7, LinkedEnds
<1> HIDE DEF Good
<1>8. CASE SocketsArrive(r) /\ UNCHANGED groupVars
  BY <1>1, <1>8 DEF SocketsArrive
<1>9. CASE GroupsArrive(r)
  BY <1>3, <1>4, <1>9 DEF GroupsArrive
<1>10. CASE GroupsContinue(r)
  BY <1>5, <1>6, <1>7, <1>10 DEF GroupsContinue
<1>11. QED
  BY <1>2, <1>8, <1>9, <1>10

LEMMA LinkedBySupport ==
    ASSUME IInv, NEW r \in Requests, Linked(pc[r], arg[r]), SupportArrive(r) \/ SupportContinue(r), ~Throw
    PROVE  Linked(pc[r], arg[r])'
<1>1. SocketsOK
  BY DEF IInv, TypeOK
<1>2. pc[r] \notin Linking /\ pc'[r] \notin Linking /\ Stay
  <2>1. CASE SupportArrive(r)
    BY <1>1, <2>1 DEF SupportArrive, ContactFind, StartBegin, ReplyBegin, SayBegin, CloseFind, RateFind,
       DetachUpdate, Begin, SocketsOK, Linking, OfSockets, Adding
  <2>2. ASSUME NEW s, NEW t, Target(r, s, t), s \notin Linking, t \notin Linking
        PROVE  pc[r] \notin Linking /\ pc'[r] \notin Linking /\ Stay
    BY <1>1, <2>2 DEF Target, At, Goto, SocketsOK
  <2>3. CASE ContactBusy(r) \/ ContactRoom(r) \/ ContactLog(r) \/ ContactStamp(r) \/ StartRoom(r)
    BY <1>1, <2>3 DEF ContactBusy, ContactRoom, ContactLog, ContactStamp, StartRoom, At, Goto, Finish,
       SocketsOK, Linking, OfSockets, Adding
  <2>4. CASE \/ ReplyMessage(r) \/ ReplyStamp(r) \/ ReplyTicket(r) \/ ReplyUnstamp(r)
             \/ ReplyPending(r) \/ ReplyAdd(r) \/ ReplyRecord(r)
    BY <1>1, <2>4 DEF ReplyMessage, ReplyStamp, ReplyTicket, ReplyUnstamp, ReplyPending, ReplyAdd,
       ReplyRecord, At, Goto, Finish, SocketsOK, Linking, OfSockets, Adding
  <2>5. CASE \/ SayMessage(r) \/ SayEntry(r) \/ SayUnrecord(r) \/ SayRemove(r)
             \/ DetachLog(r) \/ CloseSave(r) \/ RateSave(r)
    BY <1>1, <2>5 DEF SayMessage, SayEntry, SayUnrecord, SayRemove, DetachLog, CloseSave, RateSave,
       At, Goto, Finish, SocketsOK, Linking, OfSockets, Adding
  <2>6. {"contact.socket", "contact.busy", "start.target", "start.room", "reply.target", "reply.message",
         "say.target", "say.message", "close.socket", "close.save"} \cap Linking = {}
    BY DEF Linking, OfSockets, Adding
  <2>7. QED
    BY <2>1, <2>2, <2>3, <2>4, <2>5, <2>6 DEF SupportContinue
<1>3. PICK t, b : t = pc'[r] /\ b = arg'[r]
  OBVIOUS
<1>4. GroupsKnow(t, b) /\ t \notin OfSockets
  BY <1>2, <1>3 DEF GroupsKnow, Linking, Adding, OfSockets
<1>5. QED
  BY <1>2, <1>3, <1>4, LinkedLook DEF Stay

LEMMA ServedByGroups ==
    ASSUME IInv, NEW r \in Requests, Served(pc[r], arg[r]), UNCHANGED supportVars,
           SocketsArrive(r) \/ SocketsContinue(r) \/ GroupsArrive(r) \/ GroupsContinue(r)
    PROVE  Served(pc[r], arg[r])'
<1>1. SocketsOK
  BY DEF IInv, TypeOK
<1>2. pc[r] \notin Serves /\ pc'[r] \notin Supporting
  <2>1. CASE SocketsArrive(r) \/ SocketsContinue(r)
    BY <1>1, <2>1, ZenonT(60) DEF SocketsArrive, Connect, Disconnect, SocketsContinue, InitSet, InitGroups,
       ByeDelete, Begin, Goto, Finish, At, SocketsOK, Serves, Supporting, OfReply, OfSaying
  <2>2. CASE GroupsArrive(r)
    BY <1>1, <2>2, ZenonT(60) DEF GroupsArrive, CreateBegin, LeaveBegin, AddBegin, DeleteBegin,
       Begin, SocketsOK, Serves, Supporting, OfReply, OfSaying
  <2>3. CASE GroupsContinue(r)
    BY <1>1, <2>3 DEF GroupsContinue, CreateRoom, CreateSadd, AddSadd, AddSocket, AddRow, AddMessage,
       LeaveSrem, LeaveMessage, DeleteSrem, DeleteDestroy, Goto, Finish, At, SocketsOK, Serves,
       Supporting, OfReply, OfSaying
  <2>4. QED
    BY <2>1, <2>2, <2>3
<1>3. PICK t, b : t = pc'[r] /\ b = arg'[r]
  OBVIOUS
<1>4. SupportKnows(t, b)
  BY <1>2, <1>3, SupportQuiet
<1>5. QED
  BY <1>2, <1>3, <1>4, ServedLook

LEMMA ServedStep ==
    ASSUME IInv, NEW r \in Requests, Served(pc[r], arg[r]), SupportArrive(r) \/ SupportContinue(r), ~Throw
    PROVE  Served(pc[r], arg[r])'
<1> DEFINE Good == Served(pc[r], arg[r])'
<1> SUFFICES Good
  OBVIOUS
<1>1. ASSUME NEW c \in Customers, ContactFind(r, c) \/ \E b \in Agents : StartBegin(r, c, b)
      PROVE  Good
  BY <1>1, ServedBegins DEF ContactFind, StartBegin
<1>2. ASSUME NEW m \in Rooms, ReplyBegin(r, m) \/ SayBegin(r, m) \/ RateFind(r, m)
      PROVE  Good
  BY <1>2, ServedBegins DEF ReplyBegin, SayBegin, RateFind
<1>3. ASSUME NEW m \in Rooms, CloseFind(r, m)
      PROVE  Good
  BY <1>3, ServedBegins DEF CloseFind
<1>4. ASSUME NEW b \in Agents, DetachUpdate(r, b)
      PROVE  Good
  BY <1>4, ServedDetach
<1>5. ASSUME NEW s, NEW t, Target(r, s, t),
             <<s, t>> \in {<<"contact.socket", "contact.busy">>, <<"start.target", "start.room">>,
                           <<"reply.target", "reply.message">>, <<"say.target", "say.message">>,
                           <<"close.socket", "close.save">>}
      PROVE  Good
  <2>1. At(r, s) /\ Goto(r, t) /\ UNCHANGED supportVars
    BY <1>5 DEF Target
  <2>2. QED
    BY <1>5, <2>1, ServedTarget
<1>6. CASE ContactLog(r)
  <2>1. At(r, "contact.log") /\ Goto(r, "contact.stamp") /\ UNCHANGED supportVars
    BY <1>6 DEF ContactLog
  <2>2. QED
    BY <2>1, ServedTarget
<1>7. CASE ContactBusy(r) \/ ContactRoom(r) \/ ContactStamp(r) \/ StartRoom(r)
  BY <1>7, ServedBusy, ServedRoom, ServedStamp, ServedStart
<1>8. CASE \/ ReplyMessage(r) \/ ReplyStamp(r) \/ ReplyTicket(r) \/ ReplyUnstamp(r)
           \/ ReplyPending(r) \/ ReplyAdd(r) \/ ReplyRecord(r)
  BY <1>8, ServedReplyMessage, ServedReads, ServedTicket, ServedUnstamp, ServedAdd, ServedRecord
<1>9. CASE \/ SayMessage(r) \/ SayEntry(r) \/ SayUnrecord(r) \/ SayRemove(r)
           \/ DetachLog(r) \/ CloseSave(r) \/ RateSave(r)
  BY <1>9, ServedSayMessage, ServedSayEntry, ServedUnrecord, ServedRemove, ServedReads, ServedClose
<1> HIDE DEF Good
<1>10. CASE SupportArrive(r)
  BY <1>1, <1>2, <1>3, <1>4, <1>10 DEF SupportArrive
<1>11. CASE SupportContinue(r)
  BY <1>5, <1>6, <1>7, <1>8, <1>9, <1>11 DEF SupportContinue
<1>12. QED
  BY <1>10, <1>11

-----------------------------------------------------------------------------
(* Between handlers that run one at a time: the handler that steps is the  *)
(* one that was under way, if one was.                                     *)
StepOf(r) ==
    \/ (SocketsArrive(r) \/ SocketsContinue(r)) /\ UNCHANGED <<groupVars, supportVars>>
    \/ (GroupsArrive(r) \/ GroupsContinue(r)) /\ UNCHANGED supportVars
    \/ (SupportArrive(r) \/ SupportContinue(r)) /\ ~Throw

LEMMA SoloStep ==
    ASSUME SocketsOK, NEW r \in Requests, StepOf(r)
    PROVE  /\ \A q \in Requests \ {r} : Rests(q)
           /\ pc[r] = "idle" => pc'[r] # "idle"
           /\ deaths' = deaths
<1> DEFINE Good == /\ \A q \in Requests \ {r} : Rests(q)
                   /\ pc[r] = "idle" => pc'[r] # "idle"
                   /\ deaths' = deaths
<1> SUFFICES Good
  OBVIOUS
<1>1. ASSUME NEW a, NEW s, Begin(r, a, s), s # "idle", deaths' = deaths
      PROVE  Good
  BY <1>1, BeginMoves DEF Moves
<1>2. ASSUME NEW s, At(r, s), s # "idle", Finish(r) \/ \E t : Goto(r, t), deaths' = deaths
      PROVE  Good
  BY <1>2, FinishMoves, GotoMoves DEF Moves, At
<1>3. ASSUME NEW s, At(r, s), s # "idle", \E a : arg' = [arg EXCEPT ![r].room = a],
             \E t : pc' = [pc EXCEPT ![r] = t], deaths' = deaths
      PROVE  Good
  BY <1>3 DEF At, SocketsOK, Rests
<1>4. ASSUME NEW s, At(r, s), s # "idle", \E a : arg' = [arg EXCEPT ![r].job = a],
             \E t : pc' = [pc EXCEPT ![r] = t], deaths' = deaths
      PROVE  Good
  BY <1>4 DEF At, SocketsOK, Rests
<1>5. Stay => deaths' = deaths
  BY DEF Stay, connections
<1> HIDE DEF Good
<1>6. CASE SocketsArrive(r) \/ SocketsContinue(r)
  BY <1>1, <1>2, <1>6 DEF SocketsArrive, Connect, Disconnect, SocketsContinue, InitSet, InitGroups, ByeDelete
<1>7. CASE GroupsArrive(r)
  BY <1>1, <1>7, ZenonT(60) DEF GroupsArrive, CreateBegin, LeaveBegin, AddBegin, DeleteBegin, connections
<1>8. CASE GroupsContinue(r)
  BY <1>2, <1>8 DEF GroupsContinue, CreateRoom, CreateSadd, AddSadd, AddSocket, AddRow, AddMessage,
     LeaveSrem, LeaveMessage, DeleteSrem, DeleteDestroy, connections
<1>9. CASE SupportArrive(r) /\ ~Throw
  BY <1>1, <1>5, <1>9 DEF SupportArrive, ContactFind, StartBegin, ReplyBegin, SayBegin, CloseFind,
     RateFind, DetachUpdate
<1>10. CASE SupportContinue(r) /\ ~Throw
  <2>1. ASSUME NEW s, NEW t, Target(r, s, t), s # "idle" PROVE Good
    BY <1>2, <1>5, <1>10, <2>1 DEF Target
  <2>2. CASE ContactBusy(r) \/ ContactLog(r) \/ ContactStamp(r) \/ StartRoom(r)
    BY <1>2, <1>5, <2>2 DEF ContactBusy, ContactLog, ContactStamp, StartRoom
  <2>3. CASE ContactRoom(r)
    BY <1>3, <1>5, <2>3 DEF ContactRoom
  <2>4. CASE \/ ReplyMessage(r) \/ ReplyStamp(r) \/ ReplyTicket(r) \/ ReplyUnstamp(r)
             \/ ReplyPending(r) \/ ReplyRecord(r)
    BY <1>2, <1>5, <2>4 DEF ReplyMessage, ReplyStamp, ReplyTicket, ReplyUnstamp, ReplyPending, ReplyRecord
  <2>5. CASE ReplyAdd(r)
    BY <1>4, <1>5, <2>5 DEF ReplyAdd
  <2>6. CASE \/ SayMessage(r) \/ SayUnrecord(r) \/ SayRemove(r)
             \/ DetachLog(r) \/ CloseSave(r) \/ RateSave(r)
    BY <1>2, <1>5, <1>10, <2>6 DEF SayMessage, SayUnrecord, SayRemove, DetachLog, CloseSave, RateSave
  <2>7. CASE SayEntry(r)
    BY <1>2, <1>4, <1>5, <2>7 DEF SayEntry
  <2>8. QED
    BY <1>10, <2>1, <2>2, <2>3, <2>4, <2>5, <2>6, <2>7 DEF SupportContinue
<1>11. QED
  BY <1>6, <1>7, <1>8, <1>9, <1>10 DEF StepOf

(* What a step can be.                                                     *)
LEMMA Steppers ==
    ASSUME SocketsOK, Step
    PROVE  \/ \E r \in Requests : StepOf(r)
           \/ GroupsClient /\ UNCHANGED supportVars
           \/ Worker
           \/ deaths' = deaths + 1
  BY DEF Step, StepOf, GroupsThrow, AddSocketMissing, AddRowTwice, AdminOnly, Crash, Throw, Die

LEMMA OneMember == ASSUME NEW S, IsFiniteSet(S), Cardinality(S) <= 1
                   PROVE  \A x, y \in S : x = y
<1> SUFFICES ASSUME NEW x \in S, NEW y \in S, x # y PROVE FALSE
  OBVIOUS
<1>1. IsFiniteSet({x}) /\ Cardinality({x}) = 1
  BY FS_Singleton
<1>2. Cardinality({x} \cup {y}) = 2
  BY <1>1, FS_AddElement, SMTT(60)
<1>3. Cardinality({x} \cup {y}) <= Cardinality(S)
  BY FS_Subset
<1>4. Cardinality(S) \in Nat
  BY FS_CardinalityType
<1>5. QED
  BY <1>2, <1>3, <1>4

LEMMA SolitudeStep == Solitude /\ [Next]_vars => Solitude'
<1> SUFFICES ASSUME Solitude, [Next]_vars, alone' PROVE Solitude'
  BY DEF Solitude
<1>1. CASE UNCHANGED vars
  <2>1. UNCHANGED <<pc, alone, told, job>>
    BY <1>1 DEF vars, groupVars, supportVars, queue
  <2>2. QED
    BY <2>1 DEF Solitude, Busy, Running
<1>2. CASE OneAtATime'
  <2>1. /\ IsFiniteSet(Busy') /\ Cardinality(Busy') \in Nat
        /\ IsFiniteSet(Running') /\ Cardinality(Running') \in Nat
    BY FiniteAssumption, FS_Subset, FS_CardinalityType DEF Busy, Running
  <2>2. Cardinality(Busy') + Cardinality(Running') <= 1 /\ (told' # {} => Busy' = {})
    BY <1>2 DEF OneAtATime
  <2> HIDE DEF Busy, Running
  <2>3. \A x, y \in Busy' : x = y
    <3>1. Cardinality(Busy') <= 1
      BY <2>1, <2>2
    <3>2. QED
      BY <2>1, <3>1, OneMember
  <2>4. Busy' # {} => Running' = {}
    <3>1. Cardinality(Busy') = 0 <=> Busy' = {}
      BY <2>1, FS_EmptySet
    <3>2. Cardinality(Running') = 0 <=> Running' = {}
      BY <2>1, FS_EmptySet
    <3>3. QED
      BY <2>1, <2>2, <3>1, <3>2
  <2>5. QED
    BY <2>2, <2>3, <2>4 DEF Solitude
<1>3. QED
  BY <1>1, <1>2 DEF Next


(* Nothing is open before a handler that finds nobody else under way, and  *)
(* what is said of the step it is before says so when it has ended.        *)
LEMMA OrderBefore ==
    ASSUME OrderInv, alone, deaths = 0, NEW r \in Requests, \A q \in Requests \ {r} : pc[q] = "idle"
    PROVE  Linked(pc[r], arg[r]) /\ Served(pc[r], arg[r])
<1>1. CASE pc[r] # "idle"
  BY <1>1 DEF OrderInv, Busy
<1>2. CASE pc[r] = "idle"
  <2>1. Linked("idle", NoArg) /\ Served("idle", NoArg)
    BY <1>2 DEF OrderInv, Busy
  <2>2. "idle" \notin Linking /\ "idle" \notin Serves /\ "idle" \notin Supporting
    BY DEF Linking, OfSockets, Adding, Serves, Supporting, OfReply, OfSaying
  <2>3. PICK t, b : t = pc[r] /\ b = arg[r]
    OBVIOUS
  <2>4. Linked(t, b)
    BY <1>2, <2>1, <2>2, <2>3, LinkedOn
  <2>5. Served(t, b)
    BY <1>2, <2>1, <2>2, <2>3, ServedOn, SupportQuiet
  <2>6. QED
    BY <2>3, <2>4, <2>5
<1>3. QED
  BY <1>1, <1>2

LEMMA OrderEnd ==
    ASSUME NEW r \in Requests, pc[r] = "idle", Linked(pc[r], arg[r]), Served(pc[r], arg[r])
    PROVE  Linked("idle", NoArg) /\ Served("idle", NoArg)
<1>1. PICK t, b : t = pc[r] /\ b = arg[r]
  OBVIOUS
<1>2. t \notin Linking /\ t \notin Serves /\ "idle" \notin Linking /\ "idle" \notin Supporting
  BY <1>1 DEF Linking, OfSockets, Adding, Serves, Supporting, OfReply, OfSaying
<1>3. Linked(t, b) /\ Served(t, b)
  BY <1>1
<1>4. QED
  BY <1>2, <1>3, LinkedOn, ServedOn, SupportQuiet

(* A step of a handler.                                                    *)
LEMMA OrderOfStep ==
    ASSUME IInv, Solitude, Solitude', OrderInv, alone, alone', deaths = 0,
           NEW r \in Requests, StepOf(r)
    PROVE  OrderInv'
<1>1. SocketsOK
  BY DEF IInv, TypeOK
<1>2. /\ \A q \in Requests \ {r} : Rests(q)
      /\ pc[r] = "idle" => pc'[r] # "idle"
  BY <1>1, SoloStep
<1>3. \A q \in Requests \ {r} : pc[q] = "idle"
  <2> SUFFICES ASSUME NEW q \in Requests, q # r, pc[q] # "idle" PROVE FALSE
    OBVIOUS
  <2>1. pc'[q] # "idle" /\ q \in Busy /\ q \in Busy'
    BY <1>2 DEF Rests, Busy
  <2>2. pc[r] = "idle"
    BY <2>1 DEF Solitude, Busy
  <2>3. r \in Busy'
    BY <1>2, <2>2 DEF Busy
  <2>4. QED
    BY <2>1, <2>3 DEF Solitude
<1>4. pc[r] = "idle" \/ told = {}
  BY DEF Solitude, Busy
<1>5. PICK s, a : s = pc[r] /\ a = arg[r]
  OBVIOUS
<1>6. Linked(pc[r], arg[r]) /\ Served(pc[r], arg[r])
  BY <1>3, OrderBefore
<1>7. Linked(pc[r], arg[r])' /\ Served(pc[r], arg[r])'
  <2>1. CASE (SocketsArrive(r) \/ SocketsContinue(r)) /\ UNCHANGED <<groupVars, supportVars>>
    BY <1>4, <1>6, <2>1, LinkedStep, ServedByGroups
  <2>2. CASE (GroupsArrive(r) \/ GroupsContinue(r)) /\ UNCHANGED supportVars
    BY <1>4, <1>6, <2>2, LinkedStep, ServedByGroups
  <2>3. CASE (SupportArrive(r) \/ SupportContinue(r)) /\ ~Throw
    BY <1>6, <2>3, LinkedBySupport, ServedStep
  <2>4. QED
    BY <2>1, <2>2, <2>3 DEF StepOf
<1>8. \A q \in Busy' : q = r
  BY <1>2, <1>3 DEF Busy, Rests
<1>9. \A q \in Busy' : Linked(pc[q], arg[q])' /\ Served(pc[q], arg[q])'
  BY <1>7, <1>8
<1>10. Busy' = {} => Linked("idle", NoArg)' /\ Served("idle", NoArg)'
  <2> SUFFICES ASSUME Busy' = {} PROVE Linked("idle", NoArg)' /\ Served("idle", NoArg)'
    OBVIOUS
  <2>1. pc'[r] = "idle"
    BY DEF Busy
  <2>2. PICK b : b = arg'[r]
    OBVIOUS
  <2>3. FoundWith("idle", NoArg)' /\ AgreeWith("idle", NoArg)' /\ ToldBelong'
    BY <1>7, <2>1 DEF Linked, FoundWith, AgreeWith, ToldBelong, Connected, OfSockets, Adding
  <2>4. TicketsWith("idle", NoArg)' /\ Serving' /\ JobsWith("idle", NoArg)'
    BY <1>7, <2>1 DEF Served, TicketsWith, TicketsOf, Serving, JobsWith, LastWord
  <2>5. GroupsKnow("idle", NoArg)' /\ SupportKnows("idle", NoArg)'
    BY DEF GroupsKnow, Adding, SupportKnows, OfReply, OfSaying
  <2>6. QED
    BY <2>3, <2>4, <2>5 DEF Linked, Served
<1>11. QED
  BY <1>9, <1>10 DEF OrderInv

(* A step of a client or of the worker.                                    *)
LEMMA OrderOfOthers ==
    ASSUME IInv, Solitude, OrderInv, alone, deaths = 0,
           Worker \/ (GroupsClient /\ UNCHANGED supportVars)
    PROVE  OrderInv'
<1>1. UNCHANGED <<pc, arg>>
  BY DEF Worker, JobFind, JobSave, GroupsClient, Join
<1>2. Busy' = Busy
  BY <1>1 DEF Busy
<1>3. ASSUME NEW s, NEW a, Served(s, a) PROVE Served(s, a)'
  BY <1>3, ServedKept, ServedWorker DEF Worker
<1>4. ASSUME NEW s, NEW a, Linked(s, a), Worker PROVE Linked(s, a)'
  <2>1. UNCHANGED <<connections, groups, groupVars>>
    BY <1>4 DEF Worker, JobFind, JobSave, Stay
  <2>2. QED
    BY <1>4, <2>1, LinkedKept
<1>5. Busy = {} => Linked("idle", NoArg)' /\ Served("idle", NoArg)'
  <2> SUFFICES ASSUME Busy = {} PROVE Linked("idle", NoArg)' /\ Served("idle", NoArg)'
    OBVIOUS
  <2>1. Linked("idle", NoArg) /\ Served("idle", NoArg)
    BY DEF OrderInv
  <2>2. Linked("idle", NoArg)'
    BY <1>4, <2>1, LinkedJoin DEF GroupsClient
  <2>3. QED
    BY <1>3, <2>1, <2>2
<1>6. ASSUME NEW r \in Busy PROVE Linked(pc[r], arg[r])' /\ Served(pc[r], arg[r])'
  <2>1. r \in Requests
    BY DEF Busy
  <2>2. PICK s, a : s = pc[r] /\ a = arg[r]
    OBVIOUS
  <2>3. Linked(s, a) /\ Served(s, a) /\ told = {}
    BY <2>2 DEF OrderInv, Solitude
  <2>4. Worker
    BY <2>3 DEF GroupsClient, Join
  <2>5. Linked(s, a)' /\ Served(s, a)'
    BY <1>3, <1>4, <2>3, <2>4
  <2>6. QED
    BY <1>1, <2>1, <2>2, <2>5, LinkedThere, ServedThere
<1>7. QED
  BY <1>2, <1>5, <1>6 DEF OrderInv

LEMMA OrderStep == IInv /\ Solitude /\ OrderInv /\ [Next]_vars => OrderInv'
<1> SUFFICES ASSUME IInv, Solitude, OrderInv, [Next]_vars, alone', deaths' = 0 PROVE OrderInv'
  BY DEF OrderInv
<1>1. SocketsOK /\ deaths \in Nat /\ Solitude'
  BY BoundsAssumption, SolitudeStep DEF IInv, TypeOK, SocketsOK
<1>2. CASE UNCHANGED vars
  <2>1. UNCHANGED <<connections, groups, groupVars, supportVars, alone, pc, arg>>
    BY <1>2 DEF vars
  <2>2. alone /\ deaths = 0 /\ Busy' = Busy
    BY <2>1 DEF connections, Busy
  <2>3. \A s, a : Linked(s, a) => Linked(s, a)'
    BY <2>1, LinkedKept
  <2>4. \A s, a : Served(s, a) => Served(s, a)'
    BY <2>1, ServedKept
  <2>5. ASSUME NEW r \in Busy PROVE Linked(pc[r], arg[r])' /\ Served(pc[r], arg[r])'
    <3>1. r \in Requests
      BY DEF Busy
    <3>2. PICK s, a : s = pc[r] /\ a = arg[r]
      OBVIOUS
    <3>3. Linked(s, a)' /\ Served(s, a)'
      BY <2>2, <2>3, <2>4, <3>2 DEF OrderInv
    <3>4. QED
      BY <2>1, <3>1, <3>2, <3>3, LinkedThere, ServedThere
  <2>6. Busy = {} => Linked("idle", NoArg)' /\ Served("idle", NoArg)'
    BY <2>2, <2>3, <2>4 DEF OrderInv
  <2>7. QED
    BY <2>2, <2>5, <2>6 DEF OrderInv
<1>3. CASE Next
  <2>1. Step /\ alone
    BY <1>3 DEF Next
  <2>2. ASSUME NEW r \in Requests, StepOf(r) PROVE OrderInv'
    <3>1. deaths = 0
      BY <1>1, <2>2, SoloStep
    <3>2. QED
      BY <1>1, <2>1, <2>2, <3>1, OrderOfStep
  <2>3. CASE Worker \/ (GroupsClient /\ UNCHANGED supportVars)
    <3>1. deaths = 0
      BY <2>3 DEF Worker, JobFind, JobSave, Stay, GroupsClient, Join, connections
    <3>2. QED
      BY <2>1, <2>3, <3>1, OrderOfOthers
  <2>4. deaths' # deaths + 1
    BY <1>1
  <2>5. \/ \E r \in Requests : StepOf(r)
        \/ GroupsClient /\ UNCHANGED supportVars
        \/ Worker
        \/ deaths' = deaths + 1
    BY <1>1, <2>1, Steppers
  <2>6. CASE \E r \in Requests : StepOf(r)
    <3>1. PICK r \in Requests : StepOf(r)
      BY <2>6
    <3>2. QED
      BY <2>2, <3>1
  <2>7. QED
    BY <2>3, <2>4, <2>5, <2>6
<1>4. QED
  BY <1>2, <1>3

LEMMA OrderInit == Init => Solitude /\ OrderInv
<1> SUFFICES ASSUME Init PROVE Solitude /\ OrderInv
  OBVIOUS
<1>1. SocketsInit /\ GroupsInit /\ SupportInit /\ Busy = {}
  BY DEF Init, SocketsInit, Busy
<1>2. \A m \in Rooms : TicketsOf(m) = {}
  <2>1. DOMAIN tickets = {}
    BY <1>1, EmptySeq DEF SupportInit
  <2>2. QED
    BY <2>1 DEF TicketsOf
<1>3. Linked("idle", NoArg)
  BY <1>1 DEF SocketsInit, GroupsInit, Linked, FoundWith, AgreeWith, GroupsKnow, ToldBelong, Connected,
     OfSockets, Adding
<1>4. Served("idle", NoArg)
  <2>1. TicketsWith("idle", NoArg)
    BY <1>1, <1>2 DEF SupportInit, TicketsWith
  <2>2. Serving /\ JobsWith("idle", NoArg)
    BY <1>1 DEF SupportInit, Serving, JobsWith
  <2>3. QED
    BY <2>1, <2>2 DEF Served, SupportKnows, OfReply, OfSaying
<1>5. QED
  BY <1>1, <1>3, <1>4 DEF Solitude, OrderInv


(* While handlers run one at a time and none has thrown, all that is ever  *)
(* out of order in the sockets, the groups, the tickets and the jobs is    *)
(* what the steps that the handler still has to take will mend.            *)
THEOREM OrderInvariance == Spec => [](Solitude /\ OrderInv)
<1>1. Init => Solitude /\ OrderInv
  BY OrderInit
<1>2. IInv /\ Solitude /\ OrderInv /\ [Next]_vars => Solitude' /\ OrderInv'
  BY SolitudeStep, OrderStep
<1>3. QED
  BY <1>1, <1>2, Invariance, PTL DEF Spec

LEMMA AtMostOne == ASSUME NEW S, \A x, y \in S : x = y
                   PROVE  /\ IsFiniteSet(S) /\ Cardinality(S) \in Nat /\ Cardinality(S) <= 1
                          /\ S = {} => Cardinality(S) = 0
<1>1. CASE S = {}
  BY <1>1, FS_EmptySet
<1>2. CASE S # {}
  <2>1. PICK x : x \in S
    BY <1>2
  <2>2. S = {x}
    BY <2>1
  <2>3. IsFiniteSet({x}) /\ Cardinality({x}) = 1
    BY FS_Singleton
  <2>4. QED
    BY <1>2, <2>2, <2>3
<1>3. QED
  BY <1>1, <1>2

(* Between listeners that run one at a time, whatever sequence of events   *)
(* comes before: a contact has one ticket, an agent serves one customer    *)
(* until available again, and a job that is to release an agent stands for *)
(* an answer of the agent, and is the one that the next message about      *)
(* support removes, though not always a message of the same talk; a user   *)
(* with one socket is found by it, and the socket hears the groups of its  *)
(* user and no others, but for what nobody told its client.                *)
THEOREM ChatInOrder == Spec => []InOrder
<1>1. IInv /\ OrderInv => InOrder
  <2> SUFFICES ASSUME IInv, Linked("idle", NoArg), Served("idle", NoArg), told = {}
               PROVE  OneTicket /\ AgentsServeOne /\ JobsCanBeCalledOff /\ UsersAreFound /\ GroupsAgree
    BY DEF OrderInv, InOrder
  <2>1. OneTicket
    <3> SUFFICES ASSUME NEW m \in Rooms
                 PROVE  Cardinality(TicketsOf(m)) + Cardinality(stamped \cap {m}) <= 1
      BY DEF OneTicket
    <3>1. /\ \A t, o \in TicketsOf(m) : t = o
          /\ m \in stamped => TicketsOf(m) = {}
      BY DEF Served, TicketsWith
    <3> HIDE DEF TicketsOf
    <3>2. /\ Cardinality(TicketsOf(m)) \in Nat /\ Cardinality(TicketsOf(m)) <= 1
          /\ TicketsOf(m) = {} => Cardinality(TicketsOf(m)) = 0
      BY <3>1, AtMostOne
    <3>3. /\ Cardinality(stamped \cap {m}) \in Nat /\ Cardinality(stamped \cap {m}) <= 1
          /\ stamped \cap {m} = {} => Cardinality(stamped \cap {m}) = 0
      <4>1. \A x, y \in stamped \cap {m} : x = y
        OBVIOUS
      <4>2. QED
        BY <4>1, AtMostOne
    <3>4. CASE m \in stamped
      BY <3>1, <3>2, <3>3, <3>4
    <3>5. CASE m \notin stamped
      <4>1. stamped \cap {m} = {}
        BY <3>5
      <4>2. QED
        BY <3>2, <3>3, <4>1
    <3>6. QED
      BY <3>4, <3>5
  <2>2. AgentsServeOne
    <3> SUFFICES ASSUME NEW b \in Agents
                 PROVE  Cardinality(serves[b]) <= IF agent[b] = "busy" THEN 1 ELSE 0
      BY DEF AgentsServeOne
    <3>1. /\ agent[b] = "available" => serves[b] = {}
          /\ \A c, d \in serves[b] : c = d
      BY DEF Served, Serving
    <3>2. agent[b] \in {"available", "busy"}
      BY DEF IInv, TypeOK, SupportOK
    <3>3. Cardinality(serves[b]) <= 1 /\ (serves[b] = {} => Cardinality(serves[b]) = 0)
      BY <3>1, AtMostOne
    <3>4. QED
      BY <3>1, <3>2, <3>3
  <2>3. JobsCanBeCalledOff
    BY DEF Served, JobsWith, LastWord, JobsCanBeCalledOff
  <2>4. UsersAreFound
    BY DEF Linked, FoundWith, UsersAreFound
  <2>5. GroupsAgree
    BY DEF Linked, AgreeWith, GroupsAgree, Adding
  <2>6. QED
    BY <2>1, <2>2, <2>3, <2>4, <2>5
<1>2. QED
  BY <1>1, OrderInvariance, Invariance, PTL

=============================================================================
