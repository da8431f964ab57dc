--------------------------- MODULE ChatProperties ---------------------------
(***************************************************************************)
(* What is claimed of modules Sockets, GroupChat and SupportChat.          *)
(***************************************************************************)
EXTENDS SupportChat

-----------------------------------------------------------------------------
(* However handlers interleave, and wherever the process dies.             *)

(* No contact is forgotten: once contactSupport has come to its end, the   *)
(* time of the contact is kept, or a ticket has been opened for it.  The   *)
(* answer that turns one into the other reads, inserts and deletes in      *)
(* three calls, and may come before contactSupport is done.                *)
ContactsCount == \A m \in contacted : m \in stamped \/ TicketsOf(m) # {}

(* A row of a group is not without its set in Redis: members get the set   *)
(* first when they are added, and one call after the row when the group is *)
(* created, unless the process dies there.                                 *)
RowsAreFound == \A p \in memberOf :
    \/ p[2] \in groupsOf[p[1]] \/ p \in gone
    \/ \E r \in Requests : At(r, "create.sadd") /\ arg[r].group = p[2]
    \/ deaths > 0

NothingIsForgotten == ContactsCount /\ RowsAreFound

-----------------------------------------------------------------------------
(* Why nothing is forgotten: the inductive invariant.                      *)

(* A set that has been written is found, unless its user has left since.   *)
Found(u, g) == g \in groupsOf[u] \/ <<u, g>> \in gone \/ deaths > 0

OfSockets == {"init.set", "init.groups", "bye.delete"}
OfGroups ==
    {"create.room", "create.sadd", "add.sadd", "add.socket", "add.row", "add.message",
     "leave.srem", "leave.message", "delete.srem", "delete.destroy"}
OfContact == {"contact.socket", "contact.busy", "contact.room", "contact.log", "contact.stamp"}
OfReply ==
    {"reply.target", "reply.message", "reply.stamp", "reply.ticket", "reply.unstamp",
     "reply.pending", "reply.add", "reply.record"}
OfSaying == {"say.target", "say.message", "say.entry"}
OfTickets == {"close.socket", "close.save", "rate.save"}

(* A handler knows whom it is about, and what it has written is there.     *)
Knows(r) ==
    /\ pc[r] \in OfSockets => arg[r].user \in Users /\ arg[r].socket \in Sockets
    /\ pc[r] \in OfGroups => arg[r].user \in Users /\ arg[r].group \in Groups
    /\ pc[r] \in {"add.sadd", "add.socket", "add.row", "add.message"} => arg[r].peer \in Users
    /\ pc[r] \in {"add.socket", "add.row"} => Found(arg[r].peer, arg[r].group)
    /\ pc[r] \in OfContact => arg[r].user \in Customers /\ arg[r].peer \in Agents
    /\ pc[r] \in {"contact.log", "contact.stamp"} => arg[r].room \in Rooms
    /\ pc[r] \in OfReply => arg[r].user \in Agents /\ arg[r].room \in Rooms
    /\ At(r, "reply.unstamp") => TicketsOf(arg[r].room) # {}
    /\ pc[r] \in OfSaying => arg[r].peer \in Agents
    /\ pc[r] \in OfTickets => arg[r].ticket \in 1..Len(tickets)

HandlersKnow == \A r \in Requests : Knows(r)

IInv == TypeOK /\ HandlersKnow /\ NothingIsForgotten

-----------------------------------------------------------------------------
(* Between two handlers, while they have run one at a time.                *)

(* A contact has one ticket, however often the agent answers.              *)
OneTicket == \A m \in Rooms : Cardinality(TicketsOf(m)) + Cardinality(stamped \cap {m}) <= 1

(* A customer has the agent for himself until the agent is available.      *)
AgentsServeOne == \A a \in Agents :
    Cardinality(serves[a]) <= IF agent[a] = "busy" THEN 1 ELSE 0

(* A job that is to release an agent is the one that the next message      *)
(* about support to the agent finds and removes, and it stands for an      *)
(* answer: in a chatroom of the agent nobody has said anything about       *)
(* support since.  The job is the agent's and not the talk's: the chatroom *)
(* may be one of an earlier customer.                                      *)
LastWord(b) == \E m \in Rooms : room[m] # NoRoom /\ room[m].agent = b /\ m \in answered

JobsCanBeCalledOff == \A j \in Jobs :
    job[j] = "delayed" => entry[jobFor[j]] = j /\ LastWord(jobFor[j])

(* A user with one socket at a time is found by it.                        *)
UsersAreFound == \A u \in Users \ twice :
    Connected(u) => registry[u] \in open[u]

(* A socket hears the groups of its user, and no others, but for members   *)
(* who were never told, and groups that their client is about to leave.    *)
GroupsAgree == \A u \in Users \ twice, s \in Sockets, g \in Groups :
    s \in open[u] =>
        /\ g \in joined[u][s] => g \in groupsOf[u] \/ <<u, g>> \in dropped
        /\ g \in groupsOf[u] => g \in joined[u][s] \/ <<<<u, g>>, s>> \in unheard

InOrder ==
    alone /\ deaths = 0 /\ Busy = {} /\ Running = {} /\ told = {} =>
        OneTicket /\ AgentsServeOne /\ JobsCanBeCalledOff /\ UsersAreFound /\ GroupsAgree

(* What does not hold, even then: that the job of an agent who talks with  *)
(* a customer stands for an answer to that customer.  An agent who answers *)
(* one while available, or is detached by hand after it, and is given the  *)
(* next, is released amid the second talk by the job of the first.         *)
TalksAreNotCut == alone => \A j \in Jobs :
    job[j] = "delayed" /\ serves[jobFor[j]] # {} =>
        \E m \in answered : room[m].agent = jobFor[j] /\ room[m].customer \in serves[jobFor[j]]

-----------------------------------------------------------------------------
(* What InOrder rests on: while handlers run one at a time, the one that   *)
(* is under way leaves open only what its next steps will close.  s is the *)
(* step it is before, and a what it knows.                                 *)

Solitude == alone =>
    /\ \A r, q \in Busy : r = q
    /\ Busy # {} => Running = {} /\ told = {}

(* A user with one socket at a time has none while one comes or goes.      *)
FoundWith(s, a) == \A u \in Users \ twice :
    /\ \A x, y \in open[u] : x = y
    /\ Connected(u) => registry[u] \in open[u]
    /\ s \in OfSockets /\ u = a.user => ~Connected(u)

Adding == {"add.socket", "add.row", "add.message"}

AgreeWith(s, a) == \A u \in Users \ twice, x \in Sockets, g \in Groups : x \in open[u] =>
    /\ g \in joined[u][x] =>
          \/ g \in groupsOf[u] \/ <<u, g>> \in dropped
          \/ s = "create.sadd" /\ u = a.user /\ g = a.group
    /\ g \in groupsOf[u] =>
          \/ g \in joined[u][x] \/ <<<<u, g>>, x>> \in unheard \/ <<u, g>> \in told
          \/ s \in Adding /\ u = a.peer /\ g = a.group
          \/ s = "leave.srem" /\ u = a.user /\ g = a.group

GroupsKnow(s, a) ==
    /\ s = "init.groups" => registry[a.user] = a.socket
    /\ s = "create.room" => a.socket \in open[a.user]
    /\ s \in {"create.sadd", "leave.srem"} /\ a.user \notin twice =>
          \A x \in open[a.user] : a.group \in joined[a.user][x] <=> s = "create.sadd"
    /\ s \in Adding => a.group \in groupsOf[a.peer]

ToldBelong == \A p \in told : p[2] \in groupsOf[p[1]]

Linked(s, a) == FoundWith(s, a) /\ AgreeWith(s, a) /\ GroupsKnow(s, a) /\ ToldBelong

(* Tickets, agents and their jobs.                                         *)
TicketsWith(s, a) == \A m \in Rooms :
    /\ \A t, o \in TicketsOf(m) : t = o
    /\ m \in stamped => TicketsOf(m) = {} \/ (s = "reply.unstamp" /\ m = a.room)
    /\ room[m] = NoRoom => m \notin stamped /\ TicketsOf(m) = {}

Serving == \A b \in Agents :
    /\ agent[b] = "available" => serves[b] = {}
    /\ \A c, d \in serves[b] : c = d

JobsWith(s, a) == \A j \in Jobs : job[j] = "delayed" =>
    /\ jobFor[j] \in Agents
    /\ entry[jobFor[j]] = j \/ (s \in {"reply.record", "say.remove"} /\ j = a.job)
    /\ LastWord(jobFor[j])
       \/ (s \in {"say.entry", "say.unrecord", "say.remove"} /\ jobFor[j] = a.peer)

Talk(m, b) == m \in Rooms /\ room[m] # NoRoom /\ room[m].agent = b /\ b \in Agents

SupportKnows(s, a) ==
    /\ s \in {"contact.socket", "contact.busy"} => a.peer \in Agents /\ agent[a.peer] = "available"
    /\ s \in {"contact.log", "contact.stamp"} => room[a.room] # NoRoom /\ TicketsOf(a.room) = {}
    /\ s \in OfReply => Talk(a.room, a.user)
    /\ s \in OfReply \ {"reply.target", "reply.message"} => a.room \in answered
    /\ s = "reply.ticket" => a.room \in stamped
    /\ s \in {"reply.add", "reply.record"} => entry[a.user] = None
    /\ s = "reply.record" => jobFor[a.job] = a.user
    /\ s \in OfSaying => Talk(a.room, a.peer)
    /\ s \in {"say.unrecord", "say.remove"} => a.peer \in Agents /\ a.job \in Jobs
    /\ s = "say.unrecord" => entry[a.peer] = a.job
    /\ s = "say.remove" => entry[a.peer] = None

Served(s, a) == TicketsWith(s, a) /\ Serving /\ JobsWith(s, a) /\ SupportKnows(s, a)

OrderInv == alone /\ deaths = 0 =>
    /\ Busy = {} => Linked("idle", NoArg) /\ Served("idle", NoArg)
    /\ \A r \in Busy : Linked(pc[r], arg[r]) /\ Served(pc[r], arg[r])

=============================================================================
