---------------------------- MODULE SupportChat -----------------------------
(***************************************************************************)
(* Support sessions of ChattingService: customers contact an agent who is  *)
(* available, messages go back and forth, the first answer opens a ticket, *)
(* the agent closes it and the customer rates it.  An agent who has had    *)
(* the last word for 30 seconds is available again: a delayed job says so, *)
(* unless the customer answers first and removes it.  The hash             *)
(* SupportAgentDetachmentJobs names the job of an agent.                   *)
(***************************************************************************)
EXTENDS GroupChat, Sequences

CONSTANTS Customers, Agents

ASSUME PeopleAssumption == Customers \cap Agents = {} /\ Users = Customers \cup Agents

VARIABLES
    agent,     \* support_agents: their status
    room,      \* chatrooms: who talks with whom
    stamped,   \* the rooms in the hash supportTicketTimestamps
    tickets,   \* support_tickets, in the order of their ids
    entry,     \* the hash SupportAgentDetachmentJobs
    job,       \* the detachment queue: what has become of a job
    jobFor,    \* the agent a job is for
    contacted, \* history: rooms whose contactSupport has come to its end
    serves,    \* history: customers an agent was given since last available
    answered   \* history: rooms where the agent has the last word about support

sessions    == <<agent, room, stamped, tickets>>
queue       == <<entry, job, jobFor>>
histories   == <<contacted, serves, answered>>
supportVars == <<sessions, queue, histories>>

NoRoom == [customer |-> None, agent |-> None]
Ticket == [room: Rooms, agent: Agents, status: {"pending", "failed", "resolved"}, rated: BOOLEAN]

SupportOK ==
    /\ agent \in [Agents -> {"available", "busy"}]
    /\ room \in [Rooms -> {NoRoom} \cup [customer: Customers, agent: Agents]]
    /\ stamped \in SUBSET Rooms
    /\ tickets \in Seq(Ticket) /\ Len(tickets) <= Tickets
    /\ entry \in [Agents -> Jobs \cup {None}]
    /\ job \in [Jobs -> {"none", "delayed", "read busy", "read available", "done"}]
    /\ jobFor \in [Jobs -> Agents \cup {None}]
    /\ contacted \in SUBSET Rooms
    /\ serves \in [Agents -> SUBSET Customers]
    /\ answered \in SUBSET Rooms

SupportInit ==
    /\ agent = [a \in Agents |-> "available"]
    /\ room = [m \in Rooms |-> NoRoom]
    /\ stamped = {}
    /\ tickets = << >>
    /\ entry = [a \in Agents |-> None]
    /\ job = [j \in Jobs |-> "none"]
    /\ jobFor = [j \in Jobs |-> None]
    /\ contacted = {}
    /\ serves = [a \in Agents |-> {}]
    /\ answered = {}

Available(a) == agent' = [agent EXCEPT ![a] = "available"] /\ serves' = [serves EXCEPT ![a] = {}]

(* createChatroom: one transaction, the first message included.            *)
OpenRoom(m, c, a) ==
    /\ room[m] = NoRoom
    /\ room' = [room EXCEPT ![m] = [customer |-> c, agent |-> a]]

(* A job that was running when the process died has stalled, and is run    *)
(* again.                                                                  *)
Stalled == job' = [j \in Jobs |-> IF job[j] \in {"read busy", "read available"} THEN "delayed" ELSE job[j]]

Throw == Die /\ Stalled /\ UNCHANGED <<groupVars, sessions, entry, jobFor, histories>>

Stay == UNCHANGED <<connections, groups, groupVars>>

-----------------------------------------------------------------------------
(* contactSupport.  With nobody available, agent is undefined.             *)

ContactFind(r, c) ==
    /\ pc[r] = "idle"
    /\ Connected(c)
    /\ \/ /\ \A a \in Agents : agent[a] = "busy"
          /\ Throw
       \/ \E a \in Agents :
          /\ agent[a] = "available"
          /\ Begin(r, [NoArg EXCEPT !.user = c, !.peer = a], "contact.socket")
          /\ Stay /\ UNCHANGED supportVars

ContactBusy(r) ==
    /\ At(r, "contact.busy")
    /\ agent' = [agent EXCEPT ![arg[r].peer] = "busy"]
    /\ serves' = [serves EXCEPT ![arg[r].peer] = @ \cup {arg[r].user}]
    /\ Goto(r, "contact.room")
    /\ Stay /\ UNCHANGED <<room, stamped, tickets, queue, contacted, answered>>

(* The agent is sent the message now, before the time is kept.             *)
ContactRoom(r) ==
    /\ At(r, "contact.room")
    /\ \E m \in Rooms :
          /\ OpenRoom(m, arg[r].user, arg[r].peer)
          /\ arg' = [arg EXCEPT ![r].room = m]
    /\ pc' = [pc EXCEPT ![r] = "contact.log"]
    /\ Stay /\ UNCHANGED <<agent, stamped, tickets, queue, histories>>

ContactLog(r) ==
    /\ At(r, "contact.log")
    /\ Goto(r, "contact.stamp")
    /\ Stay /\ UNCHANGED supportVars

ContactStamp(r) ==
    /\ At(r, "contact.stamp")
    /\ stamped' = stamped \cup {arg[r].room}
    /\ contacted' = contacted \cup {arg[r].room}
    /\ Finish(r)
    /\ Stay /\ UNCHANGED <<agent, room, tickets, queue, serves, answered>>

-----------------------------------------------------------------------------
(* message without a chatroom: one is made, and nothing else happens.      *)

StartBegin(r, c, a) ==
    /\ \E from, to \in {c, a} :
          /\ from # to /\ Connected(from)
          /\ Begin(r, [NoArg EXCEPT !.user = from, !.peer = to], "start.target")
    /\ Stay /\ UNCHANGED supportVars

Target(r, step, next) ==
    /\ At(r, step)
    /\ \/ registry[arg[r].peer] = 0 /\ Throw
       \/ /\ registry[arg[r].peer] # 0
          /\ Goto(r, next)
          /\ Stay /\ UNCHANGED supportVars

StartRoom(r) ==
    /\ At(r, "start.room")
    /\ \E m \in Rooms, c \in Customers, a \in Agents :
          /\ {c, a} = {arg[r].user, arg[r].peer}
          /\ OpenRoom(m, c, a)
    /\ Finish(r)
    /\ Stay /\ UNCHANGED <<agent, stamped, tickets, queue, histories>>

-----------------------------------------------------------------------------
(* message in a chatroom, from the agent: the first one opens the ticket,  *)
(* and every one asks for a job unless there is an entry.                  *)

ReplyBegin(r, m) ==
    /\ room[m] # NoRoom
    /\ Connected(room[m].agent)
    /\ Begin(r, [NoArg EXCEPT !.user = room[m].agent, !.peer = room[m].customer, !.room = m],
             "reply.target")
    /\ Stay /\ UNCHANGED supportVars

ReplyMessage(r) ==
    /\ At(r, "reply.message")
    /\ answered' = answered \cup {arg[r].room}
    /\ Goto(r, "reply.stamp")
    /\ Stay /\ UNCHANGED <<sessions, queue, contacted, serves>>

ReplyStamp(r) ==
    /\ At(r, "reply.stamp")
    /\ Goto(r, IF arg[r].room \in stamped THEN "reply.ticket" ELSE "reply.pending")
    /\ Stay /\ UNCHANGED supportVars

(* The time is deleted with the ticket not yet there: faulty.              *)
ReplyTicketLate(r) ==
    /\ At(r, "reply.ticket")
    /\ stamped' = stamped \ {arg[r].room}
    /\ Goto(r, "reply.unstamp")
    /\ Stay /\ UNCHANGED <<agent, room, tickets, queue, histories>>

ReplyTicket(r) ==
    /\ At(r, "reply.ticket")
    /\ Len(tickets) < Tickets
    /\ tickets' = Append(tickets, [room |-> arg[r].room, agent |-> arg[r].user,
                                   status |-> "pending", rated |-> FALSE])
    /\ Goto(r, "reply.unstamp")
    /\ Stay /\ UNCHANGED <<agent, room, stamped, queue, histories>>

ReplyUnstamp(r) ==
    /\ At(r, "reply.unstamp")
    /\ stamped' = stamped \ {arg[r].room}
    /\ Goto(r, "reply.pending")
    /\ Stay /\ UNCHANGED <<agent, room, tickets, queue, histories>>

(* The entry stays when its job has run: no other is added then.           *)
ReplyPending(r) ==
    /\ At(r, "reply.pending")
    /\ IF entry[arg[r].user] # None THEN Finish(r) ELSE Goto(r, "reply.add")
    /\ Stay /\ UNCHANGED supportVars

ReplyAdd(r) ==
    /\ At(r, "reply.add")
    /\ \E j \in Jobs :
          /\ job[j] = "none"
          /\ job' = [job EXCEPT ![j] = "delayed"]
          /\ jobFor' = [jobFor EXCEPT ![j] = arg[r].user]
          /\ arg' = [arg EXCEPT ![r].job = j]
    /\ pc' = [pc EXCEPT ![r] = "reply.record"]
    /\ Stay /\ UNCHANGED <<sessions, entry, histories>>

ReplyRecord(r) ==
    /\ At(r, "reply.record")
    /\ entry' = [entry EXCEPT ![arg[r].user] = arg[r].job]
    /\ Finish(r)
    /\ Stay /\ UNCHANGED <<sessions, job, jobFor, histories>>

-----------------------------------------------------------------------------
(* message in a chatroom, from the customer, who may say that it is about  *)
(* support: then the agent's job is called off.                            *)

SayBegin(r, m) ==
    /\ room[m] # NoRoom
    /\ Connected(room[m].customer)
    /\ Begin(r, [NoArg EXCEPT !.user = room[m].customer, !.peer = room[m].agent, !.room = m],
             "say.target")
    /\ Stay /\ UNCHANGED supportVars

SayMessage(r) ==
    /\ At(r, "say.message")
    /\ \/ answered' = answered \ {arg[r].room} /\ Goto(r, "say.entry")
       \/ UNCHANGED answered /\ Finish(r)
    /\ Stay /\ UNCHANGED <<sessions, queue, contacted, serves>>

SayEntry(r) ==
    LET j == entry[arg[r].peer] IN
    /\ At(r, "say.entry")
    /\ \/ j = None /\ Finish(r)
       \/ /\ j # None
          /\ arg' = [arg EXCEPT ![r].job = j]
          /\ pc' = [pc EXCEPT ![r] = "say.unrecord"]
    /\ Stay /\ UNCHANGED supportVars

SayUnrecord(r) ==
    /\ At(r, "say.unrecord")
    /\ entry' = [entry EXCEPT ![arg[r].peer] = None]
    /\ Goto(r, "say.remove")
    /\ Stay /\ UNCHANGED <<sessions, job, jobFor, histories>>

(* The job is left to run: faulty.                                         *)
SayRemoveNothing(r) ==
    /\ At(r, "say.remove")
    /\ Finish(r)
    /\ Stay /\ UNCHANGED supportVars

(* getJob and remove: a job that is running is locked, and is not removed. *)
SayRemove(r) ==
    LET j == arg[r].job IN
    /\ At(r, "say.remove")
    /\ \/ job[j] \in {"read busy", "read available"} /\ Throw
       \/ /\ job[j] \in {"delayed", "done"}
          /\ job' = [job EXCEPT ![j] = "done"]
          /\ Finish(r)
          /\ Stay /\ UNCHANGED <<sessions, entry, jobFor, histories>>

-----------------------------------------------------------------------------
(* SupportAgentDetachmentWorker, and the event detachSupportAgent.         *)

JobFind(j) ==
    /\ job[j] = "delayed"
    /\ job' = [job EXCEPT ![j] = IF agent[jobFor[j]] = "busy" THEN "read busy" ELSE "read available"]
    /\ Stay /\ UNCHANGED <<sessions, entry, jobFor, histories, pc, arg>>

(* A row that was read available is not written.                           *)
JobSave(j) ==
    /\ job[j] \in {"read busy", "read available"}
    /\ job' = [job EXCEPT ![j] = "done"]
    /\ IF job[j] = "read busy" THEN Available(jobFor[j]) ELSE UNCHANGED <<agent, serves>>
    /\ Stay /\ UNCHANGED <<room, stamped, tickets, entry, jobFor, contacted, answered, pc, arg>>

DetachUpdate(r, a) ==
    /\ Connected(a)
    /\ Begin(r, [NoArg EXCEPT !.user = a], "detach.log")
    /\ Available(a)
    /\ Stay /\ UNCHANGED <<room, stamped, tickets, queue, contacted, answered>>

DetachLog(r) ==
    /\ At(r, "detach.log")
    /\ Finish(r)
    /\ Stay /\ UNCHANGED supportVars

-----------------------------------------------------------------------------
(* markSupportTicketAsClosed and rateSupportSession                        *)

TicketsOf(m) == {t \in DOMAIN tickets : tickets[t].room = m}
FirstOf(ts) == CHOOSE t \in ts : \A o \in ts : t <= o

CloseFind(r, m) ==
    /\ pc[r] = "idle"
    /\ room[m] # NoRoom /\ Connected(room[m].agent)
    /\ \/ TicketsOf(m) = {} /\ Throw
       \/ /\ TicketsOf(m) # {}
          /\ Begin(r, [NoArg EXCEPT !.peer = room[m].customer, !.ticket = FirstOf(TicketsOf(m))],
                   "close.socket")
          /\ Stay /\ UNCHANGED supportVars

(* A status the column does not have: faulty.                              *)
CloseSaveClosed(r) ==
    /\ At(r, "close.save")
    /\ tickets' = [tickets EXCEPT ![arg[r].ticket].status = "closed"]
    /\ Finish(r)
    /\ Stay /\ UNCHANGED <<agent, room, stamped, queue, histories>>

CloseSave(r) ==
    /\ At(r, "close.save")
    /\ \E end \in {"resolved", "failed"} :
          tickets' = [tickets EXCEPT ![arg[r].ticket].status = end]
    /\ Finish(r)
    /\ Stay /\ UNCHANGED <<agent, room, stamped, queue, histories>>

(* A call of HTTP, which answers an error where a listener would throw.    *)
RateFind(r, m) ==
    /\ TicketsOf(m) # {}
    /\ tickets[FirstOf(TicketsOf(m))].status # "pending"
    /\ Begin(r, [NoArg EXCEPT !.ticket = FirstOf(TicketsOf(m))], "rate.save")
    /\ Stay /\ UNCHANGED supportVars

RateSave(r) ==
    /\ At(r, "rate.save")
    /\ tickets' = [tickets EXCEPT ![arg[r].ticket].rated = TRUE]
    /\ Finish(r)
    /\ Stay /\ UNCHANGED <<agent, room, stamped, queue, histories>>

-----------------------------------------------------------------------------
SupportArrive(r) ==
    \/ \E c \in Customers : ContactFind(r, c) \/ \E a \in Agents : StartBegin(r, c, a)
    \/ \E m \in Rooms : ReplyBegin(r, m) \/ SayBegin(r, m) \/ CloseFind(r, m) \/ RateFind(r, m)
    \/ \E a \in Agents : DetachUpdate(r, a)

SupportContinue(r) ==
    \/ Target(r, "contact.socket", "contact.busy") \/ Target(r, "start.target", "start.room")
    \/ Target(r, "reply.target", "reply.message") \/ Target(r, "say.target", "say.message")
    \/ Target(r, "close.socket", "close.save")
    \/ ContactBusy(r) \/ ContactRoom(r) \/ ContactLog(r) \/ ContactStamp(r) \/ StartRoom(r)
    \/ ReplyMessage(r) \/ ReplyStamp(r) \/ ReplyTicket(r) \/ ReplyUnstamp(r)
    \/ ReplyPending(r) \/ ReplyAdd(r) \/ ReplyRecord(r)
    \/ SayMessage(r) \/ SayEntry(r) \/ SayUnrecord(r) \/ SayRemove(r)
    \/ DetachLog(r) \/ CloseSave(r) \/ RateSave(r)

Worker == \E j \in Jobs : JobFind(j) \/ JobSave(j)

(* The process may also die for reasons of its own.                        *)
Crash == Throw

TypeOK == SocketsOK /\ GroupsOK /\ SupportOK

Init == SocketsInit /\ GroupsInit /\ SupportInit

Step ==
    \/ \E r \in Requests :
          \/ (SocketsArrive(r) \/ SocketsContinue(r)) /\ UNCHANGED <<groupVars, supportVars>>
          \/ (GroupsArrive(r) \/ GroupsContinue(r)) /\ UNCHANGED supportVars
          \/ GroupsThrow(r) /\ Stalled /\ UNCHANGED <<sessions, entry, jobFor, histories>>
          \/ SupportArrive(r) \/ SupportContinue(r)
    \/ GroupsClient /\ UNCHANGED supportVars
    \/ Worker
    \/ Crash

Running == {j \in Jobs : job[j] \in {"read busy", "read available"}}

(* A client's answer to what it was told counts as part of the handler.    *)
OneAtATime ==
    /\ Cardinality(Busy) + Cardinality(Running) <= 1
    /\ told # {} => Busy = {}

vars == <<connections, groups, groupVars, supportVars, alone, pc, arg>>

Next == Step /\ alone' = (alone /\ OneAtATime')

Spec == Init /\ [][Next]_vars

=============================================================================
