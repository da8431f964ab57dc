------------------------------ MODULE Sockets -------------------------------
(***************************************************************************)
(* The connections of ChattingService: init and the event disconnect, with *)
(* the hash userSockets that names a socket for every user, the sets       *)
(* <user>:groups, and the rooms of Socket.IO that sockets have joined.     *)
(*                                                                         *)
(* The listeners of a socket's events are async functions nobody catches   *)
(* the errors of: one that throws is an unhandled rejection, and the       *)
(* process dies.  Redis and MySQL keep what they have; the connections are *)
(* lost without their disconnects being handled.  pc[r] is the awaited     *)
(* call that the handler in slot r makes next.                             *)
(***************************************************************************)
EXTENDS Integers, FiniteSets

CONSTANTS
    Users,     \* users of the chat
    Groups,    \* bound: groups that may be created
    Rooms,     \* bound: one-on-one chatrooms that may be created
    Jobs,      \* bound: jobs that may be added to the detachment queue
    Requests,  \* slots of handlers under way
    Tickets,   \* bound: support tickets that may be opened
    Connects,  \* bound: connections of a user
    Deaths,    \* bound: how often the process dies
    None       \* no value

ASSUME NoneAssumption == None \notin Users \cup Groups \cup Rooms \cup Jobs
ASSUME FiniteAssumption == IsFiniteSet(Requests) /\ IsFiniteSet(Jobs)
ASSUME BoundsAssumption == Tickets \in Nat /\ Connects \in Nat /\ Deaths \in Nat

VARIABLES
    opened,    \* connections a user has made
    deaths,    \* how often the process has died
    open,      \* sockets that are connected and listened to
    registry,  \* the hash userSockets
    groupsOf,  \* the sets <user>:groups
    joined,    \* rooms a socket has joined
    twice,     \* history: users who have had two sockets at once
    alone,     \* history: no two handlers have overlapped
    pc, arg

connections == <<opened, deaths, open, registry>>
groups == <<groupsOf, joined, twice>>

Steps ==
    {"idle", "init.set", "init.groups", "bye.delete"} \cup
    {"create.room", "create.sadd", "add.sadd", "add.socket", "add.row", "add.message",
     "leave.srem", "leave.message", "delete.srem", "delete.destroy"} \cup
    {"start.target", "start.room",
     "contact.socket", "contact.busy", "contact.room", "contact.log", "contact.stamp",
     "reply.target", "reply.message", "reply.stamp", "reply.ticket", "reply.unstamp",
     "reply.pending", "reply.add", "reply.record",
     "say.target", "say.message", "say.entry", "say.unrecord", "say.remove",
     "close.socket", "close.save", "rate.save", "detach.log"}

Sockets == 1..Connects
Arg == [user: Users \cup {None}, peer: Users \cup {None}, socket: 0..Connects,
        group: Groups \cup {None}, room: Rooms \cup {None}, job: Jobs \cup {None}, ticket: 0..Tickets]
NoArg == [user |-> None, peer |-> None, socket |-> 0,
          group |-> None, room |-> None, job |-> None, ticket |-> 0]

SocketsOK ==
    /\ opened \in [Users -> 0..Connects] /\ deaths \in 0..Deaths
    /\ open \in [Users -> SUBSET Sockets]
    /\ registry \in [Users -> 0..Connects]
    /\ groupsOf \in [Users -> SUBSET Groups]
    /\ joined \in [Users -> [Sockets -> SUBSET Groups]]
    /\ twice \in SUBSET Users
    /\ alone \in BOOLEAN
    /\ pc \in [Requests -> Steps]
    /\ arg \in [Requests -> Arg]

SocketsInit ==
    /\ opened = [u \in Users |-> 0] /\ deaths = 0
    /\ open = [u \in Users |-> {}]
    /\ registry = [u \in Users |-> 0]
    /\ groupsOf = [u \in Users |-> {}]
    /\ joined = [u \in Users |-> [s \in Sockets |-> {}]]
    /\ twice = {}
    /\ alone = TRUE
    /\ pc = [r \in Requests |-> "idle"]
    /\ arg = [r \in Requests |-> NoArg]

-----------------------------------------------------------------------------
(* The parts handlers are made of.                                         *)

Begin(r, a, step) ==
    /\ pc[r] = "idle"
    /\ arg' = [arg EXCEPT ![r] = a]
    /\ pc' = [pc EXCEPT ![r] = step]

At(r, step) == pc[r] = step
Goto(r, step) == pc' = [pc EXCEPT ![r] = step] /\ UNCHANGED arg

Finish(r) ==
    /\ pc' = [pc EXCEPT ![r] = "idle"]
    /\ arg' = [arg EXCEPT ![r] = NoArg]

(* The handlers of all requests end with the process, and the sockets are  *)
(* gone; jobs that were under way are run again, see SupportChat.          *)
Die ==
    /\ deaths < Deaths
    /\ deaths' = deaths + 1
    /\ pc' = [r \in Requests |-> "idle"]
    /\ arg' = [r \in Requests |-> NoArg]
    /\ open' = [u \in Users |-> {}]
    /\ joined' = [u \in Users |-> [s \in Sockets |-> {}]]
    /\ UNCHANGED <<opened, registry, groupsOf, twice>>

Connected(u) == open[u] # {}
Listening(u, g) == \E s \in open[u] : g \in joined[u][s]

Busy == {r \in Requests : pc[r] # "idle"}

-----------------------------------------------------------------------------
(* init                                                                    *)

Connect(r, u) ==
    /\ opened[u] < Connects
    /\ opened' = [opened EXCEPT ![u] = @ + 1]
    /\ twice' = IF Connected(u) THEN twice \cup {u} ELSE twice
    /\ Begin(r, [NoArg EXCEPT !.user = u, !.socket = opened[u] + 1], "init.set")
    /\ UNCHANGED <<deaths, open, registry, groupsOf, joined>>

InitSet(r) ==
    /\ At(r, "init.set")
    /\ registry' = [registry EXCEPT ![arg[r].user] = arg[r].socket]
    /\ Goto(r, "init.groups")
    /\ UNCHANGED <<opened, deaths, open, groups>>

(* The listeners are added last: a socket that has closed by then leaves   *)
(* an entry that no disconnect will delete.                                *)
InitGroups(r) ==
    LET u == arg[r].user
        s == arg[r].socket
    IN
    /\ At(r, "init.groups")
    /\ \/ open' = [open EXCEPT ![u] = @ \cup {s}]
          /\ joined' = [joined EXCEPT ![u][s] = groupsOf[u]]
       \/ UNCHANGED <<open, joined>>
    /\ Finish(r)
    /\ UNCHANGED <<opened, deaths, registry, groupsOf, twice>>

(* disconnect.  The entry may name a later socket by now: it is deleted    *)
(* all the same.                                                           *)
Disconnect(r, u, s) ==
    /\ s \in open[u]
    /\ open' = [open EXCEPT ![u] = @ \ {s}]
    /\ joined' = [joined EXCEPT ![u][s] = {}]
    /\ Begin(r, [NoArg EXCEPT !.user = u, !.socket = s], "bye.delete")
    /\ UNCHANGED <<opened, deaths, registry, groupsOf, twice>>

ByeDelete(r) ==
    /\ At(r, "bye.delete")
    /\ registry' = [registry EXCEPT ![arg[r].user] = 0]
    /\ Finish(r)
    /\ UNCHANGED <<opened, deaths, open, groups>>

SocketsArrive(r) == \E u \in Users :
    \/ Connect(r, u)
    \/ \E s \in Sockets : Disconnect(r, u, s)

SocketsContinue(r) == InitSet(r) \/ InitGroups(r) \/ ByeDelete(r)

=============================================================================
