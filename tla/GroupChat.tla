----------------------------- MODULE GroupChat ------------------------------
(***************************************************************************)
(* The group events of ChattingService.  Who belongs to a group is kept    *)
(* three times: in the rows of user_chatrooms, in the sets <user>:groups   *)
(* of Redis, and in the rooms that sockets have joined.  The column        *)
(* groupAdmin is never written: nobody is anybody's administrator, which   *)
(* is what kickGroupMember, updateGroupName and deleteGroup compare with.  *)
(***************************************************************************)
EXTENDS Sockets

VARIABLES
    groupRows, \* chatrooms of groups
    memberOf,  \* rows of user_chatrooms: pairs of a user and a group
    told,      \* pairs whose client was told of its group, and will join it
    dropped,   \* pairs whose client was told that its group is deleted
    unheard,   \* history: sockets that were open and not told, with the group
    gone       \* history: pairs that left a group, or whose group was deleted

groupVars == <<groupRows, memberOf, told, dropped, unheard, gone>>

Pairs == Users \X Groups

GroupsOK ==
    /\ groupRows \in SUBSET Groups
    /\ \A p \in {memberOf, told, dropped, gone} : p \in SUBSET Pairs
    /\ unheard \in SUBSET (Pairs \X Sockets)

GroupsInit ==
    /\ groupRows = {} /\ memberOf = {}
    /\ told = {} /\ dropped = {} /\ unheard = {} /\ gone = {}

Members(g) == {u \in Users : g \in groupsOf[u]}

Deaf(pairs) ==
    unheard' = unheard \cup {x \in pairs \X Sockets : x[2] \in open[x[1][1]]}

(* A client is told through the socket that userSockets names.             *)
Tell(pairs) ==
    LET heard == {p \in pairs : registry[p[1]] \in open[p[1]]} IN
    /\ told' = told \cup heard
    /\ Deaf(pairs \ heard)

-----------------------------------------------------------------------------
(* createGroup: one transaction, which inserts no row for the creator.     *)

CreateBegin(r, u, s, g) ==
    /\ s \in open[u]
    /\ g \notin groupRows
    /\ Begin(r, [NoArg EXCEPT !.user = u, !.socket = s, !.group = g], "create.room")
    /\ UNCHANGED <<connections, groups, groupVars>>

(* The socket joins, unless it has closed.                                 *)
CreateRoom(r) ==
    LET u == arg[r].user
        s == arg[r].socket
        g == arg[r].group
    IN
    /\ At(r, "create.room")
    /\ \/ g \in groupRows /\ Finish(r) /\ UNCHANGED <<groupRows, memberOf, joined>>
       \/ /\ g \notin groupRows
          /\ groupRows' = groupRows \cup {g}
          /\ \E others \in SUBSET (Users \ {u}) : memberOf' = memberOf \cup (others \X {g})
          /\ joined' = IF s \in open[u] THEN [joined EXCEPT ![u][s] = @ \cup {g}] ELSE joined
          /\ Goto(r, "create.sadd")
    /\ UNCHANGED <<connections, groupsOf, twice, told, dropped, unheard, gone>>

(* One pipeline.  It is run again with the sockets' names asked for, but   *)
(* a pipeline answers once: the members may never be told.                 *)
CreateSadd(r) ==
    LET u == arg[r].user
        g == arg[r].group
        others == {v \in Users : <<v, g>> \in memberOf}
    IN
    /\ At(r, "create.sadd")
    /\ groupsOf' = [v \in Users |-> groupsOf[v] \cup IF v \in others \cup {u} THEN {g} ELSE {}]
    /\ \/ Tell(others \X {g})
       \/ Deaf(others \X {g}) /\ UNCHANGED told
    /\ Finish(r)
    /\ UNCHANGED <<connections, joined, twice, groupRows, memberOf, dropped, gone>>

(* joinUserToGroup, sent back by a client that was told of its group.      *)
Join(u, s, g) ==
    /\ <<u, g>> \in told
    /\ s \in open[u]
    /\ joined' = [joined EXCEPT ![u][s] = @ \cup {g}]
    /\ told' = told \ {<<u, g>>}
    /\ UNCHANGED <<connections, groupsOf, twice, groupRows, memberOf, dropped, unheard, gone, pc, arg>>

-----------------------------------------------------------------------------
(* addMemberToGroup: the set is written before it is known whether the     *)
(* member is connected, and has no row yet: else the handler throws.       *)

AddBegin(r, u, g, v) ==
    /\ Connected(u) /\ u \in Members(g) /\ v \notin Members(g)
    /\ Begin(r, [NoArg EXCEPT !.user = u, !.peer = v, !.group = g], "add.sadd")
    /\ UNCHANGED <<connections, groups, groupVars>>

AddSadd(r) ==
    /\ At(r, "add.sadd")
    /\ groupsOf' = [groupsOf EXCEPT ![arg[r].peer] = @ \cup {arg[r].group}]
    /\ gone' = gone \ {<<arg[r].peer, arg[r].group>>}
    /\ Goto(r, "add.socket")
    /\ UNCHANGED <<connections, joined, twice, groupRows, memberOf, told, dropped, unheard>>

AddSocket(r) ==
    /\ At(r, "add.socket")
    /\ registry[arg[r].peer] # 0
    /\ Goto(r, "add.row")
    /\ UNCHANGED <<connections, groups, groupVars>>

AddSocketMissing(r) ==
    /\ At(r, "add.socket")
    /\ registry[arg[r].peer] = 0
    /\ Die
    /\ UNCHANGED groupVars

AddRow(r) ==
    /\ At(r, "add.row")
    /\ <<arg[r].peer, arg[r].group>> \notin memberOf
    /\ memberOf' = memberOf \cup {<<arg[r].peer, arg[r].group>>}
    /\ Goto(r, "add.message")
    /\ UNCHANGED <<connections, groups, groupRows, told, dropped, unheard, gone>>

(* Who has left has a row: a second one is refused, and the handler throws. *)
AddRowTwice(r) ==
    /\ At(r, "add.row")
    /\ <<arg[r].peer, arg[r].group>> \in memberOf
    /\ Die
    /\ UNCHANGED groupVars

AddMessage(r) ==
    /\ At(r, "add.message")
    /\ Tell({<<arg[r].peer, arg[r].group>>})
    /\ Finish(r)
    /\ UNCHANGED <<connections, groups, groupRows, memberOf, dropped, gone>>

-----------------------------------------------------------------------------
(* groupLeave: the socket leaves, and the set is written; the row stays.   *)

LeaveBegin(r, u, s, g) ==
    /\ s \in open[u]
    /\ u \in Members(g) \/ <<u, g>> \in dropped
    /\ joined' = [joined EXCEPT ![u][s] = @ \ {g}]
    /\ Begin(r, [NoArg EXCEPT !.user = u, !.group = g], "leave.srem")
    /\ UNCHANGED <<connections, groupsOf, twice, groupVars>>

LeaveSrem(r) ==
    LET p == <<arg[r].user, arg[r].group>> IN
    /\ At(r, "leave.srem")
    /\ groupsOf' = [groupsOf EXCEPT ![p[1]] = @ \ {p[2]}]
    /\ gone' = gone \cup {p}
    /\ dropped' = dropped \ {p}
    /\ Goto(r, "leave.message")
    /\ UNCHANGED <<connections, joined, twice, groupRows, memberOf, told, unheard>>

LeaveMessage(r) ==
    /\ At(r, "leave.message")
    /\ Finish(r)
    /\ UNCHANGED <<connections, groups, groupVars>>

-----------------------------------------------------------------------------
(* deleteGroup: the sets of the users that the client names are written,   *)
(* those who listen are told, and no row is destroyed, for none has the    *)
(* administrator that is asked for.                                        *)

DeleteBegin(r, u, g) ==
    /\ Connected(u) /\ u \in Members(g)
    /\ Begin(r, [NoArg EXCEPT !.user = u, !.group = g], "delete.srem")
    /\ UNCHANGED <<connections, groups, groupVars>>

DeleteSrem(r) ==
    LET g == arg[r].group IN
    /\ At(r, "delete.srem")
    /\ \E others \in SUBSET Users :
          LET named == others \cup {arg[r].user} IN
          /\ groupsOf' = [v \in Users |-> groupsOf[v] \ IF v \in named THEN {g} ELSE {}]
          /\ gone' = gone \cup (named \X {g})
    /\ dropped' = dropped \cup {<<v, g>> : v \in {w \in Users : Listening(w, g)}}
    /\ Goto(r, "delete.destroy")
    /\ UNCHANGED <<connections, joined, twice, groupRows, memberOf, told, unheard>>

DeleteDestroy(r) ==
    /\ At(r, "delete.destroy")
    /\ Finish(r)
    /\ UNCHANGED <<connections, groups, groupVars>>

(* kickGroupMember and updateGroupName compare their caller with an        *)
(* administrator who does not exist, and throw.                            *)
AdminOnly(r, u, g) ==
    /\ pc[r] = "idle"
    /\ Connected(u) /\ g \in groupRows
    /\ Die
    /\ UNCHANGED groupVars

-----------------------------------------------------------------------------
GroupsArrive(r) == \E u \in Users, g \in Groups :
    \/ \E s \in Sockets : CreateBegin(r, u, s, g) \/ LeaveBegin(r, u, s, g)
    \/ \E v \in Users : AddBegin(r, u, g, v)
    \/ DeleteBegin(r, u, g)

GroupsContinue(r) ==
    \/ CreateRoom(r) \/ CreateSadd(r)
    \/ AddSadd(r) \/ AddSocket(r) \/ AddRow(r) \/ AddMessage(r)
    \/ LeaveSrem(r) \/ LeaveMessage(r)
    \/ DeleteSrem(r) \/ DeleteDestroy(r)

GroupsThrow(r) ==
    \/ AddSocketMissing(r) \/ AddRowTwice(r)
    \/ \E u \in Users, g \in Groups : AdminOnly(r, u, g)

GroupsClient == \E u \in Users, s \in Sockets, g \in Groups : Join(u, s, g)

=============================================================================
