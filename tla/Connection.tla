------------------------------ MODULE Connection ------------------------------
(***************************************************************************)
(* The ConnectionActor of server/src/connection.rs: one task per accepted  *)
(* TCP connection.                                                         *)
(*                                                                         *)
(* `script[c]` is what the task still has to await before it is back at    *)
(* its select loop, in program order: a query, a send to the router, a     *)
(* send to its own channel, a write to the socket.  Each await is one      *)
(* step, so the router, the other connections and the database move        *)
(* between any two of them; a query's result replaces its own entry by     *)
(* what the code goes on to do.                                            *)
(*                                                                         *)
(* `wire[c]` is every message written to the socket and `heard[c]` every   *)
(* frame read from it, both in order.                                      *)
(***************************************************************************)
EXTENDS Router

CONSTANTS
  FirstFrames,  \* the client messages a connection of this model may open with
  Requests      \* the client messages that may follow

ASSUME RequestAssumption == FirstFrames \cup Requests \subseteq ClientMessage

VARIABLES
  phase,   \* where handle_connection is
  me,      \* user_id, once authenticated
  script,  \* the awaits left before the next turn of the loop
  wire,    \* messages written to the client
  heard,   \* frames read from the client
  clock    \* SystemTime::now(), in seconds

connVars == <<phase, me, script, wire, heard>>

\* fresh: not accepted yet.  authenticating: awaiting or checking the first
\* frame.  rejecting: writing the error of a failed login.  greeting: from a
\* successful login to the loop.  serving: the loop.  leaving: after its break.
Phase == {"fresh", "authenticating", "rejecting", "greeting", "serving",
          "leaving", "closed"}

\* The awaits.
ToRouter(e) == [do |-> "toRouter", event |-> e]
ToSelf(m)   == [do |-> "toSelf", msg |-> m]
ToClient(m) == [do |-> "toClient", msg |-> m]
Query(q)    == [do |-> q]
QueryGroup(q, g)     == [do |-> q, group |-> g]
QueryMember(q, g, u) == [do |-> q, group |-> g, user |-> u]
QueryAccount(q, n, p) == [do |-> q, name |-> n, password |-> p]
QuerySince(q, t)     == [do |-> q, since |-> t]

Await ==
  [do : {"toRouter"}, event : RouterEvent]
    \cup [do : {"toSelf", "toClient"}, msg : ServerMessage]
    \cup [do : {"fetchGroups", "fetchUsers", "insertGroup"}]
    \cup [do : {"insertCreator", "fetchMembers", "groupInfo"}, group : GroupId]
    \cup [do : {"insertMember", "groupName"}, group : GroupId, user : UserId]
    \cup [do : {"login", "nameCheck", "insertUser"}, name : Name, password : Password]
    \cup [do : {"history"}, since : Timestamp]

ConnInit ==
  /\ phase = [c \in Conn |-> "fresh"]
  /\ me = [c \in Conn |-> NoUser]
  /\ script = [c \in Conn |-> <<>>]
  /\ wire = [c \in Conn |-> <<>>]
  /\ heard = [c \in Conn |-> <<>>]

Awaiting(c, do) == script[c] # <<>> /\ Head(script[c]).do = do

\* The entry awaited is replaced by the steps that follow from its result.
Continue(c, steps) == script' = [script EXCEPT ![c] = steps \o Tail(@)]

\* Nothing but the script moves.
OnlyScript == UNCHANGED <<phase, me, wire, heard, routerVars, chanVars>>

-----------------------------------------------------------------------------
(* Before the loop.                                                        *)

\* main.rs: listener.accept() and the spawn of the actor.
Accept(c) ==
  /\ phase[c] = "fresh"
  /\ phase' = [phase EXCEPT ![c] = "authenticating"]
  /\ UNCHANGED <<me, script, wire, heard, routerVars, chanVars, dbVars>>

\* The return of handle_connection drops rx_from_router and what is in it.
Return(c) ==
  /\ phase' = [phase EXCEPT ![c] = "closed"]
  /\ script' = [script EXCEPT ![c] = <<>>]
  /\ open' = open \ {c}
  /\ chan' = [chan EXCEPT ![c] = <<>>]

RejectSilently(c, error) ==
  /\ phase' = [phase EXCEPT ![c] = "rejecting"]
  /\ script' = [script EXCEPT ![c] = <<>>]
  /\ UNCHANGED <<me, wire, heard, routerVars, chanVars, dbVars>>

\* An authentication error is written, then the socket is shut down.
Reject(c, error) ==
  /\ phase' = [phase EXCEPT ![c] = "rejecting"]
  /\ script' = [script EXCEPT ![c] = <<ToClient(Error(error))>>]
  /\ UNCHANGED <<me, wire, heard, routerVars, chanVars, dbVars>>

WelcomeAnonymous(c, u) ==
  /\ phase' = [phase EXCEPT ![c] = "greeting"]
  /\ script' = [script EXCEPT ![c] = <<Query("fetchGroups")>>]
  /\ UNCHANGED <<me, wire, heard, routerVars, chanVars>>

Welcome(c, u) ==
  /\ phase' = [phase EXCEPT ![c] = "greeting"]
  /\ me' = [me EXCEPT ![c] = u]
  /\ script' = [script EXCEPT ![c] = <<Query("fetchGroups")>>]
  /\ UNCHANGED <<wire, heard, routerVars, chanVars>>

FirstFrame(c, m) ==
  /\ phase[c] = "authenticating"
  /\ script[c] = <<>>
  /\ heard' = [heard EXCEPT ![c] = Append(@, m)]
  /\ \/ /\ m.type = "Login"
        /\ script' = [script EXCEPT ![c] = <<QueryAccount("login", m.name, m.password)>>]
        /\ UNCHANGED phase
     \/ /\ m.type = "Register"
        /\ script' = [script EXCEPT ![c] = <<QueryAccount("nameCheck", m.name, m.password)>>]
        /\ UNCHANGED phase
     \/ /\ m.type \notin {"Login", "Register"}
        /\ script' = [script EXCEPT ![c] = <<ToClient(Error("FirstMessageNotAuth"))>>]
        /\ phase' = [phase EXCEPT ![c] = "rejecting"]
  /\ UNCHANGED <<me, wire, routerVars, chanVars, dbVars>>

\* No first frame, or one that is not a ClientMessage.
NoFirstFrame(c) ==
  /\ phase[c] = "authenticating"
  /\ script[c] = <<>>
  /\ Return(c)
  /\ UNCHANGED <<me, wire, heard, routerVars, dbVars>>

LoginUser(c) ==
  /\ Awaiting(c, "login")
  /\ LET q == Head(script[c])
     IN  \/ \E u \in Authenticated(q.name, q.password) :
              Welcome(c, u) /\ UNCHANGED dbVars
         \/ /\ MayFail("login") \/ Authenticated(q.name, q.password) = {}
            /\ Reject(c, "InvalidCredentials")

\* register_user: the SELECT of the name and, after hashing, the INSERT are
\* two statements with no transaction around them.
CheckName(c) ==
  /\ Awaiting(c, "nameCheck")
  /\ LET q == Head(script[c])
     IN  \/ /\ ~NameTaken(q.name)
            /\ Continue(c, <<QueryAccount("insertUser", q.name, q.password)>>)
            /\ OnlyScript
            /\ UNCHANGED dbVars
         \/ /\ MayFail("nameCheck") \/ NameTaken(q.name)
            /\ Reject(c, "UsernameTaken")

RegisterUser(c) ==
  /\ Awaiting(c, "insertUser")
  /\ LET q == Head(script[c])
     IN  \/ \E u \in UserId \ RegisteredUsers :
              InsertUser(u, q.name, q.password) /\ Welcome(c, u)
         \/ /\ MayFail("insertUser") \/ ~UniqueName(q.name)
            /\ Reject(c, "UsernameTaken")

GreetingGroupsFirst(u, gs, c) ==
  <<ToRouter(UserConnected(u, gs, c)), ToClient(GroupsList(gs)),
    ToClient(AuthSuccess(u)), Query("fetchUsers")>>

GreetingUnsubscribed(u, gs, c) ==
  <<ToRouter(UserConnected(u, {}, c)), ToClient(AuthSuccess(u)),
    ToClient(GroupsList(gs)), Query("fetchUsers")>>

\* The groups are read, the channel is made, and what follows is fixed: the
\* router is told with this snapshot, then the client gets it.
Greeting(u, gs, c) ==
  <<ToRouter(UserConnected(u, gs, c)), ToClient(AuthSuccess(u)),
    ToClient(GroupsList(gs)), Query("fetchUsers")>>

FetchGroups(c) ==
  /\ Awaiting(c, "fetchGroups")
  /\ \/ Continue(c, Greeting(me[c], GroupsOf(me[c]), c))
     \/ MayFail("fetchGroups") /\ Continue(c, Greeting(me[c], {}, c))
  /\ open' = open \cup {c}
  /\ UNCHANGED <<chan, phase, me, wire, heard, routerVars, dbVars>>

FetchUsers(c) ==
  /\ Awaiting(c, "fetchUsers")
  /\ \/ Continue(c, <<ToClient(UsersList(RegisteredUsers))>>)
     \/ MayFail("fetchUsers") /\ Continue(c, <<ToClient(UsersList({}))>>)
  /\ OnlyScript
  /\ UNCHANGED dbVars

-----------------------------------------------------------------------------
(* The await primitives.                                                   *)

\* router_tx.send(..).await: waits while the router's queue is full.  The
\* last send of all, UserDisconnected, ends the actor.
PostToRouter(c) ==
  /\ Awaiting(c, "toRouter")
  /\ Len(rxq) < RouterCap
  /\ rxq' = Append(rxq, Head(script[c]).event)
  /\ IF phase[c] = "leaving"
       THEN Return(c)
       ELSE Continue(c, <<>>) /\ UNCHANGED <<phase, chanVars>>
  /\ UNCHANGED <<me, wire, heard, sessions, subs, fanout, saves, dbVars>>

\* tx_to_client.send(..).await on the actor's own channel.
PostToSelf(c) ==
  /\ Awaiting(c, "toSelf")
  /\ Len(chan[c]) < ChanCap
  /\ chan' = [chan EXCEPT ![c] = Append(@, Head(script[c]).msg)]
  /\ Continue(c, <<>>)
  /\ UNCHANGED <<open, phase, me, wire, heard, routerVars, dbVars>>

\* framed.send(..).await succeeds.  The contact book is the last write before
\* the loop; the error of a failed login is the last write of all.
WriteToClient(c) ==
  /\ Awaiting(c, "toClient")
  /\ wire' = [wire EXCEPT ![c] = Append(@, Head(script[c]).msg)]
  /\ IF phase[c] = "rejecting"
       THEN Return(c)
       ELSE /\ Continue(c, <<>>)
            /\ phase' = IF phase[c] = "greeting" /\ Tail(script[c]) = <<>>
                          THEN [phase EXCEPT ![c] = "serving"] ELSE phase
            /\ UNCHANGED chanVars
  /\ UNCHANGED <<me, heard, routerVars, dbVars>>

\* The loop is left: the router has to be told before the actor returns.
Break(c) ==
  /\ phase' = [phase EXCEPT ![c] = "leaving"]
  /\ script' = [script EXCEPT ![c] = <<ToRouter(UserDisconnected(me[c]))>>]
  /\ UNCHANGED chanVars

WriteFailsAtOnce(c) ==
  /\ Awaiting(c, "toClient")
  /\ Return(c)
  /\ UNCHANGED <<me, wire, heard, routerVars, dbVars>>

\* framed.send(..).await fails.  Inside the loop that breaks it; before it the
\* `?` returns at once.
WriteFails(c) ==
  /\ Awaiting(c, "toClient")
  /\ IF phase[c] = "serving" THEN Break(c) ELSE Return(c)
  /\ UNCHANGED <<me, wire, heard, routerVars, dbVars>>

-----------------------------------------------------------------------------
(* The loop: a frame, a routed message, or the end of the connection.      *)

Idle(c) == phase[c] = "serving" /\ script[c] = <<>>

Outgoing(u, m) == NewMessage(u, m.target, m.body, clock)

SendStepsLocalEcho(u, m) ==
  <<ToSelf(Outgoing(u, m)), ToRouter(RouteMessage(u, m.target, Outgoing(u, m)))>>

SendStepsWriteFirst(u, m) ==
  <<ToClient(Outgoing(u, m)), ToRouter(RouteMessage(u, m.target, Outgoing(u, m)))>>

SendSteps(u, m) == <<ToRouter(RouteMessage(u, m.target, Outgoing(u, m)))>>

\* handle_client_message: what the actor awaits for a frame of user u.
Handler(u, m) ==
  CASE m.type \in {"Login", "Register"} -> <<ToSelf(Error("AlreadyAuthenticated"))>>
    [] m.type = "SendMessage"       -> SendSteps(u, m)
    [] m.type = "Sync"              -> <<QuerySince("history", m.since)>>
    [] m.type = "InviteToGroup"     -> <<QueryMember("insertMember", m.group, m.user)>>
    [] m.type = "CreateGroup"       -> <<Query("insertGroup")>>
    [] m.type = "FetchGroupMembers" -> <<QueryGroup("fetchMembers", m.group)>>
    [] m.type = "FetchGroupInfo"    -> <<QueryGroup("groupInfo", m.group)>>

HandleFrameAtOnce(c, m) ==
  /\ phase[c] = "serving"
  /\ heard' = [heard EXCEPT ![c] = Append(@, m)]
  /\ script' = [script EXCEPT ![c] = Handler(me[c], m) \o @]
  /\ UNCHANGED <<phase, me, wire, routerVars, chanVars, dbVars>>

HandleFrame(c, m) ==
  /\ Idle(c)
  /\ heard' = [heard EXCEPT ![c] = Append(@, m)]
  /\ script' = [script EXCEPT ![c] = Handler(me[c], m)]
  /\ UNCHANGED <<phase, me, wire, routerVars, chanVars, dbVars>>

ReceiveRouted(c) ==
  /\ Idle(c)
  /\ chan[c] # <<>>
  /\ chan' = [chan EXCEPT ![c] = Tail(@)]
  /\ script' = [script EXCEPT ![c] = <<ToClient(Head(chan[c]))>>]
  /\ UNCHANGED <<open, phase, me, wire, heard, routerVars, dbVars>>

\* The client closed the connection, or it broke.
HangUp(c) ==
  /\ Idle(c)
  /\ Break(c)
  /\ UNCHANGED <<me, wire, heard, routerVars, dbVars>>

-----------------------------------------------------------------------------
(* The queries of handle_client_message and of sync_messages.              *)

JoinedStepsAlertFirst(g, u) ==
  <<QueryMember("groupName", g, u), ToRouter(UserJoinedGroup(u, g))>>

JoinedSteps(g, u) ==
  <<ToRouter(UserJoinedGroup(u, g)), QueryMember("groupName", g, u)>>

\* ON CONFLICT DO NOTHING: inviting a member again is not an error.
Invite(c) ==
  /\ Awaiting(c, "insertMember")
  /\ LET q == Head(script[c])
     IN  \/ /\ ForeignKeys(q.group, q.user)
            /\ InsertMember(q.group, q.user)
            /\ Continue(c, JoinedSteps(q.group, q.user))
         \/ /\ MayFail("insertMember") \/ ~ForeignKeys(q.group, q.user)
            /\ Continue(c, <<>>)
            /\ UNCHANGED dbVars
  /\ OnlyScript

AlertInvited(c) ==
  /\ Awaiting(c, "groupName")
  /\ LET q == Head(script[c])
     IN  \/ /\ q.group \in groups
            /\ Continue(c, <<ToRouter(RouteMessage(me[c], UserTarget(q.user),
                                                   AddedToGroup(q.group)))>>)
         \/ /\ MayFail("groupName") \/ q.group \notin groups
            /\ Continue(c, <<>>)
  /\ OnlyScript
  /\ UNCHANGED dbVars

NewGroup(c) ==
  /\ Awaiting(c, "insertGroup")
  /\ \/ \E g \in GroupId \ groups :
          InsertGroup(g) /\ Continue(c, <<QueryGroup("insertCreator", g)>>)
     \/ MayFail("insertGroup") /\ Continue(c, <<>>) /\ UNCHANGED dbVars
  /\ OnlyScript

CreatedSteps(u, g) ==
  <<ToRouter(UserJoinedGroup(u, g)), ToSelf(GroupCreated(g))>>

\* The result of the second INSERT is dropped: the handler goes on either way.
AddCreator(c) ==
  /\ Awaiting(c, "insertCreator")
  /\ LET g == Head(script[c]).group
     IN  /\ \/ InsertMember(g, me[c])
            \/ MayFail("insertCreator") /\ UNCHANGED dbVars
         /\ Continue(c, CreatedSteps(me[c], g))
  /\ OnlyScript

FetchMembers(c) ==
  /\ Awaiting(c, "fetchMembers")
  /\ LET g == Head(script[c]).group
     IN  \/ Continue(c, <<ToSelf(GroupMembersList(g, MembersOf(g)))>>)
         \/ MayFail("fetchMembers") /\ Continue(c, <<>>)
  /\ OnlyScript
  /\ UNCHANGED dbVars

FetchInfo(c) ==
  /\ Awaiting(c, "groupInfo")
  /\ LET g == Head(script[c]).group
     IN  \/ g \in groups /\ Continue(c, <<ToSelf(GroupInfo(g))>>)
         \/ g \notin groups /\ Continue(c, <<ToSelf(Error("GroupNotFound"))>>)
         \/ MayFail("groupInfo") /\ Continue(c, <<ToSelf(Error("InternalError"))>>)
  /\ OnlyScript
  /\ UNCHANGED dbVars

\* An empty batch is not sent.
SyncMessages(c) ==
  /\ Awaiting(c, "history")
  /\ \/ \E b \in HistoryBatches(me[c], Head(script[c]).since) :
          Continue(c, IF b = <<>> THEN <<>> ELSE <<ToSelf(SyncBatch(b))>>)
     \/ MayFail("history") /\ Continue(c, <<>>)
  /\ OnlyScript
  /\ UNCHANGED dbVars

\* One await of the actor of c.
ConnStep(c) ==
  \/ LoginUser(c)    \/ CheckName(c)     \/ RegisterUser(c)
  \/ FetchGroups(c)  \/ FetchUsers(c)
  \/ PostToRouter(c) \/ PostToSelf(c)    \/ WriteToClient(c)
  \/ ReceiveRouted(c)
  \/ Invite(c)       \/ AlertInvited(c)
  \/ NewGroup(c)     \/ AddCreator(c)
  \/ FetchMembers(c) \/ FetchInfo(c)     \/ SyncMessages(c)

-----------------------------------------------------------------------------
(* Types.                                                                   *)

ConnOK ==
  /\ phase \in [Conn -> Phase]
  /\ me \in [Conn -> UserId \cup {NoUser}]
  /\ script \in [Conn -> Seq(Await)]
  /\ wire \in [Conn -> Seq(ServerMessage)]
  /\ heard \in [Conn -> Seq(FirstFrames \cup Requests)]

===============================================================================
