------------------------------- MODULE GroupProofs -------------------------------
(***************************************************************************)
(* Accounts stay unique, and the router's subscriptions stay in step with  *)
(* the group_members table, for every value of the constants.              *)
(***************************************************************************)
EXTENDS TypeProofs

-----------------------------------------------------------------------------
(* Subscriptions.                                                          *)

\* u hears group g, or the event that subscribes it is in flight.
Covered(u, g) == u \in subs[g] \/ UserJoinedGroup(u, g) \in InFlight

\* A member row is inserted after the row of its group.
MembersOfGroups == \A r \in members : r[1] \in groups

FoundedAwait == {a \in Await : a.do = "insertCreator" => a.group \in groups}

Founded == \A c \in Conn : script[c] \in Seq(FoundedAwait)

\* What is posted is posted first: no other await comes between the query whose
\* result an event carries and the event.
NoPost == {a \in Await : a.do # "toRouter"}

PostsFirst == \A c \in Conn : script[c] # <<>> => Tail(script[c]) \in Seq(NoPost)

\* A login in flight carries every group of its user, or what it lacks is in
\* flight itself.
ConnectsCovered ==
  \A e \in InFlight : e.type = "UserConnected" =>
    \A g \in GroupId : <<g, e.user>> \in members => g \in e.groups \/ Covered(e.user, g)

\* NoLostSubscription is about sessions; who is about to become one has to be
\* covered before that, from the moment the groups were read.
SubscriptionInv ==
  /\ MembersOfGroups
  /\ Founded
  /\ PostsFirst
  /\ NoLostSubscription
  /\ ConnectsCovered

\* The subscriptions an event brings are memberships.
Backed(e) ==
  /\ e.type = "UserConnected" => \A g \in e.groups : <<g, e.user>> \in members
  /\ e.type = "UserJoinedGroup" => <<e.group, e.user>> \in members

BackedEvent == {e \in RouterEvent : Backed(e)}

BackedAwait == {a \in Await : a.do = "toRouter" => Backed(a.event)}

BackedInv ==
  /\ SubscriptionsBacked
  /\ rxq \in Seq(BackedEvent)
  /\ \A c \in Conn : script[c] \in Seq(BackedAwait)

-----------------------------------------------------------------------------
(* What one step of an actor, or of its client, does to its script.        *)

\* What only the router and the history query bring to a client.
Relayed == {"NewMessage", "Presence", "SyncBatch"}

\* c sends the chat message that this event routes.
Chats(c, e) ==
  \E m \in Requests : /\ Sends(m) /\ FreshBody(m) /\ HandleFrame(c, m)
                       /\ e = RouteMessage(me[c], m.target, Outgoing(me[c], m))

\* m is a batch of the history of c's user.
ReadsHistory(c, m) ==
  /\ me[c] \in UserId
  /\ \E since : \E b \in HistoryBatches(me[c], since) : m = SyncBatch(b)

\* The awaits a step of c may put into its script.
NewAwait(c) ==
  {a \in Await :
     /\ a.do = "insertCreator" => a.group \in groups'
     /\ a.do = "toRouter" =>
          \/ /\ a.event.type = "UserConnected"
             /\ a.event.user = me[c] /\ a.event.sender = c
             /\ \/ a.event.groups = GroupsOf(me[c])
                \/ MayFail("fetchGroups") /\ a.event.groups = {}
          \/ /\ a.event.type = "UserJoinedGroup"
             /\ \/ <<a.event.group, a.event.user>> \in members'
                \/ MayFail("insertCreator")
          \/ a.event.type = "UserDisconnected" /\ a.event.user = me[c]
          \/ /\ a.event.type = "RouteMessage"
             /\ a.event.message.type = "AddedToGroup" \/ Chats(c, a.event)
     /\ a.do = "toSelf" /\ a.msg.type \in Relayed => ReadsHistory(c, a.msg)
     /\ a.do = "toClient" /\ a.msg.type \in Relayed =>
          ReceiveRouted(c) /\ a.msg = Head(chan[c])}

\* A new script, or new awaits in the place of the one at its head.
Scripted(c, steps) ==
  \/ script' = [script EXCEPT ![c] = steps]
  \/ script[c] # <<>> /\ Continue(c, steps)

\* The step leaves the router's maps alone.  It posts the event at the head of
\* the script of c and adds nothing, or it posts nothing and adds `steps`, of
\* which only the first may be a post.  A new membership comes with the event
\* that subscribes the member.
StepShape(c, steps) ==
  /\ UNCHANGED <<sessions, subs>>
  /\ groups \subseteq groups' /\ members \subseteq members'
  /\ steps \in Seq(NewAwait(c))
  /\ steps # <<>> => Tail(steps) \in Seq(NoPost)
  /\ \A r \in members' \ members :
       r[1] \in groups /\ steps # <<>> /\ steps[1] = ToRouter(UserJoinedGroup(r[2], r[1]))
  /\ \/ UNCHANGED <<rxq, script>> /\ steps = <<>>
     \/ ~Awaiting(c, "toRouter") /\ UNCHANGED rxq /\ Scripted(c, steps)
     \/ /\ Awaiting(c, "toRouter") /\ steps = <<>>
        /\ rxq' = Append(rxq, Head(script[c]).event)
        /\ Scripted(c, steps)

\* A step that touches neither the tables of groups nor the router's state.
LEMMA PlainShape ==
  ASSUME NEW c \in Conn, NEW steps \in Seq(NewAwait(c)),
         steps # <<>> => Tail(steps) \in Seq(NoPost),
         ~Awaiting(c, "toRouter"), Scripted(c, steps),
         UNCHANGED <<groups, members, sessions, subs, rxq>>
  PROVE  StepShape(c, steps)
BY DEF StepShape

\* One await that is neither a post nor the INSERT of a creator, and relays
\* nothing.
LEMMA SingleAwait ==
  ASSUME NEW c \in Conn, NEW a \in Await, a.do \notin {"toRouter", "insertCreator"},
         a.do \in {"toSelf", "toClient"} => a.msg.type \notin Relayed
  PROVE  <<a>> \in Seq(NewAwait(c)) /\ Tail(<<a>>) \in Seq(NoPost)
<1>1. a \in NewAwait(c)
  BY DEF NewAwait
<1> QED  BY <1>1

LEMMA NoAwait ==
  ASSUME NEW c \in Conn
  PROVE  <<>> \in Seq(NewAwait(c))
OBVIOUS

LEMMA AccountShape ==
  ASSUME TypeInv, NEW c \in Conn, LoginUser(c) \/ CheckName(c) \/ RegisterUser(c)
  PROVE  \E steps : StepShape(c, steps)
<1> DEFINE q == Head(script[c])
<1>1. /\ script[c] # <<>> /\ ~Awaiting(c, "toRouter")
      /\ UNCHANGED <<groups, members, sessions, subs, rxq>>
  BY DEF LoginUser, CheckName, RegisterUser, Awaiting, Reject, Welcome, OnlyScript, InsertUser,
         dbVars, routerVars
<1>2. ASSUME NEW error \in ServerError, Reject(c, error)
      PROVE  \E steps : StepShape(c, steps)
  <2>1. /\ ToClient(Error(error)) \in Await /\ ToClient(Error(error)).do = "toClient"
        /\ ToClient(Error(error)).msg.type \notin Relayed
    BY MessageTypes DEF ToClient, Await, Error, Relayed
  <2>2. Scripted(c, <<ToClient(Error(error))>>)
    BY <1>2 DEF Scripted, Reject
  <2> QED  BY <1>1, <2>1, <2>2, SingleAwait, PlainShape
<1>3. ASSUME NEW u, Welcome(c, u)
      PROVE  \E steps : StepShape(c, steps)
  <2>1. Query("fetchGroups") \in Await /\ Query("fetchGroups").do = "fetchGroups"
    BY DEF Query, Await
  <2>2. Scripted(c, <<Query("fetchGroups")>>)
    BY <1>3 DEF Scripted, Welcome
  <2> QED  BY <1>1, <2>1, <2>2, SingleAwait, PlainShape
<1>4. CASE CheckName(c) /\ Continue(c, <<QueryAccount("insertUser", q.name, q.password)>>)
  <2>1. q \in Await /\ q.do = "nameCheck"
    BY <1>4, WhoAwaits DEF CheckName, Awaiting
  <2>2. q.name \in Name /\ q.password \in Password
    BY <2>1, AwaitFields
  <2>3. /\ QueryAccount("insertUser", q.name, q.password) \in Await
        /\ QueryAccount("insertUser", q.name, q.password).do = "insertUser"
    BY <2>2 DEF QueryAccount, Await
  <2>4. Scripted(c, <<QueryAccount("insertUser", q.name, q.password)>>)
    BY <1>1, <1>4 DEF Scripted
  <2> QED  BY <1>1, <2>3, <2>4, SingleAwait, PlainShape
<1> QED  BY <1>2, <1>3, <1>4 DEF LoginUser, CheckName, RegisterUser, ServerError

\* The router is told before anything else, with the groups just read.
LEMMA GreetingShape ==
  ASSUME TypeInv, NEW c \in Conn, FetchGroups(c) \/ FetchUsers(c)
  PROVE  \E steps : StepShape(c, steps)
<1>1. /\ script[c] # <<>> /\ ~Awaiting(c, "toRouter")
      /\ UNCHANGED <<groups, members, sessions, subs, rxq>>
      /\ me[c] \in UserId
  BY WhoAwaits DEF FetchGroups, FetchUsers, Awaiting, OnlyScript, dbVars, routerVars
<1>2. CASE FetchGroups(c)
  <2>1. PICK gs \in SUBSET GroupId :
          /\ Continue(c, Greeting(me[c], gs, c))
          /\ gs = GroupsOf(me[c]) \/ (MayFail("fetchGroups") /\ gs = {})
    BY <1>2, TableQueries DEF FetchGroups
  <2> DEFINE s == Greeting(me[c], gs, c)
  <2>2. /\ ToRouter(UserConnected(me[c], gs, c)) \in NewAwait(c)
        /\ ToClient(AuthSuccess(me[c])) \in NewAwait(c) \cap NoPost
        /\ ToClient(GroupsList(gs)) \in NewAwait(c) \cap NoPost
        /\ Query("fetchUsers") \in NewAwait(c) \cap NoPost
    <3>1. UserConnected(me[c], gs, c) \in RouterEvent
      BY <1>1, EventTypes
    <3>2. ToRouter(UserConnected(me[c], gs, c)) \in Await
      BY <3>1 DEF ToRouter, Await
    <3>3. ToClient(AuthSuccess(me[c])) \in Await /\ ToClient(GroupsList(gs)) \in Await
      BY <1>1, MessageTypes DEF ToClient, Await
    <3>4. Query("fetchUsers") \in Await
      BY DEF Query, Await
    <3> QED  BY <2>1, <3>2, <3>3, <3>4
             DEF NewAwait, NoPost, ToRouter, ToClient, Query, UserConnected, AuthSuccess,
                 GroupsList, Relayed
  <2>3. s \in Seq(NewAwait(c)) /\ Tail(s) \in Seq(NoPost)
    BY <2>2 DEF Greeting
  <2>4. Scripted(c, s)
    BY <1>1, <2>1 DEF Scripted
  <2> QED  BY <1>1, <2>3, <2>4, PlainShape
<1>3. CASE FetchUsers(c)
  <2>1. PICK us \in SUBSET UserId : Continue(c, <<ToClient(UsersList(us))>>)
    BY <1>3, TableQueries DEF FetchUsers
  <2>2. /\ ToClient(UsersList(us)) \in Await /\ ToClient(UsersList(us)).do = "toClient"
        /\ ToClient(UsersList(us)).msg.type \notin Relayed
    BY MessageTypes DEF ToClient, Await, UsersList, Relayed
  <2>3. Scripted(c, <<ToClient(UsersList(us))>>)
    BY <1>1, <2>1 DEF Scripted
  <2> QED  BY <1>1, <2>2, <2>3, SingleAwait, PlainShape
<1> QED  BY <1>2, <1>3

LEMMA PostShape ==
  ASSUME TypeInv, NEW c \in Conn, PostToRouter(c)
  PROVE  \E steps : StepShape(c, steps)
<1>1. Awaiting(c, "toRouter") /\ script[c] # <<>>
  BY DEF PostToRouter, Awaiting
<1>2. Scripted(c, <<>>)
  BY <1>1 DEF PostToRouter, Return, Scripted
<1>3. StepShape(c, <<>>)
  BY <1>1, <1>2, NoAwait DEF StepShape, PostToRouter, dbVars
<1> QED  BY <1>3

LEMMA SendShape ==
  ASSUME TypeInv, NEW c \in Conn,
         PostToSelf(c) \/ WriteToClient(c) \/ ReceiveRouted(c)
  PROVE  \E steps : StepShape(c, steps)
<1>1. /\ ~Awaiting(c, "toRouter")
      /\ UNCHANGED <<groups, members, sessions, subs, rxq>>
  BY DEF PostToSelf, WriteToClient, ReceiveRouted, Idle, Awaiting, dbVars, routerVars
<1>2. CASE PostToSelf(c) \/ WriteToClient(c)
  <2>1. Scripted(c, <<>>)
    BY <1>2 DEF PostToSelf, WriteToClient, Awaiting, Return, Scripted
  <2> QED  BY <1>1, <2>1, NoAwait, PlainShape
<1>3. CASE ReceiveRouted(c)
  <2>1. Head(chan[c]) \in ServerMessage
    BY <1>3, TailTypes DEF ReceiveRouted, TypeInv, TypeOK, ChanOK
  <2> DEFINE a == ToClient(Head(chan[c]))
  <2>2. a \in Await /\ a.do = "toClient" /\ a.msg = Head(chan[c])
    BY <2>1 DEF ToClient, Await
  <2>3. Scripted(c, <<a>>)
    BY <1>3 DEF ReceiveRouted, Scripted
  <2>4. a \in NewAwait(c)
    BY <1>3, <2>2 DEF NewAwait
  <2> HIDE DEF a
  <2>5. <<a>> \in Seq(NewAwait(c)) /\ Tail(<<a>>) \in Seq(NoPost)
    BY <2>4
  <2> QED  BY <1>1, <2>3, <2>5, PlainShape
<1> QED  BY <1>2, <1>3

\* The INSERT of a member is followed at once by the event that subscribes it.
LEMMA InviteShape ==
  ASSUME TypeInv, NEW c \in Conn, Invite(c) \/ AlertInvited(c)
  PROVE  \E steps : StepShape(c, steps)
<1> DEFINE q == Head(script[c])
<1>1. /\ script[c] # <<>> /\ q \in Await
      /\ q.do \in {"insertMember", "groupName"}
      /\ ~Awaiting(c, "toRouter")
      /\ me[c] \in UserId
  BY WhoAwaits DEF Invite, AlertInvited, Awaiting
<1>2. q.group \in GroupId /\ q.user \in UserId
  BY <1>1, AwaitFields
<1>3. UNCHANGED <<sessions, subs, rxq>>
  BY DEF Invite, AlertInvited, OnlyScript, routerVars
<1>4. CASE Invite(c) /\ UNCHANGED dbVars /\ Continue(c, <<>>)
  <2>1. Scripted(c, <<>>)
    BY <1>1, <1>4 DEF Scripted
  <2> QED  BY <1>1, <1>3, <1>4, <2>1, NoAwait, PlainShape DEF dbVars
<1>5. CASE /\ ForeignKeys(q.group, q.user)
           /\ InsertMember(q.group, q.user)
           /\ Continue(c, JoinedSteps(q.group, q.user))
  <2> DEFINE s == JoinedSteps(q.group, q.user)
             join == ToRouter(UserJoinedGroup(q.user, q.group))
             name == QueryMember("groupName", q.group, q.user)
  <2>1. members' = members \cup {<<q.group, q.user>>} /\ groups' = groups /\ q.group \in groups
    BY <1>5 DEF InsertMember, ForeignKeys
  <2>2. s = <<join, name>>
    BY DEF JoinedSteps
  <2>3. join \in NewAwait(c)
    <3>1. UserJoinedGroup(q.user, q.group) \in RouterEvent
      BY <1>2, EventTypes
    <3>2. join \in Await
      BY <3>1 DEF ToRouter, Await
    <3> QED  BY <2>1, <3>2 DEF NewAwait, ToRouter, UserJoinedGroup
  <2>4. name \in NewAwait(c) /\ name \in NoPost
    BY <1>2 DEF QueryMember, Await, NewAwait, NoPost
  <2>5. s \in Seq(NewAwait(c)) /\ Tail(s) \in Seq(NoPost) /\ s # <<>> /\ s[1] = join
    <3> HIDE DEF join, name, s
    <3> QED  BY <2>2, <2>3, <2>4
  <2>6. Scripted(c, s)
    BY <1>1, <1>5 DEF Scripted
  <2>7. \A r \in members' \ members :
          r[1] \in groups /\ s # <<>> /\ s[1] = ToRouter(UserJoinedGroup(r[2], r[1]))
    BY <2>1, <2>5
  <2> HIDE DEF s
  <2>8. StepShape(c, s)
    BY <1>1, <1>3, <2>1, <2>5, <2>6, <2>7 DEF StepShape
  <2> QED  BY <2>8
<1>6. CASE AlertInvited(c) /\ Continue(c, <<>>)
  <2>1. Scripted(c, <<>>)
    BY <1>1, <1>6 DEF Scripted
  <2> QED  BY <1>1, <1>3, <1>6, <2>1, NoAwait, PlainShape DEF AlertInvited, dbVars
<1>7. CASE /\ AlertInvited(c)
           /\ Continue(c, <<ToRouter(RouteMessage(me[c], UserTarget(q.user),
                                                  AddedToGroup(q.group)))>>)
  <2> DEFINE e == RouteMessage(me[c], UserTarget(q.user), AddedToGroup(q.group))
  <2>1. e \in RouterEvent
    BY <1>1, <1>2, TargetTypes, MessageTypes, EventTypes
  <2>2. ToRouter(e) \in NewAwait(c)
    <3>1. ToRouter(e) \in Await
      BY <2>1 DEF ToRouter, Await
    <3> QED  BY <3>1 DEF NewAwait, ToRouter, RouteMessage, AddedToGroup
  <2>3. Scripted(c, <<ToRouter(e)>>)
    BY <1>1, <1>7 DEF Scripted
  <2> HIDE DEF e
  <2>4. <<ToRouter(e)>> \in Seq(NewAwait(c)) /\ Tail(<<ToRouter(e)>>) \in Seq(NoPost)
    BY <2>2
  <2> QED  BY <1>1, <1>3, <1>7, <2>3, <2>4, PlainShape DEF AlertInvited, dbVars
<1> QED  BY <1>4, <1>5, <1>6, <1>7 DEF Invite, AlertInvited

\* So is the INSERT of a creator, whose group is already there.
LEMMA CreateShape ==
  ASSUME TypeInv, Founded, NEW c \in Conn, NewGroup(c) \/ AddCreator(c)
  PROVE  \E steps : StepShape(c, steps)
<1>1. /\ script[c] # <<>> /\ Head(script[c]) \in Await
      /\ ~Awaiting(c, "toRouter")
      /\ me[c] \in UserId
  BY WhoAwaits DEF NewGroup, AddCreator, Awaiting
<1>2. UNCHANGED <<sessions, subs, rxq>>
  BY DEF NewGroup, AddCreator, OnlyScript, routerVars
<1>3. CASE NewGroup(c) /\ Continue(c, <<>>) /\ UNCHANGED dbVars
  <2>1. Scripted(c, <<>>)
    BY <1>1, <1>3 DEF Scripted
  <2> QED  BY <1>1, <1>2, <1>3, <2>1, NoAwait, PlainShape DEF dbVars
<1>4. ASSUME NEW g \in GroupId \ groups, InsertGroup(g),
             Continue(c, <<QueryGroup("insertCreator", g)>>)
      PROVE  \E steps : StepShape(c, steps)
  <2> DEFINE a == QueryGroup("insertCreator", g)
  <2>1. groups' = groups \cup {g} /\ members' = members
    BY <1>4 DEF InsertGroup
  <2>2. a \in NewAwait(c)
    BY <2>1 DEF QueryGroup, Await, NewAwait
  <2>3. Scripted(c, <<a>>)
    BY <1>1, <1>4 DEF Scripted
  <2> HIDE DEF a
  <2>4. <<a>> \in Seq(NewAwait(c)) /\ Tail(<<a>>) \in Seq(NoPost)
    BY <2>2
  <2>5. StepShape(c, <<a>>)
    BY <1>1, <1>2, <2>1, <2>3, <2>4 DEF StepShape
  <2> QED  BY <2>5
<1>5. CASE AddCreator(c)
  <2> DEFINE g == Head(script[c]).group
             s == CreatedSteps(me[c], g)
             join == ToRouter(UserJoinedGroup(me[c], g))
             reply == ToSelf(GroupCreated(g))
  <2>1. g \in GroupId /\ g \in groups
    <3>1. Head(script[c]) \in FoundedAwait
      BY <1>1, TailTypes DEF Founded
    <3> QED  BY <1>1, <1>5, <3>1, AwaitFields DEF AddCreator, Awaiting, FoundedAwait
  <2>2. /\ groups' = groups
        /\ \/ members' = members \cup {<<g, me[c]>>}
           \/ MayFail("insertCreator") /\ members' = members
    BY <1>5 DEF AddCreator, InsertMember, dbVars
  <2>3. s = <<join, reply>>
    BY DEF CreatedSteps
  <2>4. join \in NewAwait(c)
    <3>1. UserJoinedGroup(me[c], g) \in RouterEvent
      BY <1>1, <2>1, EventTypes
    <3>2. join \in Await
      BY <3>1 DEF ToRouter, Await
    <3> QED  BY <2>2, <3>2 DEF NewAwait, ToRouter, UserJoinedGroup
  <2>5. reply \in NewAwait(c) /\ reply \in NoPost
    <3>1. reply \in Await
      BY <2>1, MessageTypes DEF ToSelf, Await
    <3> QED  BY <3>1 DEF ToSelf, GroupCreated, Relayed, NewAwait, NoPost
  <2>6. Scripted(c, s)
    BY <1>1, <1>5 DEF AddCreator, Scripted
  <2>7. s \in Seq(NewAwait(c)) /\ Tail(s) \in Seq(NoPost) /\ s # <<>> /\ s[1] = join
    <3> HIDE DEF join, reply, s
    <3> QED  BY <2>3, <2>4, <2>5
  <2>8. \A r \in members' \ members :
          r[1] \in groups /\ s # <<>> /\ s[1] = ToRouter(UserJoinedGroup(r[2], r[1]))
    BY <2>1, <2>2, <2>7
  <2> HIDE DEF s, g
  <2>9. StepShape(c, s)
    BY <1>1, <1>2, <2>2, <2>6, <2>7, <2>8 DEF StepShape
  <2> QED  BY <2>9
<1> QED  BY <1>3, <1>4, <1>5 DEF NewGroup

LEMMA FetchShape ==
  ASSUME TypeInv, NEW c \in Conn, FetchMembers(c) \/ FetchInfo(c) \/ SyncMessages(c)
  PROVE  \E steps : StepShape(c, steps)
<1> DEFINE q == Head(script[c])
<1>1. /\ script[c] # <<>> /\ q \in Await /\ ~Awaiting(c, "toRouter")
      /\ UNCHANGED <<groups, members, sessions, subs, rxq>>
  BY WhoAwaits DEF FetchMembers, FetchInfo, SyncMessages, Awaiting, OnlyScript, dbVars, routerVars
<1>2. \/ Continue(c, <<>>)
      \/ \E m \in ServerMessage :
           /\ Continue(c, <<ToSelf(m)>>)
           /\ m.type \in Relayed => ReadsHistory(c, m)
  <2>1. CASE FetchMembers(c)
    <3>1. q.group \in GroupId
      BY <1>1, <2>1, AwaitFields DEF FetchMembers, Awaiting
    <3>2. GroupMembersList(q.group, MembersOf(q.group)) \in ServerMessage
      BY <3>1, TableQueries, MessageTypes
    <3> QED  BY <2>1, <3>2 DEF FetchMembers, GroupMembersList, Relayed
  <2>2. CASE FetchInfo(c)
    <3>1. q.group \in GroupId
      BY <1>1, <2>2, AwaitFields DEF FetchInfo, Awaiting
    <3>2. /\ GroupInfo(q.group) \in ServerMessage
          /\ Error("GroupNotFound") \in ServerMessage /\ Error("InternalError") \in ServerMessage
      BY <3>1, MessageTypes DEF ServerError
    <3> QED  BY <2>2, <3>2 DEF FetchInfo, GroupInfo, Error, Relayed
  <2>3. CASE SyncMessages(c)
    <3>1. \A b \in HistoryBatches(me[c], q.since) : SyncBatch(b) \in ServerMessage
      BY BatchTypes, MessageTypes
    <3>2. me[c] \in UserId
      BY <1>1, <2>3, WhoAwaits DEF SyncMessages, Awaiting
    <3> QED  BY <2>3, <3>1, <3>2 DEF SyncMessages, ReadsHistory
  <2> QED  BY <2>1, <2>2, <2>3
<1>3. CASE Continue(c, <<>>)
  <2>1. Scripted(c, <<>>)
    BY <1>1, <1>3 DEF Scripted
  <2> QED  BY <1>1, <2>1, NoAwait, PlainShape
<1>4. ASSUME NEW m \in ServerMessage, Continue(c, <<ToSelf(m)>>),
             m.type \in Relayed => ReadsHistory(c, m)
      PROVE  \E steps : StepShape(c, steps)
  <2> DEFINE a == ToSelf(m)
  <2>1. a \in Await /\ a.do = "toSelf" /\ a.msg = m
    BY DEF ToSelf, Await
  <2>2. a \in NewAwait(c)
    BY <1>4, <2>1 DEF NewAwait
  <2>3. Scripted(c, <<a>>)
    BY <1>1, <1>4 DEF Scripted
  <2> HIDE DEF a
  <2>4. <<a>> \in Seq(NewAwait(c)) /\ Tail(<<a>>) \in Seq(NoPost)
    BY <2>2
  <2> QED  BY <1>1, <2>3, <2>4, PlainShape
<1> QED  BY <1>2, <1>3, <1>4

\* A frame starts with a query, a reply or a message to route.
LEMMA FrameShape ==
  ASSUME TypeInv, NEW c \in Conn, Authenticate(c) \/ Request(c)
  PROVE  \E steps : StepShape(c, steps)
<1>1. PICK m \in ClientMessage :
        FirstFrame(c, m) \/ (HandleFrame(c, m) /\ FreshBody(m) /\ m \in Requests)
  BY RequestAssumption DEF Authenticate, Request
<1>2. /\ ~Awaiting(c, "toRouter")
      /\ UNCHANGED <<groups, members, sessions, subs, rxq>>
  BY <1>1 DEF FirstFrame, HandleFrame, Idle, Awaiting, dbVars, routerVars
<1>3. ASSUME NEW a \in NewAwait(c), script' = [script EXCEPT ![c] = <<a>>]
      PROVE  \E steps : StepShape(c, steps)
  <2>1. <<a>> \in Seq(NewAwait(c)) /\ Tail(<<a>>) \in Seq(NoPost)
    OBVIOUS
  <2>2. Scripted(c, <<a>>)
    BY <1>3 DEF Scripted
  <2> QED  BY <1>2, <2>1, <2>2, PlainShape
<1>4. ASSUME NEW a \in Await, a.do \notin {"toRouter", "insertCreator"},
             a.do \in {"toSelf", "toClient"} => a.msg.type \notin Relayed
      PROVE  a \in NewAwait(c)
  BY <1>4 DEF NewAwait
<1>5. CASE FirstFrame(c, m) /\ m.type \in {"Login", "Register"}
  <2>1. m.name \in Name /\ m.password \in Password
    BY <1>5 DEF ClientMessage, AuthMessage, CreateGroup
  <2>2. PICK q \in {"login", "nameCheck"} :
          script' = [script EXCEPT ![c] = <<QueryAccount(q, m.name, m.password)>>]
    BY <1>5 DEF FirstFrame
  <2>3. /\ QueryAccount(q, m.name, m.password) \in Await
        /\ QueryAccount(q, m.name, m.password).do = q
    BY <2>1 DEF QueryAccount, Await
  <2> QED  BY <1>3, <1>4, <2>2, <2>3
<1>6. CASE FirstFrame(c, m) /\ m.type \notin {"Login", "Register"}
  <2> DEFINE e == Error("FirstMessageNotAuth")
  <2>1. /\ ToClient(e) \in Await /\ ToClient(e).do = "toClient"
        /\ ToClient(e).msg.type \notin Relayed
    BY MessageTypes DEF ToClient, Await, ServerError, Error, Relayed
  <2>2. script' = [script EXCEPT ![c] = <<ToClient(e)>>]
    BY <1>6 DEF FirstFrame
  <2> QED  BY <1>3, <1>4, <2>1, <2>2
<1>7. CASE HandleFrame(c, m) /\ FreshBody(m) /\ m \in Requests
  <2>1. me[c] \in UserId /\ clock \in Timestamp
    BY <1>7 DEF HandleFrame, Idle, TypeInv, TypeOK, UsersKnown, LoggedIn
  <2>2. script' = [script EXCEPT ![c] = Handler(me[c], m)]
    BY <1>7 DEF HandleFrame
  <2>3. PICK a \in Await :
          /\ Handler(me[c], m) = <<a>> /\ a.do # "insertCreator"
          /\ a.do = "toRouter" =>
               Sends(m) /\ a.event = RouteMessage(me[c], m.target, Outgoing(me[c], m))
          /\ a.do \in {"toSelf", "toClient"} => a.msg.type \notin Relayed
    <3>1. Handler(me[c], m) \in Seq(LoopAwait)
      BY <2>1, HandlerTypes
    <3>2. LoopAwait \subseteq Await
      BY DEF LoopAwait
    <3>3. PICK a :
            /\ Handler(me[c], m) = <<a>> /\ a.do # "insertCreator"
            /\ a.do = "toRouter" =>
                 Sends(m) /\ a.event = RouteMessage(me[c], m.target, Outgoing(me[c], m))
            /\ a.do \in {"toSelf", "toClient"} => a.msg.type \notin Relayed
      BY DEF Handler, SendSteps, Sends, ClientMessage, AuthMessage, CreateGroup, ToSelf, ToRouter,
             Error, Relayed, Query, QueryGroup, QueryMember, QuerySince
    <3>4. a \in Await
      BY <3>1, <3>2, <3>3
    <3> QED  BY <3>3, <3>4
  <2>4. a \in NewAwait(c)
    BY <1>7, <2>3 DEF NewAwait, Chats, RouteMessage
  <2> QED  BY <1>3, <2>2, <2>3, <2>4
<1> QED  BY <1>1, <1>5, <1>6, <1>7

LEMMA EndShape ==
  ASSUME TypeInv, NEW c \in Conn, Accept(c) \/ Disconnect(c) \/ LoseWrite(c)
  PROVE  \E steps : StepShape(c, steps)
<1>1. UNCHANGED <<groups, members, sessions, subs, rxq>>
  BY DEF Accept, Disconnect, HangUp, NoFirstFrame, LoseWrite, WriteFails, dbVars, routerVars
<1>2. CASE Accept(c)
  <2>1. StepShape(c, <<>>)
    BY <1>1, <1>2, NoAwait DEF Accept, StepShape
  <2> QED  BY <2>1
<1>3. CASE Return(c) /\ ~Awaiting(c, "toRouter")
  <2>1. Scripted(c, <<>>)
    BY <1>3 DEF Return, Scripted
  <2> QED  BY <1>1, <1>3, <2>1, NoAwait, PlainShape
<1>4. CASE Break(c) /\ phase[c] = "serving" /\ ~Awaiting(c, "toRouter")
  <2> DEFINE e == UserDisconnected(me[c])
  <2>1. me[c] \in UserId
    BY <1>4 DEF TypeInv, UsersKnown, LoggedIn
  <2>2. ToRouter(e) \in NewAwait(c)
    <3>1. e \in RouterEvent
      BY <2>1, EventTypes
    <3>2. ToRouter(e) \in Await
      BY <3>1 DEF ToRouter, Await
    <3> QED  BY <3>2 DEF NewAwait, ToRouter, UserDisconnected
  <2>3. Scripted(c, <<ToRouter(e)>>)
    BY <1>4 DEF Break, Scripted
  <2> HIDE DEF e
  <2>4. <<ToRouter(e)>> \in Seq(NewAwait(c)) /\ Tail(<<ToRouter(e)>>) \in Seq(NoPost)
    BY <2>2
  <2> QED  BY <1>1, <1>4, <2>3, <2>4, PlainShape
<1> QED  BY <1>2, <1>3, <1>4
         DEF Disconnect, HangUp, NoFirstFrame, LoseWrite, WriteFails, Idle, Awaiting

LEMMA ShapeOfStep ==
  ASSUME TypeInv, Founded, NEW c \in Conn, Actor(c) \/ Client(c)
  PROVE  \E steps : StepShape(c, steps)
BY AccountShape, GreetingShape, PostShape, SendShape, InviteShape, CreateShape, FetchShape,
   FrameShape, EndShape DEF Actor, ConnStep, Client

-----------------------------------------------------------------------------
(* What a step of an actor does to the events in flight.                   *)

LEMMA ScriptAfter ==
  ASSUME TypeInv, PostsFirst, NEW c \in Conn, NEW steps \in Seq(Await), Scripted(c, steps)
  PROVE  /\ \A d \in Conn \ {c} : script'[d] = script[d]
         /\ steps # <<>> => script'[c] # <<>> /\ script'[c][1] = steps[1]
                              /\ Head(script'[c]) = steps[1]
         /\ steps = <<>> => ~Awaiting(c, "toRouter")'
<1>1. script \in [Conn -> Seq(Await)]
  BY DEF TypeInv, TypeOK, ConnOK
<1>2. \A d \in Conn \ {c} : script'[d] = script[d]
  BY <1>1 DEF Scripted, Continue
<1>3. CASE script' = [script EXCEPT ![c] = steps]
  <2>1. script'[c] = steps
    BY <1>1, <1>3
  <2> QED  BY <1>2, <2>1 DEF Awaiting
<1>4. CASE script[c] # <<>> /\ Continue(c, steps)
  <2>1. script'[c] = steps \o Tail(script[c]) /\ Tail(script[c]) \in Seq(NoPost)
    BY <1>1, <1>4 DEF Continue, PostsFirst
  <2>2. ASSUME steps # <<>>
        PROVE  script'[c] # <<>> /\ script'[c][1] = steps[1] /\ Head(script'[c]) = steps[1]
    <3>1. Tail(script[c]) \in Seq(Await)
      BY <1>1, <1>4
    <3> QED  BY <2>1, <2>2, <3>1
  <2>3. ASSUME steps = <<>>
        PROVE  ~Awaiting(c, "toRouter")'
    <3>1. script'[c] = Tail(script[c])
      BY <2>1, <2>3
    <3>2. script'[c] # <<>> => Head(script'[c]) \in NoPost
      BY <2>1, <3>1, TailTypes
    <3> QED  BY <3>2 DEF Awaiting, NoPost
  <2> QED  BY <1>2, <2>2, <2>3
<1> QED  BY <1>3, <1>4 DEF Scripted

\* Nothing in flight is lost, and the only new event is the first of the steps.
LEMMA FlightOfStep ==
  ASSUME TypeInv, PostsFirst, NEW c \in Conn, NEW steps, StepShape(c, steps)
  PROVE  /\ InFlight \subseteq InFlight'
         /\ \A e \in InFlight' \ InFlight :
              steps # <<>> /\ steps[1].do = "toRouter" /\ e = steps[1].event
         /\ steps # <<>> /\ steps[1].do = "toRouter" => steps[1].event \in InFlight'
<1>1. steps \in Seq(Await)
  <2>1. NewAwait(c) \subseteq Await
    BY DEF NewAwait
  <2> QED  BY <2>1, SeqSubset DEF StepShape
<1>2. CASE UNCHANGED <<rxq, script>> /\ steps = <<>>
  BY <1>2 DEF InFlight, Posted, AboutToPost, Awaiting, Range
<1>3. CASE ~Awaiting(c, "toRouter") /\ UNCHANGED rxq /\ Scripted(c, steps)
  <2>1. Posted' = Posted
    BY <1>3 DEF Posted, Range
  <2>2. \A d \in Conn \ {c} :
          script'[d] = script[d] /\ (Awaiting(d, "toRouter")' <=> Awaiting(d, "toRouter"))
    BY <1>1, <1>3, ScriptAfter DEF Awaiting
  <2>3. AboutToPost \subseteq AboutToPost'
    BY <1>3, <2>2 DEF AboutToPost
  <2>4. Awaiting(c, "toRouter")' =>
          steps # <<>> /\ steps[1].do = "toRouter" /\ script'[c][1] = steps[1]
    BY <1>1, <1>3, ScriptAfter DEF Awaiting
  <2>5. \A e \in AboutToPost' \ AboutToPost :
          steps # <<>> /\ steps[1].do = "toRouter" /\ e = steps[1].event
    BY <2>2, <2>4 DEF AboutToPost
  <2>6. steps # <<>> /\ steps[1].do = "toRouter" => steps[1].event \in AboutToPost'
    BY <1>1, <1>3, ScriptAfter DEF AboutToPost, Awaiting
  <2> QED  BY <2>1, <2>3, <2>5, <2>6 DEF InFlight
<1>4. CASE /\ Awaiting(c, "toRouter") /\ steps = <<>>
           /\ rxq' = Append(rxq, Head(script[c]).event)
           /\ Scripted(c, steps)
  <2> DEFINE e == Head(script[c]).event
  <2>1. Posted' = Posted \cup {e}
    <3>1. rxq \in Seq(RouterEvent)
      BY DEF TypeInv, TypeOK, RouterOK
    <3> QED  BY <1>4, <3>1 DEF Posted, Range
  <2>2. script[c] \in Seq(Await) /\ script[c] # <<>> /\ e = script[c][1].event
    BY <1>4 DEF Awaiting, TypeInv, TypeOK, ConnOK
  <2>3. /\ \A d \in Conn \ {c} :
             script'[d] = script[d] /\ (Awaiting(d, "toRouter")' <=> Awaiting(d, "toRouter"))
        /\ ~Awaiting(c, "toRouter")'
    BY <1>1, <1>4, ScriptAfter DEF Awaiting
  <2>4. AboutToPost \subseteq AboutToPost' \cup {e}
    BY <2>2, <2>3 DEF AboutToPost
  <2>5. AboutToPost' \subseteq AboutToPost /\ e \in AboutToPost
    BY <1>4, <2>2, <2>3 DEF AboutToPost
  <2> QED  BY <1>4, <2>1, <2>4, <2>5 DEF InFlight
<1> QED  BY <1>2, <1>3, <1>4 DEF StepShape

\* A script of one kind of awaits stays one if the new ones are of that kind.
LEMMA ScriptsOfKind ==
  ASSUME TypeInv, NEW S, NEW T, S \subseteq T, \A d \in Conn : script[d] \in Seq(S),
         NEW c \in Conn, NEW steps \in Seq(T), Scripted(c, steps)
  PROVE  \A d \in Conn : script'[d] \in Seq(T)
<1>1. script \in [Conn -> Seq(Await)] /\ \A d \in Conn : script[d] \in Seq(T)
  BY SeqSubset DEF TypeInv, TypeOK, ConnOK
<1>2. CASE script' = [script EXCEPT ![c] = steps]
  BY <1>1, <1>2
<1>3. CASE script[c] # <<>> /\ Continue(c, steps)
  <2>1. Tail(script[c]) \in Seq(T)
    BY <1>1, <1>3, TailTypes
  <2>2. steps \o Tail(script[c]) \in Seq(T)
    BY <2>1, ConcatTypes
  <2> QED  BY <1>1, <1>3, <2>2 DEF Continue
<1> QED  BY <1>2, <1>3 DEF Scripted

LEMMA PostsStayFirst ==
  ASSUME TypeInv, PostsFirst, NEW c \in Conn, NEW steps, StepShape(c, steps)
  PROVE  PostsFirst'
<1>1. script \in [Conn -> Seq(Await)]
  BY DEF TypeInv, TypeOK, ConnOK
<1>2. CASE UNCHANGED script
  BY <1>2 DEF PostsFirst
<1>3. CASE Scripted(c, steps)
  <2>1. steps \in Seq(Await) /\ (steps # <<>> => Tail(steps) \in Seq(NoPost))
    <3>1. NewAwait(c) \subseteq Await
      BY DEF NewAwait
    <3> QED  BY <3>1, SeqSubset DEF StepShape
  <2>2. \A d \in Conn \ {c} : script'[d] = script[d]
    BY <1>1, <1>3 DEF Scripted, Continue
  <2>3. script'[c] # <<>> => Tail(script'[c]) \in Seq(NoPost)
    <3>1. CASE script' = [script EXCEPT ![c] = steps]
      BY <1>1, <2>1, <3>1
    <3>2. CASE script[c] # <<>> /\ Continue(c, steps)
      <4>1. script'[c] = steps \o Tail(script[c]) /\ Tail(script[c]) \in Seq(NoPost)
        BY <1>1, <3>2 DEF Continue, PostsFirst
      <4>2. CASE steps = <<>>
        <5>1. script'[c] = Tail(script[c])
          BY <4>1, <4>2
        <5> QED  BY <4>1, <5>1, TailTypes
      <4>3. CASE steps # <<>>
        <5>1. Tail(steps \o Tail(script[c])) = Tail(steps) \o Tail(script[c])
          BY <2>1, <4>1, <4>3
        <5> QED  BY <2>1, <4>1, <4>3, <5>1, ConcatTypes
      <4> QED  BY <4>2, <4>3
    <3> QED  BY <1>3, <3>1, <3>2 DEF Scripted
  <2> QED  BY <2>2, <2>3 DEF PostsFirst
<1> QED  BY <1>2, <1>3 DEF StepShape

\* The INSERT of a creator waits in a script only once its group is there.
LEMMA FoundedByActor ==
  ASSUME TypeInv, Founded, NEW c \in Conn, NEW steps, StepShape(c, steps)
  PROVE  Founded'
<1>1. groups \subseteq groups' /\ steps \in Seq(NewAwait(c))
  BY DEF StepShape
<1>2. FoundedAwait \subseteq FoundedAwait'
  BY <1>1 DEF FoundedAwait
<1>3. steps \in Seq(FoundedAwait')
  <2>1. NewAwait(c) \subseteq FoundedAwait'
    BY DEF NewAwait, FoundedAwait
  <2> QED  BY <1>1, <2>1, SeqSubset
<1>4. CASE UNCHANGED script
  BY <1>2, <1>4, SeqSubset DEF Founded
<1>5. CASE Scripted(c, steps)
  <2>1. \A d \in Conn : script'[d] \in Seq(FoundedAwait')
    BY <1>2, <1>3, <1>5, ScriptsOfKind DEF Founded
  <2> QED  BY <2>1 DEF Founded
<1> QED  BY <1>4, <1>5 DEF StepShape

LEMMA FoundedNext == TypeInv /\ Founded /\ [Next]_vars => Founded'
<1> SUFFICES ASSUME TypeInv, Founded, [Next]_vars PROVE Founded'
  OBVIOUS
<1>1. ASSUME NEW c \in Conn, Actor(c) \/ Client(c) PROVE Founded'
  <2>1. PICK steps : StepShape(c, steps)
    BY <1>1, ShapeOfStep
  <2> QED  BY <2>1, FoundedByActor
<1>2. CASE Crash
  BY <1>2 DEF Crash, Founded
<1>3. CASE RouterTask \/ SaveTasks \/ Tick \/ UNCHANGED vars
  <2>1. UNCHANGED <<groups, script>>
    BY <1>3 DEF RouterTask, RouterStep, OnUserConnected, OnUserDisconnected, OnUserJoinedGroup,
                OnRouteMessage, Deliver, SaveTasks, SaveMessage, InsertMessage, Tick, vars,
                dbVars, connVars
  <2> QED  BY <2>1 DEF Founded, FoundedAwait
<1> QED  BY <1>1, <1>2, <1>3 DEF Next

-----------------------------------------------------------------------------
(* No subscription is lost.                                                *)

LEMMA CoveredStays ==
  ASSUME UNCHANGED subs, InFlight \subseteq InFlight', NEW u, NEW g, Covered(u, g)
  PROVE  Covered(u, g)'
BY DEF Covered

LEMMA SubscriptionByActor ==
  ASSUME TypeInv, SubscriptionInv, "fetchGroups" \notin DbFaults,
         NEW c \in Conn, NEW steps, StepShape(c, steps)
  PROVE  SubscriptionInv'
<1> USE DEF SubscriptionInv
<1>1. /\ UNCHANGED <<sessions, subs>> /\ groups \subseteq groups' /\ members \subseteq members'
      /\ steps \in Seq(NewAwait(c))
  BY DEF StepShape
<1>2. /\ InFlight \subseteq InFlight'
      /\ \A e \in InFlight' \ InFlight :
           steps # <<>> /\ steps[1].do = "toRouter" /\ e = steps[1].event
      /\ steps # <<>> /\ steps[1].do = "toRouter" => steps[1].event \in InFlight'
  BY FlightOfStep
<1>3. MembersOfGroups'
  BY DEF MembersOfGroups, StepShape
<1>4. Founded'
  BY FoundedByActor
<1>5. PostsFirst'
  BY PostsStayFirst
\* A new member is covered by the event that follows the INSERT.
<1>6. ASSUME NEW g, NEW u, <<g, u>> \in members' \ members
      PROVE  Covered(u, g)'
  <2>1. steps # <<>> /\ steps[1] = ToRouter(UserJoinedGroup(u, g))
    BY <1>6 DEF StepShape
  <2>2. UserJoinedGroup(u, g) \in InFlight'
    BY <1>2, <2>1 DEF ToRouter
  <2> QED  BY <2>2 DEF Covered, UserJoinedGroup
<1>7. NoLostSubscription'
  <2> SUFFICES ASSUME NEW g \in GroupId, NEW u \in Online', <<g, u>> \in members'
               PROVE  Covered(u, g)'
    BY DEF NoLostSubscription, Covered
  <2>1. u \in Online
    BY <1>1 DEF Online
  <2>2. CASE <<g, u>> \in members
    BY <1>1, <1>2, <2>1, <2>2, CoveredStays DEF NoLostSubscription, Covered
  <2>3. CASE <<g, u>> \notin members
    BY <1>6, <2>3
  <2> QED  BY <2>2, <2>3
<1>8. ConnectsCovered'
  <2> SUFFICES ASSUME NEW e \in InFlight', e.type = "UserConnected",
                      NEW g \in GroupId, <<g, e.user>> \in members'
               PROVE  g \in e.groups \/ Covered(e.user, g)'
    BY DEF ConnectsCovered
  <2>1. CASE <<g, e.user>> \notin members
    BY <1>6, <2>1
  <2>2. CASE <<g, e.user>> \in members /\ e \in InFlight
    BY <1>1, <1>2, <2>2, CoveredStays DEF ConnectsCovered
  <2>3. CASE <<g, e.user>> \in members /\ e \notin InFlight
    <3>1. steps # <<>> /\ steps[1].do = "toRouter" /\ e = steps[1].event
      BY <1>2, <2>3
    <3>2. steps[1] \in NewAwait(c)
      BY <1>1, <3>1
    <3>3. e.user = me[c] /\ e.groups = GroupsOf(me[c])
      BY <3>1, <3>2 DEF NewAwait, MayFail
    <3>4. g \in groups
      BY <2>3 DEF MembersOfGroups
    <3> QED  BY <2>3, <3>3, <3>4 DEF GroupsOf
  <2> QED  BY <2>1, <2>2, <2>3
<1> QED  BY <1>3, <1>4, <1>5, <1>7, <1>8

LEMMA RangeTail ==
  ASSUME NEW S, NEW s \in Seq(S), s # <<>>
  PROVE  Range(s) = Range(Tail(s)) \cup {Head(s)}
<1>1. ASSUME NEW i \in DOMAIN s
      PROVE  s[i] \in Range(Tail(s)) \cup {Head(s)}
  <2>1. CASE i = 1
    BY <2>1
  <2>2. CASE i # 1
    <3>1. i - 1 \in DOMAIN Tail(s) /\ Tail(s)[i - 1] = s[i]
      BY <2>2
    <3> QED  BY <3>1 DEF Range
  <2> QED  BY <2>1, <2>2
<1>2. ASSUME NEW i \in DOMAIN Tail(s)
      PROVE  i + 1 \in DOMAIN s /\ Tail(s)[i] = s[i + 1]
  OBVIOUS
<1>3. Head(s) \in Range(s)
  <2>1. 1 \in DOMAIN s /\ Head(s) = s[1]
    OBVIOUS
  <2> QED  BY <2>1 DEF Range
<1> QED  BY <1>1, <1>2, <1>3 DEF Range

\* Whoever else is queued, an event that is taken leaves only itself.
LEMMA TakenEvent ==
  ASSUME TypeInv, NEW type, Take(type), UNCHANGED script
  PROVE  /\ Head(rxq) \in InFlight /\ Head(rxq) \in RouterEvent
         /\ InFlight' \subseteq InFlight
         /\ InFlight \subseteq InFlight' \cup {Head(rxq)}
<1>1. rxq \in Seq(RouterEvent) /\ rxq # <<>> /\ rxq' = Tail(rxq)
  BY DEF Take, TypeInv, TypeOK, RouterOK
<1>2. Posted = Range(Tail(rxq)) \cup {Head(rxq)}
  BY <1>1, RangeTail DEF Posted
<1>3. Posted' = Range(Tail(rxq))
  BY <1>1 DEF Posted, Range
<1>4. AboutToPost' = AboutToPost
  BY DEF AboutToPost, Awaiting
<1> QED  BY <1>1, <1>2, <1>3, <1>4, TailTypes DEF InFlight

LEMMA SubscriptionByRouter ==
  ASSUME TypeInv, SubscriptionInv, RouterTask
  PROVE  SubscriptionInv'
<1> USE DEF SubscriptionInv
<1> DEFINE e == Head(rxq)
<1>1. UNCHANGED <<groups, members, script>>
  BY DEF RouterTask, RouterStep, OnUserConnected, OnUserDisconnected, OnUserJoinedGroup,
         OnRouteMessage, Deliver, dbVars, connVars
<1>2. MembersOfGroups' /\ Founded' /\ PostsFirst'
  BY <1>1 DEF MembersOfGroups, Founded, FoundedAwait, PostsFirst
\* A step after which everything is covered that was, and a session that is new
\* was covered as a login in flight.
<1>3. ASSUME \A u : \A g \in GroupId : Covered(u, g) => Covered(u, g)',
             InFlight' \subseteq InFlight,
             \A u \in Online' \ Online, g \in GroupId : <<g, u>> \in members => Covered(u, g)'
      PROVE  NoLostSubscription' /\ ConnectsCovered'
  <2>1. NoLostSubscription'
    <3> SUFFICES ASSUME NEW g \in GroupId, NEW u \in Online', <<g, u>> \in members
                 PROVE  Covered(u, g)'
      BY <1>1 DEF NoLostSubscription, Covered
    <3>1. CASE u \in Online
      BY <1>3, <3>1 DEF NoLostSubscription, Covered
    <3>2. CASE u \notin Online
      BY <1>3, <3>2
    <3> QED  BY <3>1, <3>2
  <2>2. ConnectsCovered'
    <3> SUFFICES ASSUME NEW f \in InFlight', f.type = "UserConnected",
                        NEW g \in GroupId, <<g, f.user>> \in members
                 PROVE  g \in f.groups \/ Covered(f.user, g)'
      BY <1>1 DEF ConnectsCovered
    <3> QED  BY <1>3 DEF ConnectsCovered
  <2> QED  BY <2>1, <2>2
<1>4. CASE OnUserConnected
  <2>1. /\ e \in InFlight /\ e \in RouterEvent /\ e.type = "UserConnected"
        /\ InFlight' \subseteq InFlight /\ InFlight \subseteq InFlight' \cup {e}
    BY <1>1, <1>4, TakenEvent DEF OnUserConnected, Take
  <2>2. e.user \in UserId /\ e.groups \subseteq GroupId
    BY <2>1 DEF RouterEvent
  <2>3. /\ sessions' = [sessions EXCEPT ![e.user] = e.sender]
        /\ subs' = Subscribe(e.user, e.groups)
    BY <1>4 DEF OnUserConnected
  <2>4. /\ \A g \in GroupId : subs[g] \subseteq subs'[g]
        /\ \A g \in e.groups : e.user \in subs'[g]
    BY <2>2, <2>3 DEF Subscribe
  <2>5. \A u, g : UserJoinedGroup(u, g) # e
    BY <2>1 DEF UserJoinedGroup
  <2>6. ASSUME NEW u, NEW g \in GroupId, Covered(u, g)
        PROVE  Covered(u, g)'
    BY <2>1, <2>4, <2>5, <2>6 DEF Covered, UserJoinedGroup
  <2>7. Online' \ Online \subseteq {e.user}
    BY <2>2, <2>3 DEF Online, TypeInv, TypeOK, RouterOK
  <2>8. ASSUME NEW u, u = e.user, NEW g \in GroupId, <<g, u>> \in members
        PROVE  Covered(u, g)'
    <3>1. CASE g \in e.groups
      BY <2>4, <2>8, <3>1 DEF Covered
    <3>2. CASE Covered(u, g)
      BY <2>6, <3>2
    <3> QED  BY <2>1, <2>8, <3>1, <3>2 DEF ConnectsCovered
  <2> HIDE DEF e
  <2> QED  BY <1>2, <1>3, <2>1, <2>6, <2>7, <2>8
<1>5. CASE OnUserDisconnected
  <2>1. /\ e \in InFlight /\ e \in RouterEvent /\ e.type = "UserDisconnected"
        /\ InFlight' \subseteq InFlight /\ InFlight \subseteq InFlight' \cup {e}
    BY <1>1, <1>5, TakenEvent DEF OnUserDisconnected, Take
  <2>2. \A u, g : UserJoinedGroup(u, g) # e
    BY <2>1 DEF UserJoinedGroup
  <2>3. \A u, g : Covered(u, g) => Covered(u, g)'
    BY <1>5, <2>1, <2>2 DEF OnUserDisconnected, Covered, UserJoinedGroup
  <2>4. Online' \subseteq Online
    <3>1. e.user \in UserId
      BY <2>1 DEF RouterEvent
    <3> QED  BY <1>5, <3>1 DEF OnUserDisconnected, Online, TypeInv, TypeOK, RouterOK
  <2> QED  BY <1>2, <1>3, <2>1, <2>3, <2>4
<1>6. CASE OnUserJoinedGroup
  <2>1. /\ e \in InFlight /\ e \in RouterEvent /\ e.type = "UserJoinedGroup"
        /\ InFlight' \subseteq InFlight /\ InFlight \subseteq InFlight' \cup {e}
    BY <1>1, <1>6, TakenEvent DEF OnUserJoinedGroup, Take
  <2>2. e.user \in UserId /\ e.group \in GroupId
    BY <2>1 DEF RouterEvent
  <2>3. /\ \A g \in GroupId : subs[g] \subseteq subs'[g]
        /\ e.user \in subs'[e.group]
    BY <1>6, <2>2 DEF OnUserJoinedGroup, JoinSubscription, Subscribe
  <2>4. ASSUME NEW u, NEW g \in GroupId, Covered(u, g)
        PROVE  Covered(u, g)'
    <3>1. CASE UserJoinedGroup(u, g) = e
      <4>1. u = e.user /\ g = e.group
        BY <3>1 DEF UserJoinedGroup
      <4> QED  BY <2>3, <4>1 DEF Covered
    <3>2. CASE UserJoinedGroup(u, g) # e
      BY <2>1, <2>3, <2>4, <3>2 DEF Covered, UserJoinedGroup
    <3> QED  BY <3>1, <3>2
  <2>5. Online' = Online
    BY <1>6 DEF OnUserJoinedGroup, Online
  <2> QED  BY <1>2, <1>3, <2>1, <2>4, <2>5
<1>7. CASE OnRouteMessage
  <2>1. /\ e \in InFlight /\ e \in RouterEvent /\ e.type = "RouteMessage"
        /\ InFlight' \subseteq InFlight /\ InFlight \subseteq InFlight' \cup {e}
    BY <1>1, <1>7, TakenEvent DEF OnRouteMessage, Take
  <2>2. \A u, g : UserJoinedGroup(u, g) # e
    BY <2>1 DEF UserJoinedGroup
  <2>3. \A u, g : Covered(u, g) => Covered(u, g)'
    BY <1>7, <2>1, <2>2 DEF OnRouteMessage, Covered, UserJoinedGroup
  <2>4. Online' = Online
    BY <1>7 DEF OnRouteMessage, Online
  <2> QED  BY <1>2, <1>3, <2>1, <2>3, <2>4
<1>8. CASE Deliver
  <2>1. InFlight' = InFlight /\ Online' = Online /\ UNCHANGED subs
    BY <1>1, <1>8 DEF Deliver, InFlight, Posted, AboutToPost, Awaiting, Online, Range
  <2>2. \A u, g : Covered(u, g) => Covered(u, g)'
    BY <2>1 DEF Covered, UserJoinedGroup
  <2> QED  BY <1>2, <1>3, <2>1, <2>2
<1> QED  BY <1>4, <1>5, <1>6, <1>7, <1>8 DEF RouterTask, RouterStep

\* After a crash nobody is online and nothing is in flight.
LEMMA SubscriptionByCrash ==
  ASSUME SubscriptionInv, Crash
  PROVE  SubscriptionInv'
<1>1. MembersOfGroups'
  BY DEF SubscriptionInv, MembersOfGroups, Crash, dbVars
<1>2. Founded' /\ PostsFirst'
  BY DEF Crash, Founded, PostsFirst
<1>3. Online' = {} /\ InFlight' = {}
  BY DEF Crash, Online, InFlight, Posted, AboutToPost, Awaiting, Range
<1>4. NoLostSubscription' /\ ConnectsCovered'
  BY <1>3 DEF NoLostSubscription, ConnectsCovered
<1> QED  BY <1>1, <1>2, <1>4 DEF SubscriptionInv

LEMMA SubscriptionInit == Init => SubscriptionInv
<1> SUFFICES ASSUME Init PROVE SubscriptionInv
  OBVIOUS
<1> USE DEF Init, DbInit, RouterInit, ConnInit
<1>1. MembersOfGroups
  BY InitialTables DEF MembersOfGroups
<1>2. Founded /\ PostsFirst
  BY DEF Founded, PostsFirst
<1>3. Online = {} /\ InFlight = {}
  BY DEF Online, InFlight, Posted, AboutToPost, Awaiting, Range
<1>4. NoLostSubscription /\ ConnectsCovered
  BY <1>3 DEF NoLostSubscription, ConnectsCovered
<1> QED  BY <1>1, <1>2, <1>4 DEF SubscriptionInv

LEMMA SubscriptionNext ==
  ASSUME "fetchGroups" \notin DbFaults
  PROVE  TypeInv /\ SubscriptionInv /\ [Next]_vars => SubscriptionInv'
<1> SUFFICES ASSUME TypeInv, SubscriptionInv, [Next]_vars PROVE SubscriptionInv'
  OBVIOUS
<1>1. CASE RouterTask
  BY <1>1, SubscriptionByRouter
<1>2. ASSUME NEW c \in Conn, Actor(c) \/ Client(c) PROVE SubscriptionInv'
  <2>1. PICK steps : StepShape(c, steps)
    BY <1>2, ShapeOfStep DEF SubscriptionInv
  <2> QED  BY <2>1, SubscriptionByActor
<1>3. CASE Crash
  BY <1>3, SubscriptionByCrash
<1>4. CASE SaveTasks \/ Tick \/ UNCHANGED vars
  <2>1. UNCHANGED <<groups, members, script, rxq, sessions, subs>>
    BY <1>4 DEF SaveTasks, SaveMessage, InsertMessage, Tick, vars, dbVars, routerVars, connVars
  <2>2. MembersOfGroups' /\ Founded' /\ PostsFirst'
    BY <2>1 DEF SubscriptionInv, MembersOfGroups, Founded, FoundedAwait, PostsFirst
  <2>3. Online' = Online /\ InFlight' = InFlight
    BY <2>1 DEF Online, InFlight, Posted, AboutToPost, Awaiting, Range
  <2>4. NoLostSubscription' /\ ConnectsCovered'
    BY <2>1, <2>3 DEF SubscriptionInv, NoLostSubscription, ConnectsCovered, Covered
  <2> QED  BY <2>2, <2>4 DEF SubscriptionInv
<1> QED  BY <1>1, <1>2, <1>3, <1>4 DEF Next

\* As long as the query of a user's groups does not fail, no member with a
\* session is left without its subscription, however invitations, logins,
\* reconnections, departures and crashes interleave: between the INSERT of a
\* membership and the subscription there is always an event in flight.
THEOREM SubscriptionsKept ==
  ASSUME "fetchGroups" \notin DbFaults
  PROVE  Spec => []NoLostSubscription
<1>1. SubscriptionInv => NoLostSubscription
  BY DEF SubscriptionInv
<1>2. TypeInv /\ SubscriptionInv /\ [Next]_vars => SubscriptionInv'
  BY SubscriptionNext
<1> QED  BY TypesHold, SubscriptionInit, <1>1, <1>2, PTL DEF Spec

-----------------------------------------------------------------------------
(* No subscription without a membership.                                   *)

LEMMA BackedByActor ==
  ASSUME TypeInv, BackedInv, "insertCreator" \notin DbFaults,
         NEW c \in Conn, NEW steps, StepShape(c, steps)
  PROVE  BackedInv'
<1> USE DEF BackedInv
<1>1. members \subseteq members' /\ UNCHANGED subs /\ steps \in Seq(NewAwait(c))
  BY DEF StepShape
<1>2. SubscriptionsBacked'
  BY <1>1 DEF SubscriptionsBacked
<1>3. BackedEvent \subseteq BackedEvent' /\ BackedAwait \subseteq BackedAwait'
  BY <1>1 DEF BackedEvent, BackedAwait, Backed
<1>4. NewAwait(c) \subseteq BackedAwait'
  <2> SUFFICES ASSUME NEW a \in NewAwait(c), a.do = "toRouter"
               PROVE  Backed(a.event)'
    BY DEF NewAwait, BackedAwait
  <2>1. CASE a.event.type = "UserConnected"
    <3>1. a.event.user = me[c] /\ (a.event.groups = GroupsOf(me[c]) \/ a.event.groups = {})
      BY <2>1 DEF NewAwait
    <3>2. \A g \in a.event.groups : <<g, a.event.user>> \in members'
      BY <1>1, <3>1 DEF GroupsOf
    <3> QED  BY <2>1, <3>2 DEF Backed
  <2>2. CASE a.event.type # "UserConnected"
    BY <2>2 DEF NewAwait, Backed, MayFail
  <2> QED  BY <2>1, <2>2
<1>5. steps \in Seq(BackedAwait')
  BY <1>1, <1>4, SeqSubset
<1>6. \A d \in Conn : script'[d] \in Seq(BackedAwait')
  <2>1. CASE UNCHANGED script
    BY <1>3, <2>1, SeqSubset
  <2>2. CASE Scripted(c, steps)
    BY <1>3, <1>5, <2>2, ScriptsOfKind
  <2> QED  BY <2>1, <2>2 DEF StepShape
<1>7. rxq' \in Seq(BackedEvent')
  <2>1. rxq \in Seq(BackedEvent')
    BY <1>3, SeqSubset
  <2>2. CASE UNCHANGED rxq
    BY <2>1, <2>2
  <2>3. CASE Awaiting(c, "toRouter") /\ rxq' = Append(rxq, Head(script[c]).event)
    <3>1. Head(script[c]) \in BackedAwait /\ Head(script[c]).do = "toRouter"
      BY <2>3, TailTypes DEF Awaiting
    <3>2. Head(script[c]).event \in BackedEvent
      BY <3>1, AwaitFields DEF BackedAwait, BackedEvent
    <3> QED  BY <1>3, <2>1, <2>3, <3>2, AppendTypes
  <2> QED  BY <2>2, <2>3 DEF StepShape
<1> QED  BY <1>2, <1>6, <1>7

LEMMA BackedByRouter ==
  ASSUME TypeInv, BackedInv, RouterTask
  PROVE  BackedInv'
<1> USE DEF BackedInv
<1>1. UNCHANGED <<members, script>>
  BY DEF RouterTask, RouterStep, OnUserConnected, OnUserDisconnected, OnUserJoinedGroup,
         OnRouteMessage, Deliver, dbVars, connVars
<1>2. BackedEvent' = BackedEvent /\ BackedAwait' = BackedAwait
  BY <1>1 DEF BackedEvent, BackedAwait, Backed
<1>3. rxq' \in Seq(BackedEvent)
  <2>1. rxq' = rxq \/ (rxq # <<>> /\ rxq' = Tail(rxq))
    BY DEF RouterTask, RouterStep, OnUserConnected, OnUserDisconnected, OnUserJoinedGroup,
           OnRouteMessage, Deliver, Take
  <2> QED  BY <2>1, TailTypes
<1>4. SubscriptionsBacked'
  <2>1. CASE OnUserConnected \/ OnUserJoinedGroup
    <3>1. Head(rxq) \in BackedEvent
      BY <2>1, TailTypes DEF OnUserConnected, OnUserJoinedGroup, Take
    <3> QED  BY <1>1, <2>1, <3>1
             DEF SubscriptionsBacked, OnUserConnected, OnUserJoinedGroup, Take, JoinSubscription,
                 Subscribe, BackedEvent, Backed
  <2>2. CASE OnUserDisconnected \/ OnRouteMessage \/ Deliver
    BY <1>1, <2>2 DEF SubscriptionsBacked, OnUserDisconnected, OnRouteMessage, Deliver
  <2> QED  BY <2>1, <2>2 DEF RouterTask, RouterStep
<1> QED  BY <1>1, <1>2, <1>3, <1>4

LEMMA BackedNext ==
  ASSUME "insertCreator" \notin DbFaults
  PROVE  TypeInv /\ Founded /\ BackedInv /\ [Next]_vars => BackedInv'
<1> SUFFICES ASSUME TypeInv, Founded, BackedInv, [Next]_vars PROVE BackedInv'
  OBVIOUS
<1>1. CASE RouterTask
  BY <1>1, BackedByRouter
<1>2. ASSUME NEW c \in Conn, Actor(c) \/ Client(c) PROVE BackedInv'
  <2>1. PICK steps : StepShape(c, steps)
    BY <1>2, ShapeOfStep
  <2> QED  BY <2>1, BackedByActor
<1>3. CASE Crash
  BY <1>3 DEF Crash, BackedInv, SubscriptionsBacked
<1>4. CASE SaveTasks \/ Tick \/ UNCHANGED vars
  <2>1. UNCHANGED <<members, script, rxq, subs>>
    BY <1>4 DEF SaveTasks, SaveMessage, InsertMessage, Tick, vars, dbVars, routerVars, connVars
  <2> QED  BY <2>1 DEF BackedInv, SubscriptionsBacked, BackedEvent, BackedAwait, Backed
<1> QED  BY <1>1, <1>2, <1>3, <1>4 DEF Next

LEMMA BackedInit == Init => BackedInv /\ Founded
BY DEF Init, RouterInit, ConnInit, BackedInv, SubscriptionsBacked, Founded

\* As long as the INSERT of a group's creator does not fail, the router never
\* has a subscriber who is not a member, so it routes no group's messages to
\* anyone else: no event brings a subscription before its membership is stored,
\* and nothing in the code takes a membership back.
THEOREM SubscriptionsAreBacked ==
  ASSUME "insertCreator" \notin DbFaults
  PROVE  Spec => []SubscriptionsBacked
<1>1. BackedInv => SubscriptionsBacked
  BY DEF BackedInv
<1>2. TypeInv /\ Founded /\ BackedInv /\ [Next]_vars => BackedInv'
  BY BackedNext
<1> QED  BY TypesHold, BackedInit, FoundedNext, <1>1, <1>2, PTL DEF Spec

-----------------------------------------------------------------------------
(* Accounts.                                                               *)

\* Only a registration writes the table of users.
LEMMA OnlyRegistrationsAdd ==
  ASSUME [Next]_vars
  PROVE  UNCHANGED users \/ \E c \in Conn : RegisterUser(c)
<1>1. ASSUME NEW c \in Conn, ConnStep(c), ~RegisterUser(c)
      PROVE  UNCHANGED users
  BY <1>1 DEF ConnStep, LoginUser, Reject, CheckName, FetchGroups, FetchUsers, PostToRouter,
              PostToSelf, WriteToClient, ReceiveRouted, Invite, InsertMember, AlertInvited,
              NewGroup, InsertGroup, AddCreator, FetchMembers, FetchInfo, SyncMessages, dbVars
<1>2. ASSUME NEW c \in Conn, Client(c)
      PROVE  UNCHANGED users
  BY <1>2 DEF Client, Accept, Authenticate, FirstFrame, Request, HandleFrame, Disconnect, HangUp,
              NoFirstFrame, LoseWrite, WriteFails, dbVars
<1>3. CASE RouterTask \/ SaveTasks \/ Tick \/ Crash \/ UNCHANGED vars
  BY <1>3 DEF RouterTask, RouterStep, OnUserConnected, OnUserDisconnected, OnUserJoinedGroup,
              OnRouteMessage, Deliver, SaveTasks, SaveMessage, InsertMessage, Tick, Crash,
              vars, dbVars
<1> QED  BY <1>1, <1>2, <1>3 DEF Next, Actor

\* Ids and names stay unique although a registration checks the name and
\* inserts it in two steps: the UNIQUE of the table decides, not the check.
AccountsUnique ==
  \A r, s \in users : (r.id = s.id \/ r.name = s.name) => r = s

LEMMA AccountsStayUnique == Spec => []AccountsUnique
<1>1. Init => AccountsUnique
  BY InitialTables DEF Init, DbInit, AccountsUnique
<1>2. AccountsUnique /\ [Next]_vars => AccountsUnique'
  <2> SUFFICES ASSUME AccountsUnique, [Next]_vars PROVE AccountsUnique'
    OBVIOUS
  <2>1. CASE UNCHANGED users
    BY <2>1 DEF AccountsUnique
  <2>2. ASSUME NEW u \in UserId \ RegisteredUsers, NEW n, NEW p, InsertUser(u, n, p)
        PROVE  AccountsUnique'
    BY <2>2 DEF AccountsUnique, InsertUser, UniqueName, NameTaken, RegisteredUsers
  <2>3. ASSUME NEW c \in Conn, RegisterUser(c)
        PROVE  AccountsUnique'
    BY <2>1, <2>2, <2>3 DEF RegisterUser, Reject, dbVars
  <2> QED  BY <2>1, <2>3, OnlyRegistrationsAdd
<1> QED  BY <1>1, <1>2, PTL DEF Spec
================================================================================
