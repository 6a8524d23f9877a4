----------------------------- MODULE SessionProofs -----------------------------
(***************************************************************************)
(* The life of one connection, for every value of the constants: who it    *)
(* belongs to, what its client is told first and when its session ends.    *)
(***************************************************************************)
EXTENDS GroupProofs

-----------------------------------------------------------------------------
(* The invariant of sessions.                                              *)

NotYetKnown ==
  \A c \in Conn : phase[c] \in {"fresh", "authenticating", "rejecting"} => me[c] = NoUser

\* An actor that leaves has nothing else to do than to say so.
LeavesLast ==
  \A c \in Conn : phase[c] = "leaving" => script[c] = <<ToRouter(UserDisconnected(me[c]))>>

\* An actor speaks to the router for its own user only.
Speaks(c, e) ==
  /\ e.type = "UserConnected" => e.user = me[c] /\ e.sender = c
  /\ e.type = "UserDisconnected" => e.user = me[c]

SpeaksForItself == \A c \in Conn : Awaiting(c, "toRouter") => Speaks(c, Head(script[c]).event)

\* A session, and a login on its way to be one, is a connection of its user.
OwnSessions ==
  /\ \A e \in Posted : e.type = "UserConnected" => me[e.sender] = e.user
  /\ \A u \in Online : me[sessions[u]] = u

\* u's departure is in the router's queue, behind place i.
DepartsAfter(u, i) == \E j \in DOMAIN rxq : i < j /\ rxq[j] = UserDisconnected(u)

\* The greeting of c was cut short: its actor has returned before its loop.
Cut(c) == phase[c] = "closed" /\ Len(wire[c]) < 3

\* A connection whose login is queued is there, or was cut, or its departure is
\* queued behind the login; then the login is never what remains.
LoginsEnd ==
  \A i \in DOMAIN rxq : rxq[i].type = "UserConnected" =>
    LoggedIn(rxq[i].sender) \/ Cut(rxq[i].sender) \/ DepartsAfter(rxq[i].user, i)

SessionsEnd ==
  \A u \in Online : LoggedIn(sessions[u]) \/ Cut(sessions[u]) \/ DepartsAfter(u, 0)

SessionInv ==
  /\ NotYetKnown
  /\ LeavesLast
  /\ SpeaksForItself
  /\ OwnSessions

GhostFreeInv == LoginsEnd /\ SessionsEnd

-----------------------------------------------------------------------------
(* The invariant of identity.                                              *)

\* The first frame that makes an actor await an authentication query.
FrameOf(q) ==
  IF q.do = "login" THEN Login(q.name, q.password) ELSE Register(q.name, q.password)

\* An actor that is checking a first frame has heard that frame and no other.
Asked(c) ==
  /\ phase[c] = "fresh" => heard[c] = <<>>
  /\ phase[c] = "authenticating" =>
       \/ script[c] = <<>> /\ heard[c] = <<>>
       \/ \E q \in AuthAwait : script[c] = <<q>> /\ heard[c] = <<FrameOf(q)>>

\* A user was let in under the name of its account.
NamedAsHeard(c) ==
  me[c] # NoUser =>
    /\ heard[c] # <<>>
    /\ \E r \in users : r.id = me[c] /\ r.name = heard[c][1].name

\* An id is given out once, so no two connections registered the same user.
RegisteredOnce ==
  \A c, d \in {e \in Conn : me[e] # NoUser} :
    (c # d /\ me[c] = me[d]) =>
      ~(heard[c][1].type = "Register" /\ heard[d][1].type = "Register")

IdentityInv ==
  /\ AccountsUnique
  /\ \A c \in Conn : Asked(c) /\ NamedAsHeard(c)
  /\ RegisteredOnce

-----------------------------------------------------------------------------
(* The invariant of the greeting.                                          *)

\* The messages of the greeting, and those that may come after it.
GreetingType == {"AuthSuccess", "GroupsList", "UsersList"}

Late == {m \in ServerMessage : m.type \notin GreetingType}

\* Where the greeting of c is: what is written, and what is left to await.
Begun(c) ==
  \E gs \in SUBSET GroupId :
    LET auth == AuthSuccess(me[c])
        list == GroupsList(gs)
    IN  \/ script[c] = <<Query("fetchGroups")>> /\ wire[c] = <<>>
        \/ script[c] = Greeting(me[c], gs, c) /\ wire[c] = <<>>
        \/ script[c] = <<ToClient(auth), ToClient(list), Query("fetchUsers")>> /\ wire[c] = <<>>
        \/ script[c] = <<ToClient(list), Query("fetchUsers")>> /\ wire[c] = <<auth>>
        \/ script[c] = <<Query("fetchUsers")>> /\ wire[c] = <<auth, list>>
        \/ \E us \in SUBSET UserId :
             script[c] = <<ToClient(UsersList(us))>> /\ wire[c] = <<auth, list>>

\* Some of the greeting is written, or all of it and then other things.
GreetedInOrder(ms) ==
  \A i \in DOMAIN ms :
    IF i <= 3 THEN ms[i].type = <<"AuthSuccess", "GroupsList", "UsersList">>[i]
              ELSE ms[i].type \notin GreetingType

LateAwait == {a \in Await :
  /\ a.do \notin {"fetchGroups", "fetchUsers"}
  /\ a.do \in {"toSelf", "toClient"} => a.msg \in Late
  /\ a.do = "toRouter" /\ a.event.type = "RouteMessage" => a.event.message \in Late
  /\ a.do = "toRouter" => a.event.type # "UserConnected"}

LateEvent == {e \in RouterEvent : e.type = "RouteMessage" => e.message \in Late}

\* What each phase has written, and what it can still write.
Stage(c) ==
  CASE phase[c] \in {"fresh", "authenticating"} -> wire[c] = <<>>
    [] phase[c] = "rejecting" ->
         wire[c] = <<>> /\ \E e \in ServerError : script[c] = <<ToClient(Error(e))>>
    [] phase[c] = "greeting" -> Begun(c)
    [] phase[c] \in {"serving", "leaving"} ->
         Len(wire[c]) >= 3 /\ GreetedInOrder(wire[c]) /\ script[c] \in Seq(LateAwait)
    [] phase[c] = "closed" ->
         \/ me[c] = NoUser /\ \E e \in ServerError : wire[c] = <<Error(e)>>
         \/ GreetedInOrder(wire[c])

GreetingInv ==
  /\ \A c \in Conn : Stage(c) /\ chan[c] \in Seq(Late)
  /\ \A i \in DOMAIN fanout : fanout[i].msg \in Late
  /\ rxq \in Seq(LateEvent)

-----------------------------------------------------------------------------
(* What a step of one actor, or of its client, does to the connections.    *)

\* Nothing of another connection moves.
Aside(d) ==
  /\ phase'[d] = phase[d] /\ me'[d] = me[d] /\ script'[d] = script[d]
  /\ wire'[d] = wire[d] /\ heard'[d] = heard[d]
  /\ chan'[d] = chan[d] /\ (d \in open' <=> d \in open)

\* The functions a step may change, with one entry each.
Entries ==
  /\ phase \in [Conn -> Phase] /\ me \in [Conn -> UserId \cup {NoUser}]
  /\ script \in [Conn -> Seq(Await)] /\ wire \in [Conn -> Seq(ServerMessage)]
  /\ heard \in [Conn -> Seq(FirstFrames \cup Requests)]
  /\ chan \in [Conn -> Seq(ServerMessage)]

LEMMA HasEntries == TypeInv => Entries
BY DEF TypeInv, TypeOK, ConnOK, ChanOK, Entries

LEMMA OthersStand ==
  ASSUME TypeInv, NEW c \in Conn, Actor(c) \/ Client(c), NEW d \in Conn \ {c}
  PROVE  Aside(d)
<1> USE HasEntries DEF Entries, Aside, routerVars, chanVars
<1>1. CASE LoginUser(c) \/ CheckName(c) \/ RegisterUser(c)
  BY <1>1 DEF LoginUser, CheckName, RegisterUser, Welcome, Reject, Continue, OnlyScript
<1>2. CASE FetchGroups(c) \/ FetchUsers(c)
  BY <1>2 DEF FetchGroups, FetchUsers, Continue, OnlyScript
<1>3. CASE PostToRouter(c) \/ PostToSelf(c) \/ WriteToClient(c) \/ ReceiveRouted(c)
  BY <1>3 DEF PostToRouter, PostToSelf, WriteToClient, ReceiveRouted, Continue, Return
<1>4. CASE Invite(c) \/ AlertInvited(c) \/ NewGroup(c) \/ AddCreator(c)
  BY <1>4 DEF Invite, AlertInvited, NewGroup, AddCreator, Continue, OnlyScript
<1>5. CASE FetchMembers(c) \/ FetchInfo(c) \/ SyncMessages(c)
  BY <1>5 DEF FetchMembers, FetchInfo, SyncMessages, Continue, OnlyScript
<1>6. CASE Accept(c) \/ Disconnect(c) \/ LoseWrite(c)
  BY <1>6 DEF Accept, Disconnect, HangUp, NoFirstFrame, LoseWrite, WriteFails, Break, Return
<1>7. CASE Authenticate(c) \/ Request(c)
  BY <1>7 DEF Authenticate, FirstFrame, Request, HandleFrame
<1> QED  BY <1>1, <1>2, <1>3, <1>4, <1>5, <1>6, <1>7 DEF Actor, ConnStep, Client

\* The user of a connection is set once, at its login; a connection that is
\* logged in stops being so when it has posted its departure, or when a write of
\* its greeting fails.
LifeStep(c) ==
  /\ \/ me'[c] = me[c]
     \/ /\ phase[c] = "authenticating" /\ phase'[c] = "greeting"
        /\ ~Awaiting(c, "toRouter")'
  /\ phase'[c] \in {"fresh", "authenticating", "rejecting"} =>
       phase[c] \in {"fresh", "authenticating", "rejecting"} /\ me'[c] = me[c]
  /\ LoggedIn(c) /\ ~LoggedIn(c)' =>
       \/ phase[c] = "leaving" /\ Awaiting(c, "toRouter")
            /\ rxq' = Append(rxq, Head(script[c]).event)
       \/ c \in WritesFail /\ phase[c] = "greeting" /\ wire'[c] = wire[c]
  /\ phase'[c] = "leaving" =>
       \/ script'[c] = <<ToRouter(UserDisconnected(me[c]))>>
       \/ phase[c] = "leaving" /\ ~Awaiting(c, "toRouter")

LEMMA LifeOfStep ==
  ASSUME TypeInv, LeavesLast, NEW c \in Conn, Actor(c) \/ Client(c)
  PROVE  LifeStep(c)
<1> USE HasEntries DEF Entries, LifeStep, LoggedIn
<1>1. CASE LoginUser(c) \/ CheckName(c) \/ RegisterUser(c)
  <2>1. script[c] # <<>> /\ phase[c] = "authenticating"
    BY <1>1, WhoAwaits DEF LoginUser, CheckName, RegisterUser, Awaiting
  <2>2. CASE \E e : Reject(c, e)
    BY <2>1, <2>2 DEF Reject
  <2>3. CASE \E u : Welcome(c, u)
    <3>1. script'[c] = <<Query("fetchGroups")>> /\ phase'[c] = "greeting"
      BY <2>3 DEF Welcome
    <3>2. ~Awaiting(c, "toRouter")'
      BY <3>1 DEF Awaiting, Query
    <3> QED  BY <2>1, <3>1, <3>2
  <2>4. CASE OnlyScript
    BY <2>1, <2>4 DEF OnlyScript
  <2> QED  BY <1>1, <2>2, <2>3, <2>4 DEF LoginUser, CheckName, RegisterUser
<1>2. CASE FetchGroups(c) \/ FetchUsers(c)
  BY <1>2 DEF FetchGroups, FetchUsers, OnlyScript, Awaiting
<1>3. CASE PostToRouter(c)
  BY <1>3, WhoAwaits DEF PostToRouter, Return, Awaiting
<1>4. CASE PostToSelf(c) \/ WriteToClient(c) \/ ReceiveRouted(c)
  BY <1>4 DEF PostToSelf, WriteToClient, ReceiveRouted, Return, Awaiting, Idle
<1>5. CASE Invite(c) \/ AlertInvited(c) \/ NewGroup(c) \/ AddCreator(c)
  BY <1>5 DEF Invite, AlertInvited, NewGroup, AddCreator, OnlyScript, Awaiting
<1>6. CASE FetchMembers(c) \/ FetchInfo(c) \/ SyncMessages(c)
  BY <1>6 DEF FetchMembers, FetchInfo, SyncMessages, OnlyScript, Awaiting
<1>7. CASE Accept(c) \/ Authenticate(c) \/ Request(c)
  BY <1>7 DEF Accept, Authenticate, FirstFrame, Request, HandleFrame, Idle
<1>8. CASE Disconnect(c)
  BY <1>8 DEF Disconnect, HangUp, NoFirstFrame, Break, Return, Idle
<1>9. CASE LoseWrite(c)
  <2>1. c \in WritesFail /\ Awaiting(c, "toClient") /\ UNCHANGED <<me, wire>>
    BY <1>9 DEF LoseWrite, WriteFails
  <2>2. phase[c] # "leaving"
    BY <2>1 DEF LeavesLast, Awaiting, ToRouter
  <2>3. CASE phase[c] = "serving" /\ Break(c)
    BY <2>1, <2>3 DEF Break
  <2>4. CASE phase[c] # "serving" /\ Return(c)
    <3>1. phase'[c] = "closed"
      BY <2>4 DEF Return
    <3>2. LoggedIn(c) => c \in WritesFail /\ phase[c] = "greeting" /\ wire'[c] = wire[c]
      BY <2>1, <2>2, <2>4
    <3> QED  BY <2>1, <3>1, <3>2
  <2> QED  BY <1>9, <2>3, <2>4 DEF LoseWrite, WriteFails
<1> QED  BY <1>1, <1>2, <1>3, <1>4, <1>5, <1>6, <1>7, <1>8, <1>9 DEF Actor, ConnStep, Client

\* PostsFirst needs no assumption on what may fail.
LEMMA PostsFirstNext == TypeInv /\ Founded /\ PostsFirst /\ [Next]_vars => PostsFirst'
<1> SUFFICES ASSUME TypeInv, Founded, PostsFirst, [Next]_vars PROVE PostsFirst'
  OBVIOUS
<1>1. ASSUME NEW c \in Conn, Actor(c) \/ Client(c) PROVE PostsFirst'
  <2>1. PICK steps : StepShape(c, steps)
    BY <1>1, ShapeOfStep
  <2> QED  BY <2>1, PostsStayFirst
<1>2. CASE Crash
  BY <1>2 DEF Crash, PostsFirst
<1>3. CASE RouterTask \/ SaveTasks \/ Tick \/ UNCHANGED vars
  <2>1. UNCHANGED script
    BY <1>3 DEF RouterTask, SaveTasks, Tick, vars, connVars
  <2> QED  BY <2>1 DEF PostsFirst
<1> QED  BY <1>1, <1>2, <1>3 DEF Next

-----------------------------------------------------------------------------
(* Who a connection speaks for.                                            *)

\* A post a step leaves ahead of an actor was there, or is the first of `steps`.
LEMMA HeadAfter ==
  ASSUME TypeInv, PostsFirst, NEW c \in Conn, NEW steps, StepShape(c, steps),
         Awaiting(c, "toRouter")'
  PROVE  \/ Awaiting(c, "toRouter") /\ script'[c] = script[c]
         \/ steps # <<>> /\ Head(script'[c]) = steps[1] /\ steps[1] \in NewAwait(c)
<1>1. steps \in Seq(NewAwait(c)) /\ steps \in Seq(Await)
  <2>1. NewAwait(c) \subseteq Await
    BY DEF NewAwait
  <2> QED  BY <2>1, SeqSubset DEF StepShape
<1>2. CASE UNCHANGED script
  BY <1>2 DEF Awaiting
<1>3. CASE Scripted(c, steps)
  <2>1. steps # <<>> /\ Head(script'[c]) = steps[1]
    BY <1>1, <1>3, ScriptAfter
  <2> QED  BY <1>1, <2>1
<1> QED  BY <1>2, <1>3 DEF StepShape

LEMMA SessionByActor ==
  ASSUME TypeInv, Founded, PostsFirst, SessionInv, NEW c \in Conn, Actor(c) \/ Client(c)
  PROVE  SessionInv'
<1> USE DEF SessionInv
<1>1. PICK steps : StepShape(c, steps)
  BY ShapeOfStep
<1>2. LifeStep(c) /\ \A d \in Conn \ {c} : Aside(d)
  BY LifeOfStep, OthersStand
<1>3. NotYetKnown'
  BY <1>2 DEF NotYetKnown, LifeStep, Aside
<1>4. \A d \in Conn : me[d] # NoUser => me'[d] = me[d]
  BY <1>2 DEF NotYetKnown, LifeStep, Aside
<1>5. LeavesLast'
  <2> SUFFICES ASSUME NEW d \in Conn, phase'[d] = "leaving"
               PROVE  script'[d] = <<ToRouter(UserDisconnected(me'[d]))>>
    BY DEF LeavesLast, ToRouter, UserDisconnected
  <2>1. CASE d # c
    BY <1>2, <2>1 DEF LeavesLast, Aside, ToRouter, UserDisconnected
  <2>2. CASE d = c
    <3>1. phase[c] = "leaving" => Awaiting(c, "toRouter")
      <4> SUFFICES ASSUME phase[c] = "leaving" PROVE Awaiting(c, "toRouter")
        OBVIOUS
      <4>1. script[c] = <<ToRouter(UserDisconnected(me[c]))>>
        BY DEF LeavesLast
      <4> QED  BY <4>1 DEF Awaiting, ToRouter
    <3> QED  BY <1>2, <2>2, <3>1 DEF LifeStep, ToRouter, UserDisconnected
  <2> QED  BY <2>1, <2>2
<1>6. SpeaksForItself'
  <2> SUFFICES ASSUME NEW d \in Conn, Awaiting(d, "toRouter")'
               PROVE  Speaks(d, Head(script[d]).event)'
    BY DEF SpeaksForItself
  <2>1. CASE d # c
    BY <1>2, <2>1 DEF SpeaksForItself, Aside, Awaiting, Speaks
  <2>2. CASE d = c
    <3>1. me'[c] = me[c]
      BY <1>2, <2>2 DEF LifeStep
    <3>2. CASE Awaiting(c, "toRouter") /\ script'[c] = script[c]
      BY <2>2, <3>1, <3>2 DEF SpeaksForItself, Speaks
    <3>3. CASE Head(script'[c]) \in NewAwait(c)
      BY <2>2, <3>1, <3>3 DEF NewAwait, Speaks, Awaiting
    <3> QED  BY <1>1, <2>2, <3>2, <3>3, HeadAfter
  <2> QED  BY <2>1, <2>2
<1>7. OwnSessions'
  <2>1. \A u \in Online' : me'[sessions'[u]] = u
    <3> SUFFICES ASSUME NEW u \in Online' PROVE me'[sessions'[u]] = u
      OBVIOUS
    <3>1. u \in Online /\ sessions'[u] = sessions[u] /\ sessions[u] \in Conn
      BY <1>1 DEF StepShape, Online, TypeInv, TypeOK, RouterOK
    <3>2. me[sessions[u]] = u /\ u # NoUser
      BY <3>1, NullAssumption DEF OwnSessions, Online
    <3> QED  BY <1>4, <3>1, <3>2
  <2>2. \A e \in Posted : e.type = "UserConnected" => me'[e.sender] = e.user
    <3> SUFFICES ASSUME NEW e \in Posted, e.type = "UserConnected"
                 PROVE  me'[e.sender] = e.user
      OBVIOUS
    <3>1. e \in RouterEvent
      BY DEF Posted, Range, TypeInv, TypeOK, RouterOK
    <3>2. e.sender \in Conn /\ e.user \in UserId
      BY <3>1 DEF RouterEvent
    <3> QED  BY <1>4, <3>2, NullAssumption DEF OwnSessions
  <2>3. CASE UNCHANGED rxq
    <3>1. Posted' = Posted
      BY <2>3 DEF Posted, Range
    <3> QED  BY <2>1, <2>2, <3>1 DEF OwnSessions
  <2>4. CASE Awaiting(c, "toRouter") /\ rxq' = Append(rxq, Head(script[c]).event)
    <3>1. Posted' = Posted \cup {Head(script[c]).event}
      <4>1. rxq \in Seq(RouterEvent)
        BY DEF TypeInv, TypeOK, RouterOK
      <4> QED  BY <2>4, <4>1 DEF Posted, Range
    <3>2. Speaks(c, Head(script[c]).event) /\ phase[c] # "authenticating"
      <4>1. Head(script[c]).do = "toRouter" /\ script[c] # <<>>
        BY <2>4 DEF Awaiting
      <4>2. LoggedIn(c)
        BY <4>1, WhoAwaits
      <4> QED  BY <2>4, <4>2 DEF SpeaksForItself, LoggedIn
    <3>3. Head(script[c]).event.type = "UserConnected" =>
            me'[Head(script[c]).event.sender] = Head(script[c]).event.user
      BY <1>2, <3>2 DEF Speaks, LifeStep
    <3> QED  BY <2>1, <2>2, <3>1, <3>3 DEF OwnSessions
  <2> QED  BY <1>1, <2>3, <2>4 DEF StepShape
<1> QED  BY <1>3, <1>5, <1>6, <1>7

\* The router takes the event at the head of its queue or leaves the queue alone.
LEMMA QueueOfRouter ==
  ASSUME TypeInv, RouterTask
  PROVE  /\ UNCHANGED <<phase, me, script, wire, heard>>
         /\ \/ Deliver /\ UNCHANGED <<rxq, sessions>>
            \/ /\ rxq # <<>> /\ rxq' = Tail(rxq)
               /\ Head(rxq) \in Posted /\ Head(rxq) \in RouterEvent
               /\ Posted' \subseteq Posted /\ Posted \subseteq Posted' \cup {Head(rxq)}
<1>1. UNCHANGED <<phase, me, script, wire, heard>>
  BY DEF RouterTask, connVars
<1>2. CASE Deliver
  BY <1>1, <1>2 DEF Deliver
<1>3. CASE rxq # <<>> /\ rxq' = Tail(rxq)
  <2>1. rxq \in Seq(RouterEvent)
    BY DEF TypeInv, TypeOK, RouterOK
  <2>2. Range(rxq) = Range(Tail(rxq)) \cup {Head(rxq)}
    BY <1>3, <2>1, RangeTail
  <2>3. Posted' = Range(Tail(rxq))
    BY <1>3 DEF Posted, Range
  <2> QED  BY <1>1, <1>3, <2>1, <2>2, <2>3, TailTypes DEF Posted
<1> QED  BY <1>2, <1>3 DEF RouterTask, RouterStep, OnUserConnected, OnUserDisconnected,
                           OnUserJoinedGroup, OnRouteMessage, Take

\* The sessions after the event at the head of the queue.
LEMMA SessionsOfRouter ==
  ASSUME TypeInv, RouterTask, NEW u \in UserId
  PROVE  \/ sessions'[u] = sessions[u]
         \/ /\ rxq # <<>> /\ rxq' = Tail(rxq) /\ Head(rxq).user = u
            /\ \/ Head(rxq).type = "UserConnected" /\ sessions'[u] = Head(rxq).sender
               \/ Head(rxq).type = "UserDisconnected" /\ sessions'[u] = NoConn
<1>1. sessions \in [UserId -> Conn \cup {NoConn}]
  BY DEF TypeInv, TypeOK, RouterOK
<1>2. CASE OnUserConnected
  BY <1>1, <1>2 DEF OnUserConnected, Take
<1>3. CASE OnUserDisconnected
  BY <1>1, <1>3 DEF OnUserDisconnected, Take
<1>4. CASE OnUserJoinedGroup \/ OnRouteMessage \/ Deliver
  BY <1>4 DEF OnUserJoinedGroup, OnRouteMessage, Deliver
<1> QED  BY <1>2, <1>3, <1>4 DEF RouterTask, RouterStep

LEMMA SessionByRouter ==
  ASSUME TypeInv, SessionInv, RouterTask
  PROVE  SessionInv'
<1> USE DEF SessionInv
<1>1. UNCHANGED <<phase, me, script>> /\ Posted' \subseteq Posted
  BY QueueOfRouter DEF Posted, Range
<1>2. NotYetKnown' /\ LeavesLast'
  BY <1>1 DEF NotYetKnown, LeavesLast, ToRouter, UserDisconnected
<1>3. SpeaksForItself'
  BY <1>1 DEF SpeaksForItself, Speaks, Awaiting
<1>4. OwnSessions'
  <2>1. \A e \in Posted' : e.type = "UserConnected" => me'[e.sender] = e.user
    BY <1>1 DEF OwnSessions
  <2>2. ASSUME NEW u \in UserId, sessions'[u] # NoConn
        PROVE  me'[sessions'[u]] = u
    <3>1. CASE sessions'[u] = sessions[u]
      BY <1>1, <2>2, <3>1 DEF OwnSessions, Online
    <3>2. CASE /\ Head(rxq).type = "UserConnected" /\ Head(rxq).user = u
               /\ sessions'[u] = Head(rxq).sender /\ Head(rxq) \in Posted
      BY <1>1, <3>2 DEF OwnSessions
    <3> QED  BY <2>2, <3>1, <3>2, SessionsOfRouter, QueueOfRouter
  <2> QED  BY <2>1, <2>2 DEF OwnSessions, Online
<1> QED  BY <1>2, <1>3, <1>4

LEMMA SessionInit == Init => SessionInv /\ PostsFirst
<1> SUFFICES ASSUME Init PROVE SessionInv /\ PostsFirst
  OBVIOUS
<1> USE DEF Init, RouterInit, ConnInit
<1>1. NotYetKnown /\ LeavesLast
  BY DEF NotYetKnown, LeavesLast
<1>2. SpeaksForItself /\ PostsFirst
  BY DEF SpeaksForItself, Awaiting, PostsFirst
<1>3. OwnSessions
  BY DEF OwnSessions, Posted, Online, Range
<1> QED  BY <1>1, <1>2, <1>3 DEF SessionInv

LEMMA SessionNext ==
  TypeInv /\ Founded /\ PostsFirst /\ SessionInv /\ [Next]_vars => SessionInv'
<1> SUFFICES ASSUME TypeInv, Founded, PostsFirst, SessionInv, [Next]_vars PROVE SessionInv'
  OBVIOUS
<1>1. CASE RouterTask
  BY <1>1, SessionByRouter
<1>2. ASSUME NEW c \in Conn, Actor(c) \/ Client(c) PROVE SessionInv'
  BY <1>2, SessionByActor
<1>3. CASE Crash
  <2>1. NotYetKnown'
    BY <1>3 DEF Crash, SessionInv, NotYetKnown
  <2>2. LeavesLast' /\ SpeaksForItself'
    BY <1>3 DEF Crash, LeavesLast, SpeaksForItself, Awaiting
  <2>3. OwnSessions'
    BY <1>3 DEF Crash, OwnSessions, Posted, Online, Range
  <2> QED  BY <2>1, <2>2, <2>3 DEF SessionInv
<1>4. CASE SaveTasks \/ Tick \/ UNCHANGED vars
  <2>1. UNCHANGED <<phase, me, script, rxq, sessions>>
    BY <1>4 DEF SaveTasks, SaveMessage, Tick, vars, routerVars, connVars
  <2>2. NotYetKnown' /\ LeavesLast'
    BY <2>1 DEF SessionInv, NotYetKnown, LeavesLast, ToRouter, UserDisconnected
  <2>3. SpeaksForItself' /\ OwnSessions'
    BY <2>1 DEF SessionInv, SpeaksForItself, Speaks, Awaiting, OwnSessions, Posted, Online, Range
  <2> QED  BY <2>2, <2>3 DEF SessionInv
<1> QED  BY <1>1, <1>2, <1>3, <1>4 DEF Next

-----------------------------------------------------------------------------
(* Identity is kept.                                                       *)

\* What a step of c that neither reads nor checks a first frame does: what was
\* heard first stays, and whoever it concerns stays who it is.
Settled(c) ==
  /\ me'[c] = me[c]
  /\ \/ heard'[c] = heard[c]
     \/ phase[c] = "serving" /\ \E m : heard'[c] = Append(heard[c], m)
  /\ phase'[c] # "fresh"
  /\ phase'[c] = "authenticating" => phase[c] = "fresh" /\ script'[c] = script[c] /\ heard'[c] = heard[c]

LEMMA SettledStep ==
  ASSUME TypeInv, NEW c \in Conn, Actor(c) \/ Client(c),
         ~(LoginUser(c) \/ CheckName(c) \/ RegisterUser(c) \/ Authenticate(c))
  PROVE  Settled(c)
<1> USE HasEntries DEF Entries, Settled, LoggedIn
<1>1. CASE FetchGroups(c) \/ FetchUsers(c)
  BY <1>1, WhoAwaits DEF FetchGroups, FetchUsers, OnlyScript, Awaiting
<1>2. CASE PostToRouter(c) \/ PostToSelf(c)
  BY <1>2, WhoAwaits DEF PostToRouter, PostToSelf, Return, Awaiting
<1>3. CASE WriteToClient(c) \/ LoseWrite(c)
  <2>1. phase[c] \notin {"fresh", "authenticating"}
    <3>1. script[c] # <<>> /\ Head(script[c]).do = "toClient"
      BY <1>3 DEF WriteToClient, LoseWrite, WriteFails, Awaiting
    <3>2. Head(script[c]) \in AwaitAt(phase[c])
      BY <3>1, TailTypes DEF TypeInv, ScriptsFit
    <3> QED  BY <3>1, <3>2, AwaitKinds DEF AwaitAt
  <2> QED  BY <1>3, <2>1 DEF WriteToClient, LoseWrite, WriteFails, Return, Break
<1>4. CASE ReceiveRouted(c) \/ Request(c)
  BY <1>4 DEF ReceiveRouted, Request, HandleFrame, Idle
<1>5. CASE Invite(c) \/ AlertInvited(c) \/ NewGroup(c) \/ AddCreator(c)
  BY <1>5, WhoAwaits DEF Invite, AlertInvited, NewGroup, AddCreator, OnlyScript, Awaiting
<1>6. CASE FetchMembers(c) \/ FetchInfo(c) \/ SyncMessages(c)
  BY <1>6, WhoAwaits DEF FetchMembers, FetchInfo, SyncMessages, OnlyScript, Awaiting
<1>7. CASE Accept(c) \/ Disconnect(c)
  BY <1>7 DEF Accept, Disconnect, HangUp, NoFirstFrame, Break, Return, Idle
<1> QED  BY <1>1, <1>2, <1>3, <1>4, <1>5, <1>6, <1>7 DEF Actor, ConnStep, Client

\* The query an actor awaits is the one its first frame asked for.
LEMMA AuthQuery ==
  ASSUME TypeInv, NEW c \in Conn, Asked(c), script[c] # <<>>,
         Head(script[c]).do \in {"login", "nameCheck", "insertUser"}
  PROVE  /\ Head(script[c]) \in AuthAwait /\ script[c] = <<Head(script[c])>>
         /\ heard[c] = <<FrameOf(Head(script[c]))>>
         /\ heard[c][1].name = Head(script[c]).name
         /\ heard[c][1].type = IF Head(script[c]).do = "login" THEN "Login" ELSE "Register"
<1>1. phase[c] = "authenticating"
  BY WhoAwaits
<1>2. PICK q \in AuthAwait : script[c] = <<q>> /\ heard[c] = <<FrameOf(q)>>
  BY <1>1 DEF Asked
<1>3. Head(script[c]) = q
  BY <1>2
<1> QED  BY <1>2, <1>3 DEF FrameOf, Login, Register

LEMMA AskedNext ==
  ASSUME TypeInv, \A d \in Conn : Asked(d), NEW c \in Conn, Actor(c) \/ Client(c)
  PROVE  Asked(c)'
<1> USE HasEntries DEF Entries
<1>1. CASE LoginUser(c) \/ CheckName(c) \/ RegisterUser(c)
  <2> DEFINE q == Head(script[c])
  <2>1. script[c] # <<>> /\ q.do \in {"login", "nameCheck", "insertUser"}
    BY <1>1 DEF LoginUser, CheckName, RegisterUser, Awaiting
  <2>2. q \in AuthAwait /\ script[c] = <<q>> /\ heard[c] = <<FrameOf(q)>>
    BY <2>1, AuthQuery
  <2>3. CASE (\E u : Welcome(c, u)) \/ \E e : Reject(c, e)
    BY <2>3 DEF Welcome, Reject, Asked
  <2>4. CASE CheckName(c) /\ Continue(c, <<QueryAccount("insertUser", q.name, q.password)>>) /\ OnlyScript
    <3> DEFINE r == QueryAccount("insertUser", q.name, q.password)
    <3>1. script'[c] = <<r>> /\ heard'[c] = heard[c] /\ phase'[c] = phase[c]
      <4>1. script'[c] = <<r>> \o Tail(script[c]) /\ heard'[c] = heard[c] /\ phase'[c] = phase[c]
        BY <2>4 DEF Continue, OnlyScript
      <4>2. \A x, y : Tail(<<x>>) = <<>> /\ <<y>> \o Tail(<<x>>) = <<y>>
        OBVIOUS
      <4>3. <<r>> \o Tail(script[c]) = <<r>>
        BY <2>2, <4>2, Zenon
      <4> QED  BY <4>1, <4>3
    <3>2. r \in AuthAwait /\ FrameOf(q) = FrameOf(r)
      BY <2>1, <2>2, <2>4 DEF QueryAccount, AuthAwait, FrameOf, CheckName, Awaiting
    <3>3. phase[c] = "authenticating"
      BY <2>1, WhoAwaits
    <3> QED  BY <2>2, <3>1, <3>2, <3>3 DEF Asked
  <2> QED  BY <1>1, <2>3, <2>4 DEF LoginUser, CheckName, RegisterUser
<1>2. CASE Authenticate(c)
  <2>1. PICK m \in ClientMessage : FirstFrame(c, m)
    BY <1>2, RequestAssumption DEF Authenticate
  <2>2. heard[c] = <<>> /\ heard'[c] = <<m>>
    <3>1. /\ phase[c] = "authenticating" /\ script[c] = <<>>
          /\ heard'[c] = Append(heard[c], m)
      BY <2>1 DEF FirstFrame
    <3>2. heard[c] = <<>>
      BY <3>1 DEF Asked
    <3> QED  BY <3>1, <3>2
  <2>3. CASE m.type \in {"Login", "Register"}
    <3>1. m \in AuthMessage
      BY <2>3 DEF ClientMessage, AuthMessage, CreateGroup
    <3>2. PICK q \in {"login", "nameCheck"} :
            /\ script'[c] = <<QueryAccount(q, m.name, m.password)>>
            /\ m.type = IF q = "login" THEN "Login" ELSE "Register"
      BY <2>1, <2>3 DEF FirstFrame
    <3>3. /\ QueryAccount(q, m.name, m.password) \in AuthAwait
          /\ FrameOf(QueryAccount(q, m.name, m.password)) = m
      BY <3>1, <3>2 DEF QueryAccount, AuthAwait, AuthMessage, FrameOf, Login, Register
    <3>4. phase'[c] = "authenticating"
      BY <2>1, <2>3 DEF FirstFrame
    <3> QED  BY <2>2, <3>2, <3>3, <3>4 DEF Asked
  <2>4. CASE m.type \notin {"Login", "Register"}
    <3>1. phase'[c] = "rejecting"
      BY <2>1, <2>4 DEF FirstFrame
    <3> QED  BY <3>1 DEF Asked
  <2> QED  BY <2>3, <2>4
<1>3. CASE ~(LoginUser(c) \/ CheckName(c) \/ RegisterUser(c) \/ Authenticate(c))
  <2>1. Settled(c)
    BY <1>3, SettledStep
  <2>2. phase[c] = "fresh" => script[c] = <<>>
    <3>1. AwaitAt("fresh") = {} /\ script[c] \in Seq(AwaitAt(phase[c]))
      BY DEF TypeInv, ScriptsFit, AwaitAt
    <3> QED  BY <3>1
  <2> QED  BY <2>1, <2>2 DEF Settled, Asked
<1> QED  BY <1>1, <1>2, <1>3

\* What was heard first, and from whom, does not change.
LEMMA FirstHeardStays ==
  ASSUME TypeInv, \A d \in Conn : Asked(d), NEW c \in Conn, Actor(c) \/ Client(c),
         NEW d \in Conn, heard[d] # <<>>
  PROVE  heard'[d] # <<>> /\ heard'[d][1] = heard[d][1]
<1>1. CASE d # c
  BY <1>1, OthersStand DEF Aside
<1>2. heard[d] \in Seq(FirstFrames \cup Requests)
  BY HasEntries DEF Entries
<1>3. CASE d = c
  <2>1. CASE LoginUser(c) \/ CheckName(c) \/ RegisterUser(c)
    BY <1>3, <2>1 DEF LoginUser, CheckName, RegisterUser, Welcome, Reject, OnlyScript
  <2>2. ~Authenticate(c)
    BY <1>3 DEF Authenticate, FirstFrame, Asked
  <2>3. CASE Settled(c)
    BY <1>2, <1>3, <2>3 DEF Settled
  <2> QED  BY <2>1, <2>2, <2>3, SettledStep
<1> QED  BY <1>1, <1>3

\* Who was let in by a step, and how.
LEMMA LetIn ==
  ASSUME TypeInv, \A d \in Conn : Asked(d), NEW c \in Conn, Actor(c) \/ Client(c),
         me'[c] # me[c]
  PROVE  /\ heard[c] # <<>>
         /\ \/ /\ heard[c][1].type = "Login"
               /\ \E r \in users : r.id = me'[c] /\ r.name = heard[c][1].name
            \/ /\ heard[c][1].type = "Register"
               /\ me'[c] \notin RegisteredUsers
               /\ \E r \in users' : r.id = me'[c] /\ r.name = heard[c][1].name
<1> DEFINE q == Head(script[c])
<1> USE HasEntries DEF Entries
<1>1. ~Settled(c) /\ ~Authenticate(c) /\ ~CheckName(c)
  BY DEF Settled, Authenticate, FirstFrame, CheckName, Reject, OnlyScript
<1>2. CASE LoginUser(c)
  <2>1. script[c] # <<>> /\ q.do = "login"
    BY <1>2 DEF LoginUser, Awaiting
  <2>2. heard[c] # <<>> /\ heard[c][1].name = q.name /\ heard[c][1].type = "Login"
    BY <2>1, AuthQuery
  <2>3. PICK u \in Authenticated(q.name, q.password) : Welcome(c, u)
    BY <1>2 DEF LoginUser, Reject
  <2>4. me'[c] = u
    BY <2>3 DEF Welcome
  <2> QED  BY <2>2, <2>3, <2>4 DEF Authenticated
<1>3. CASE RegisterUser(c)
  <2>1. script[c] # <<>> /\ q.do = "insertUser"
    BY <1>3 DEF RegisterUser, Awaiting
  <2>2. heard[c] # <<>> /\ heard[c][1].name = q.name /\ heard[c][1].type = "Register"
    BY <2>1, AuthQuery
  <2>3. PICK u \in UserId \ RegisteredUsers :
          InsertUser(u, q.name, q.password) /\ Welcome(c, u)
    BY <1>3 DEF RegisterUser, Reject
  <2>4. me'[c] = u
    BY <2>3 DEF Welcome
  <2>5. [id |-> u, name |-> q.name, password |-> q.password] \in users'
    BY <2>3 DEF InsertUser
  <2>6. \E r \in users' : r.id = u /\ r.name = q.name
    BY <2>5
  <2> QED  BY <2>2, <2>3, <2>4, <2>6
<1> QED  BY <1>1, <1>2, <1>3, SettledStep

LEMMA IdentityByActor ==
  ASSUME TypeInv, SessionInv, IdentityInv, AccountsUnique', users \subseteq users',
         NEW c \in Conn, Actor(c) \/ Client(c)
  PROVE  IdentityInv'
<1> USE DEF IdentityInv
<1>1. \A d \in Conn \ {c} : Aside(d)
  BY OthersStand
<1>2. \A d \in Conn : Asked(d)'
  <2>1. ASSUME NEW d \in Conn \ {c} PROVE Asked(d)'
    BY <1>1 DEF Aside, Asked
  <2> QED  BY <2>1, AskedNext
<1>3. ASSUME NEW d \in Conn, me'[d] # NoUser
      PROVE  /\ heard[d] # <<>> /\ heard'[d] # <<>> /\ heard'[d][1] = heard[d][1]
             /\ \E r \in users' : r.id = me'[d] /\ r.name = heard[d][1].name
  <2>1. CASE me'[d] = me[d]
    BY <1>3, <2>1, FirstHeardStays DEF NamedAsHeard
  <2>2. CASE me'[d] # me[d]
    <3>1. d = c
      BY <1>1, <2>2 DEF Aside
    <3> QED  BY <2>2, <3>1, LetIn, FirstHeardStays
  <2> QED  BY <2>1, <2>2
<1>4. \A d \in Conn : NamedAsHeard(d)'
  BY <1>3 DEF NamedAsHeard
<1>5. ASSUME NEW a \in Conn, NEW b \in Conn, me'[a] # NoUser, a # b, me'[a] = me'[b],
             heard[a][1].type = "Register", heard[b][1].type = "Register"
      PROVE  FALSE
  <2>1. ASSUME NEW d \in Conn, me[d] # NoUser PROVE me[d] \in RegisteredUsers
    BY <2>1 DEF NamedAsHeard, RegisteredUsers
  <2>2. CASE me'[a] = me[a] /\ me'[b] = me[b]
    BY <1>5, <2>2 DEF RegisteredOnce
  <2>3. ASSUME NEW d \in Conn, NEW e \in Conn, d # e, me'[d] # me[d], me'[d] = me'[e], me'[d] # NoUser,
               heard[d][1].type = "Register"
        PROVE  FALSE
    <3>1. d = c /\ me'[e] = me[e]
      BY <1>1, <2>3 DEF Aside
    <3>2. me'[d] \notin RegisteredUsers
      BY <2>3, <3>1, LetIn
    <3> QED  BY <2>1, <2>3, <3>1, <3>2
  <2> QED  BY <1>5, <2>2, <2>3
<1>6. RegisteredOnce'
  BY <1>3, <1>5 DEF RegisteredOnce
<1> QED  BY <1>2, <1>4, <1>6

LEMMA IdentityInit == Init => IdentityInv
<1> SUFFICES ASSUME Init PROVE IdentityInv
  OBVIOUS
<1>1. AccountsUnique
  BY InitialTables DEF Init, DbInit, AccountsUnique
<1>2. RegisteredOnce /\ \A c \in Conn : Asked(c) /\ NamedAsHeard(c)
  BY DEF Init, ConnInit, RegisteredOnce, Asked, NamedAsHeard
<1> QED  BY <1>1, <1>2 DEF IdentityInv

LEMMA IdentityNext ==
  TypeInv /\ SessionInv /\ IdentityInv /\ AccountsUnique' /\ [Next]_vars => IdentityInv'
<1> SUFFICES ASSUME TypeInv, SessionInv, IdentityInv, AccountsUnique', [Next]_vars
             PROVE  IdentityInv'
  OBVIOUS
<1>1. users \subseteq users'
  BY OnlyRegistrationsAdd DEF RegisterUser, InsertUser, Reject, dbVars
<1>2. ASSUME NEW c \in Conn, Actor(c) \/ Client(c) PROVE IdentityInv'
  BY <1>1, <1>2, IdentityByActor
<1>3. CASE Crash
  <2>1. UNCHANGED <<me, heard, users>>
    BY <1>3 DEF Crash, dbVars
  <2>2. \A c \in Conn : Asked(c)'
    BY <1>3 DEF Crash, Asked, IdentityInv
  <2>3. RegisteredOnce' /\ \A c \in Conn : NamedAsHeard(c)'
    BY <2>1 DEF RegisteredOnce, NamedAsHeard, IdentityInv
  <2> QED  BY <2>2, <2>3 DEF IdentityInv
<1>4. CASE RouterTask \/ SaveTasks \/ Tick \/ UNCHANGED vars
  <2>1. UNCHANGED <<phase, me, script, heard>>
    BY <1>4 DEF RouterTask, SaveTasks, Tick, vars, connVars
  <2>2. \A c \in Conn : Asked(c)' /\ NamedAsHeard(c)'
    BY <1>1, <2>1 DEF Asked, NamedAsHeard, IdentityInv
  <2>3. RegisteredOnce'
    BY <2>1 DEF RegisteredOnce, IdentityInv
  <2> QED  BY <2>2, <2>3 DEF IdentityInv
<1> QED  BY <1>2, <1>3, <1>4 DEF Next

\* However many connections register and log in under the same names at once,
\* one name is one user, and at most one of those who registered it was let in.
THEOREM IdentitiesAgree == Spec => []IdentityAgreement
<1>1. IdentityInv => IdentityAgreement
  <2> SUFFICES ASSUME IdentityInv,
                      NEW c \in Conn, NEW d \in Conn, me[c] # NoUser, me[d] # NoUser
               PROVE  /\ heard[c][1].name = heard[d][1].name <=> me[c] = me[d]
                      /\ (c # d /\ me[c] = me[d]) =>
                           ~(heard[c][1].type = "Register" /\ heard[d][1].type = "Register")
    BY DEF IdentityAgreement
  <2>1. /\ \E r \in users : r.id = me[c] /\ r.name = heard[c][1].name
        /\ \E r \in users : r.id = me[d] /\ r.name = heard[d][1].name
    BY DEF IdentityInv, NamedAsHeard
  <2>2. heard[c][1].name = heard[d][1].name <=> me[c] = me[d]
    BY <2>1 DEF IdentityInv, AccountsUnique
  <2> QED  BY <2>2 DEF IdentityInv, RegisteredOnce
<1> QED  BY TypesHold, BackedInit, FoundedNext, SessionInit, PostsFirstNext, SessionNext,
            IdentityInit, IdentityNext, AccountsStayUnique, <1>1, PTL DEF Spec

-----------------------------------------------------------------------------
(* The greeting is kept.                                                   *)

LEMMA SameSeq ==
  ASSUME NEW S, NEW s \in Seq(S), NEW t \in Seq(S), Len(s) = Len(t), \A i \in DOMAIN s : s[i] = t[i]
  PROVE  s = t
OBVIOUS

LEMMA Appended ==
  ASSUME NEW S, NEW s \in Seq(S), NEW e
  PROVE  /\ Len(s) \in Nat /\ DOMAIN s = 1 .. Len(s)
         /\ Len(Append(s, e)) = Len(s) + 1 /\ DOMAIN Append(s, e) = 1 .. Len(s) + 1
         /\ \A i \in DOMAIN s : Append(s, e)[i] = s[i]
         /\ Append(s, e)[Len(s) + 1] = e
<1>1. s \in Seq(S \cup {e}) /\ e \in S \cup {e}
  OBVIOUS
<1> QED  BY <1>1

LEMMA Tails ==
  /\ \A a : Tail(<<a>>) = <<>>
  /\ \A a, b : Tail(<<a, b>>) = <<b>>
  /\ \A a, b, d : Tail(<<a, b, d>>) = <<b, d>>
  /\ \A a, b, d, e : Tail(<<a, b, d, e>>) = <<b, d, e>>
OBVIOUS

LEMMA Pairs ==
  ASSUME NEW a, NEW b
  PROVE  Append(<<a>>, b) = <<a, b>>
<1> DEFINE S == {a, b}
           s == Append(<<a>>, b)
<1>1. <<a>> \in Seq(S) /\ <<a, b>> \in Seq(S) /\ b \in S /\ Len(<<a>>) = 1 /\ <<a>>[1] = a
  OBVIOUS
<1>2. s \in Seq(S)
  BY <1>1, AppendTypes
<1>3. Len(s) = 2 /\ s[1] = a /\ s[2] = b /\ DOMAIN s = 1 .. 2
  BY <1>1, Appended
<1> HIDE DEF S, s
<1>4. Len(s) = Len(<<a, b>>) /\ \A i \in DOMAIN s : s[i] = <<a, b>>[i]
  BY <1>3
<1>5. s = <<a, b>>
  BY <1>1, <1>2, <1>4, SameSeq
<1> QED  BY <1>5 DEF s

LEMMA Triples ==
  ASSUME NEW a, NEW b, NEW d
  PROVE  Append(<<a, b>>, d) = <<a, b, d>>
<1> DEFINE S == {a, b, d}
           s == Append(<<a, b>>, d)
<1>1. /\ <<a, b>> \in Seq(S) /\ <<a, b, d>> \in Seq(S) /\ d \in S
      /\ Len(<<a, b>>) = 2 /\ <<a, b>>[1] = a /\ <<a, b>>[2] = b
  OBVIOUS
<1>2. s \in Seq(S)
  BY <1>1, AppendTypes
<1>3. Len(s) = 3 /\ s[1] = a /\ s[2] = b /\ s[3] = d /\ DOMAIN s = 1 .. 3
  BY <1>1, Appended
<1> HIDE DEF S, s
<1>4. Len(s) = Len(<<a, b, d>>) /\ \A i \in DOMAIN s : s[i] = <<a, b, d>>[i]
  BY <1>3
<1>5. s = <<a, b, d>>
  BY <1>1, <1>2, <1>4, SameSeq
<1> QED  BY <1>5 DEF s

LEMMA ConcatEmpty ==
  ASSUME NEW S, NEW s \in Seq(S)
  PROVE  s \o <<>> = s /\ <<>> \o s = s
OBVIOUS

\* Where an actor is in its greeting, by what it awaits.
Greets(c) ==
  LET q    == Head(script[c])
      auth == AuthSuccess(me[c])
  IN  \E gs \in SUBSET GroupId :
        \/ q.do = "fetchGroups" /\ Tail(script[c]) = <<>> /\ wire[c] = <<>>
        \/ /\ q.do = "toRouter" /\ q.event.type = "UserConnected" /\ wire[c] = <<>>
           /\ Tail(script[c]) = <<ToClient(auth), ToClient(GroupsList(gs)), Query("fetchUsers")>>
        \/ /\ q.do = "toClient" /\ q.msg = auth /\ wire[c] = <<>>
           /\ Tail(script[c]) = <<ToClient(GroupsList(gs)), Query("fetchUsers")>>
        \/ /\ q.do = "toClient" /\ q.msg = GroupsList(gs) /\ wire[c] = <<auth>>
           /\ Tail(script[c]) = <<Query("fetchUsers")>>
        \/ q.do = "fetchUsers" /\ Tail(script[c]) = <<>> /\ wire[c] = <<auth, GroupsList(gs)>>
        \/ /\ q.do = "toClient" /\ \E us \in SUBSET UserId : q.msg = UsersList(us)
           /\ Tail(script[c]) = <<>> /\ wire[c] = <<auth, GroupsList(gs)>>

LEMMA GreetsOne ==
  ASSUME NEW c \in Conn, Begun(c)
  PROVE  script[c] # <<>> /\ Greets(c)
<1>1. PICK gs \in SUBSET GroupId :
        \/ script[c] = <<Query("fetchGroups")>> /\ wire[c] = <<>>
        \/ script[c] = Greeting(me[c], gs, c) /\ wire[c] = <<>>
        \/ /\ script[c] = <<ToClient(AuthSuccess(me[c])), ToClient(GroupsList(gs)), Query("fetchUsers")>>
           /\ wire[c] = <<>>
        \/ /\ script[c] = <<ToClient(GroupsList(gs)), Query("fetchUsers")>>
           /\ wire[c] = <<AuthSuccess(me[c])>>
        \/ /\ script[c] = <<Query("fetchUsers")>>
           /\ wire[c] = <<AuthSuccess(me[c]), GroupsList(gs)>>
        \/ \E us \in SUBSET UserId :
             /\ script[c] = <<ToClient(UsersList(us))>>
             /\ wire[c] = <<AuthSuccess(me[c]), GroupsList(gs)>>
  BY DEF Begun
<1> DEFINE q == Head(script[c])
<1>2. CASE script[c] = <<Query("fetchGroups")>> /\ wire[c] = <<>>
  <2>1. q = Query("fetchGroups") /\ Tail(script[c]) = <<>> /\ script[c] # <<>>
    BY <1>2
  <2> QED  BY <1>2, <2>1 DEF Greets, Query
<1>3. CASE script[c] = Greeting(me[c], gs, c) /\ wire[c] = <<>>
  <2>1. /\ q = ToRouter(UserConnected(me[c], gs, c)) /\ script[c] # <<>>
        /\ Tail(script[c]) = <<ToClient(AuthSuccess(me[c])), ToClient(GroupsList(gs)), Query("fetchUsers")>>
    BY <1>3, Tails DEF Greeting
  <2> QED  BY <1>3, <2>1 DEF Greets, ToRouter, UserConnected
<1>4. CASE /\ script[c] = <<ToClient(AuthSuccess(me[c])), ToClient(GroupsList(gs)), Query("fetchUsers")>>
           /\ wire[c] = <<>>
  <2>1. /\ q = ToClient(AuthSuccess(me[c])) /\ script[c] # <<>>
        /\ Tail(script[c]) = <<ToClient(GroupsList(gs)), Query("fetchUsers")>>
    BY <1>4, Tails
  <2> QED  BY <1>4, <2>1 DEF Greets, ToClient
<1>5. CASE /\ script[c] = <<ToClient(GroupsList(gs)), Query("fetchUsers")>>
           /\ wire[c] = <<AuthSuccess(me[c])>>
  <2>1. /\ q = ToClient(GroupsList(gs)) /\ script[c] # <<>>
        /\ Tail(script[c]) = <<Query("fetchUsers")>>
    BY <1>5, Tails
  <2> QED  BY <1>5, <2>1 DEF Greets, ToClient
<1>6. CASE /\ script[c] = <<Query("fetchUsers")>>
           /\ wire[c] = <<AuthSuccess(me[c]), GroupsList(gs)>>
  <2>1. q = Query("fetchUsers") /\ Tail(script[c]) = <<>> /\ script[c] # <<>>
    BY <1>6
  <2> QED  BY <1>6, <2>1 DEF Greets, Query
<1>7. CASE \E us \in SUBSET UserId :
             /\ script[c] = <<ToClient(UsersList(us))>>
             /\ wire[c] = <<AuthSuccess(me[c]), GroupsList(gs)>>
  <2>1. PICK us \in SUBSET UserId : script[c] = <<ToClient(UsersList(us))>>
    BY <1>7
  <2>2. q = ToClient(UsersList(us)) /\ Tail(script[c]) = <<>> /\ script[c] # <<>>
    BY <2>1
  <2> QED  BY <1>7, <2>2 DEF Greets, ToClient
<1> QED  BY <1>1, <1>2, <1>3, <1>4, <1>5, <1>6, <1>7

\* A part of the greeting is in order, and so is all of it.
LEMMA PartsInOrder ==
  /\ GreetedInOrder(<<>>)
  /\ \A u : GreetedInOrder(<<AuthSuccess(u)>>)
  /\ \A u, gs : GreetedInOrder(<<AuthSuccess(u), GroupsList(gs)>>)
  /\ \A u, gs, us : GreetedInOrder(<<AuthSuccess(u), GroupsList(gs), UsersList(us)>>)
BY DEF GreetedInOrder, AuthSuccess, GroupsList, UsersList

LEMMA GreetedSoFar ==
  ASSUME NEW c \in Conn, Begun(c)
  PROVE  GreetedInOrder(wire[c])
<1>1. Greets(c)
  BY GreetsOne
<1>2. \/ wire[c] = <<>>
      \/ wire[c] = <<AuthSuccess(me[c])>>
      \/ \E gs : wire[c] = <<AuthSuccess(me[c]), GroupsList(gs)>>
  BY <1>1 DEF Greets
<1> QED  BY <1>2, PartsInOrder

\* Once the greeting is complete, any other message may follow.
LEMMA OrderKept ==
  ASSUME NEW ms \in Seq(ServerMessage), Len(ms) >= 3, GreetedInOrder(ms), NEW m \in Late
  PROVE  Len(Append(ms, m)) >= 3 /\ GreetedInOrder(Append(ms, m))
<1>1. /\ Len(Append(ms, m)) = Len(ms) + 1 /\ DOMAIN Append(ms, m) = 1 .. Len(ms) + 1
      /\ \A i \in DOMAIN ms : Append(ms, m)[i] = ms[i]
      /\ Append(ms, m)[Len(ms) + 1] = m
      /\ DOMAIN ms = 1 .. Len(ms) /\ Len(ms) \in Nat
  BY Appended
<1>2. ASSUME NEW i \in DOMAIN Append(ms, m)
      PROVE  IF i <= 3 THEN Append(ms, m)[i].type = <<"AuthSuccess", "GroupsList", "UsersList">>[i]
                       ELSE Append(ms, m)[i].type \notin GreetingType
  <2>1. CASE i \in DOMAIN ms
    BY <1>1, <2>1 DEF GreetedInOrder
  <2>2. CASE i = Len(ms) + 1
    BY <1>1, <2>2 DEF Late
  <2> QED  BY <1>1, <2>1, <2>2
<1> QED  BY <1>1, <1>2 DEF GreetedInOrder

\* What the handlers of the loop go on to do says nothing of the greeting.
LEMMA LateAwaits ==
  /\ \A m \in Late : ToSelf(m) \in LateAwait /\ ToClient(m) \in LateAwait
  /\ \A e \in LateEvent : e.type # "UserConnected" => ToRouter(e) \in LateAwait
  /\ \A g \in GroupId, u \in UserId : QueryMember("groupName", g, u) \in LateAwait
  /\ \A g \in GroupId : QueryGroup("insertCreator", g) \in LateAwait
  /\ \A g \in GroupId : GroupCreated(g) \in Late /\ AddedToGroup(g) \in Late /\ GroupInfo(g) \in Late
  /\ \A g \in GroupId, us \in SUBSET UserId : GroupMembersList(g, us) \in Late
  /\ \A e \in ServerError : Error(e) \in Late
  /\ \A b \in Seq(ChatMessage) : SyncBatch(b) \in Late
  /\ \A u \in UserId, on \in BOOLEAN : Presence(u, on) \in Late
<1> USE MessageTypes, AwaitTypes
<1>1. \A m \in Late : ToSelf(m) \in LateAwait /\ ToClient(m) \in LateAwait
  BY DEF Late, LateAwait, LoopAwait, ToSelf, ToClient
<1>2. \A e \in LateEvent : e.type # "UserConnected" => ToRouter(e) \in LateAwait
  BY DEF LateEvent, LateAwait, LoopAwait, ToRouter
<1>3. /\ \A g \in GroupId, u \in UserId : QueryMember("groupName", g, u) \in LateAwait
      /\ \A g \in GroupId : QueryGroup("insertCreator", g) \in LateAwait
  BY DEF LateAwait, LoopAwait, QueryMember, QueryGroup
<1>4. /\ \A g \in GroupId : GroupCreated(g) \in Late /\ AddedToGroup(g) \in Late /\ GroupInfo(g) \in Late
      /\ \A g \in GroupId, us \in SUBSET UserId : GroupMembersList(g, us) \in Late
      /\ \A e \in ServerError : Error(e) \in Late
      /\ \A b \in Seq(ChatMessage) : SyncBatch(b) \in Late
      /\ \A u \in UserId, on \in BOOLEAN : Presence(u, on) \in Late
  BY DEF Late, GreetingType, GroupCreated, AddedToGroup, GroupInfo, GroupMembersList, Error,
         SyncBatch, Presence
<1> QED  BY <1>1, <1>2, <1>3, <1>4

LEMMA LateHandler ==
  ASSUME NEW u \in UserId, NEW m \in ClientMessage, clock \in Timestamp
  PROVE  Handler(u, m) \in Seq(LateAwait)
<1>1. Handler(u, m) \in Seq(LoopAwait)
  BY HandlerTypes
<1>2. PICK a : /\ Handler(u, m) = <<a>> /\ a.do \notin {"fetchGroups", "fetchUsers"}
               /\ a.do \in {"toSelf", "toClient"} => a.msg.type = "Error"
               /\ a.do = "toRouter" => a.event.type = "RouteMessage" /\ a.event.message.type = "NewMessage"
  BY DEF Handler, SendSteps, Outgoing, ClientMessage, AuthMessage, CreateGroup, ToSelf, ToRouter,
         RouteMessage, NewMessage, Error, Query, QueryGroup, QueryMember, QuerySince
<1>3. a \in Await
  BY <1>1, <1>2 DEF LoopAwait
<1>4. /\ a.do \in {"toSelf", "toClient"} => a.msg \in ServerMessage
      /\ a.do = "toRouter" /\ a.event.type = "RouteMessage" => a.event.message \in ServerMessage
  BY <1>3, AwaitFields DEF RouterEvent
<1>5. a \in LateAwait
  BY <1>2, <1>3, <1>4 DEF LateAwait, Late, GreetingType
<1> QED  BY <1>2, <1>5

\* In its loop an actor only ever adds late awaits.
LEMMA LoopStep ==
  ASSUME TypeInv, NEW c \in Conn, UNCHANGED <<clock, crashes>>,
         phase[c] = "serving", script[c] \in Seq(LateAwait), chan[c] \in Seq(Late),
         \/ Invite(c) \/ AlertInvited(c) \/ NewGroup(c) \/ AddCreator(c) \/ FetchMembers(c)
         \/ FetchInfo(c) \/ SyncMessages(c) \/ ReceiveRouted(c) \/ Request(c)
  PROVE  /\ script'[c] \in Seq(LateAwait) /\ phase'[c] = "serving"
         /\ wire'[c] = wire[c] /\ me'[c] = me[c] /\ chan'[c] \in Seq(Late)
         /\ UNCHANGED rxq
<1> DEFINE q == Head(script[c])
<1> USE HasEntries DEF Entries
<1>1. me[c] \in UserId /\ clock \in Timestamp
  BY DEF TypeInv, TypeOK, UsersKnown, LoggedIn
<1>2. ASSUME script[c] # <<>>, NEW steps \in Seq(LateAwait), Continue(c, steps), OnlyScript
      PROVE  /\ script'[c] \in Seq(LateAwait) /\ phase'[c] = "serving"
             /\ wire'[c] = wire[c] /\ me'[c] = me[c] /\ chan'[c] \in Seq(Late)
             /\ UNCHANGED rxq
  <2>1. Tail(script[c]) \in Seq(LateAwait)
    BY <1>2, TailTypes
  <2>2. steps \o Tail(script[c]) \in Seq(LateAwait)
    BY <1>2, <2>1, ConcatTypes
  <2> QED  BY <1>2, <2>2 DEF Continue, OnlyScript, chanVars, routerVars
<1>3. ASSUME script[c] # <<>>
      PROVE  /\ q.do \in {"insertMember", "groupName"} => q.group \in GroupId /\ q.user \in UserId
             /\ q.do \in {"insertCreator", "fetchMembers", "groupInfo"} => q.group \in GroupId
  BY <1>3, WhoAwaits, AwaitFields
<1> DEFINE Goes == /\ script'[c] \in Seq(LateAwait) /\ phase'[c] = "serving"
                   /\ wire'[c] = wire[c] /\ me'[c] = me[c] /\ chan'[c] \in Seq(Late)
                   /\ UNCHANGED rxq
<1>13. script[c] # <<>> /\ Continue(c, <<>>) /\ OnlyScript => Goes
  <2>1. <<>> \in Seq(LateAwait)
    OBVIOUS
  <2> QED  BY <1>2, <2>1
<1>4. CASE Invite(c)
  <2>1. script[c] # <<>> /\ q.group \in GroupId /\ q.user \in UserId
    BY <1>3, <1>4 DEF Invite, Awaiting
  <2>2. UserJoinedGroup(q.user, q.group) \in LateEvent
        /\ UserJoinedGroup(q.user, q.group).type = "UserJoinedGroup"
    BY <2>1, EventTypes DEF LateEvent, UserJoinedGroup
  <2>3. JoinedSteps(q.group, q.user) \in Seq(LateAwait)
    BY <2>1, <2>2, LateAwaits DEF JoinedSteps
  <2> QED  BY <1>2, <1>4, <1>13, <2>1, <2>3 DEF Invite
<1>5. CASE AlertInvited(c)
  <2>1. script[c] # <<>> /\ q.group \in GroupId /\ q.user \in UserId
    BY <1>3, <1>5 DEF AlertInvited, Awaiting
  <2> DEFINE e == RouteMessage(me[c], UserTarget(q.user), AddedToGroup(q.group))
  <2>2. e \in RouterEvent
    BY <1>1, <2>1, EventTypes, TargetTypes, MessageTypes
  <2>3. e \in LateEvent /\ e.type = "RouteMessage"
    BY <2>1, <2>2, LateAwaits DEF LateEvent, RouteMessage
  <2>4. <<ToRouter(e)>> \in Seq(LateAwait)
    BY <2>3, LateAwaits
  <2> QED  BY <1>2, <1>5, <1>13, <2>1, <2>4 DEF AlertInvited
<1>6. CASE NewGroup(c)
  <2>1. \A g \in GroupId : <<QueryGroup("insertCreator", g)>> \in Seq(LateAwait)
    BY LateAwaits
  <2> QED  BY <1>2, <1>6, <1>13, <2>1 DEF NewGroup, Awaiting
<1>7. CASE AddCreator(c)
  <2>1. script[c] # <<>> /\ q.group \in GroupId
    BY <1>3, <1>7 DEF AddCreator, Awaiting
  <2>2. UserJoinedGroup(me[c], q.group) \in LateEvent
        /\ UserJoinedGroup(me[c], q.group).type = "UserJoinedGroup"
    BY <1>1, <2>1, EventTypes DEF LateEvent, UserJoinedGroup
  <2>3. CreatedSteps(me[c], q.group) \in Seq(LateAwait)
    BY <2>1, <2>2, LateAwaits DEF CreatedSteps
  <2> QED  BY <1>2, <1>7, <2>1, <2>3 DEF AddCreator
<1>8. CASE FetchMembers(c)
  <2>1. script[c] # <<>> /\ q.group \in GroupId
    BY <1>3, <1>8 DEF FetchMembers, Awaiting
  <2>2. <<ToSelf(GroupMembersList(q.group, MembersOf(q.group)))>> \in Seq(LateAwait)
    BY <2>1, LateAwaits, TableQueries
  <2> QED  BY <1>2, <1>8, <1>13, <2>1, <2>2 DEF FetchMembers
<1>9. CASE FetchInfo(c)
  <2>1. script[c] # <<>> /\ q.group \in GroupId
    BY <1>3, <1>9 DEF FetchInfo, Awaiting
  <2>2. /\ <<ToSelf(GroupInfo(q.group))>> \in Seq(LateAwait)
        /\ <<ToSelf(Error("GroupNotFound"))>> \in Seq(LateAwait)
        /\ <<ToSelf(Error("InternalError"))>> \in Seq(LateAwait)
    BY <2>1, LateAwaits DEF ServerError
  <2> QED  BY <1>2, <1>9, <2>1, <2>2 DEF FetchInfo
<1>10. CASE SyncMessages(c)
  <2>1. ASSUME NEW b \in HistoryBatches(me[c], q.since)
        PROVE  <<ToSelf(SyncBatch(b))>> \in Seq(LateAwait)
    BY BatchTypes, LateAwaits
  <2> QED  BY <1>2, <1>10, <1>13, <2>1 DEF SyncMessages, Awaiting
<1>11. CASE ReceiveRouted(c)
  <2>1. Head(chan[c]) \in Late /\ Tail(chan[c]) \in Seq(Late)
    BY <1>11, TailTypes DEF ReceiveRouted
  <2>2. <<ToClient(Head(chan[c]))>> \in Seq(LateAwait)
    BY <2>1, LateAwaits
  <2> QED  BY <1>11, <2>1, <2>2 DEF ReceiveRouted, routerVars
<1>12. CASE Request(c)
  <2>1. PICK m \in ClientMessage : HandleFrame(c, m)
    BY <1>12, RequestAssumption DEF Request
  <2>2. Handler(me[c], m) \in Seq(LateAwait)
    BY <1>1, LateHandler
  <2> QED  BY <2>1, <2>2 DEF HandleFrame, routerVars, chanVars
<1> QED  BY <1>4, <1>5, <1>6, <1>7, <1>8, <1>9, <1>10, <1>11, <1>12

\* What an actor awaits tells where it is.
LEMMA WhereAwaits ==
  ASSUME TypeInv, SessionInv, NEW c \in Conn, Stage(c), script[c] # <<>>
  PROVE  LET do == Head(script[c]).do IN
         /\ phase[c] \in {"authenticating", "rejecting", "greeting", "serving", "leaving"}
         /\ do \in {"login", "nameCheck", "insertUser"} <=> phase[c] = "authenticating"
         /\ phase[c] = "greeting" => do \in {"fetchGroups", "fetchUsers", "toRouter", "toClient"}
         /\ phase[c] = "serving" => script[c] \in Seq(LateAwait) /\ Head(script[c]) \in LateAwait
                                      /\ Tail(script[c]) \in Seq(LateAwait)
         /\ phase[c] = "leaving" => do = "toRouter" /\ Head(script[c]).event = UserDisconnected(me[c])
         /\ phase[c] = "rejecting" => do = "toClient"
<1>1. phase[c] \in Phase /\ Head(script[c]) \in AwaitAt(phase[c])
  BY TailTypes DEF TypeInv, TypeOK, ConnOK, ScriptsFit
<1>2. phase[c] \notin {"fresh", "closed"}
  BY <1>1 DEF AwaitAt
<1>3. Head(script[c]).do \in {"login", "nameCheck", "insertUser"} <=> phase[c] = "authenticating"
  BY <1>1, <1>2, AwaitKinds DEF AwaitAt, Phase
<1>4. phase[c] = "greeting" =>
        Head(script[c]).do \in {"fetchGroups", "fetchUsers", "toRouter", "toClient"}
  <2> SUFFICES ASSUME phase[c] = "greeting"
               PROVE  Head(script[c]).do \in {"fetchGroups", "fetchUsers", "toRouter", "toClient"}
    OBVIOUS
  <2>1. Greets(c)
    BY GreetsOne DEF Stage
  <2> QED  BY <2>1 DEF Greets
<1>5. phase[c] = "serving" => script[c] \in Seq(LateAwait) /\ Head(script[c]) \in LateAwait
                                /\ Tail(script[c]) \in Seq(LateAwait)
  BY TailTypes DEF Stage
<1>6. phase[c] = "leaving" =>
        Head(script[c]).do = "toRouter" /\ Head(script[c]).event = UserDisconnected(me[c])
  <2> SUFFICES ASSUME phase[c] = "leaving"
               PROVE  Head(script[c]).do = "toRouter" /\ Head(script[c]).event = UserDisconnected(me[c])
    OBVIOUS
  <2>1. script[c] = <<ToRouter(UserDisconnected(me[c]))>>
    BY DEF SessionInv, LeavesLast
  <2> QED  BY <2>1 DEF ToRouter
<1>7. phase[c] = "rejecting" => Head(script[c]).do = "toClient"
  BY <1>1, AwaitKinds DEF AwaitAt
<1> QED  BY <1>1, <1>2, <1>3, <1>4, <1>5, <1>6, <1>7 DEF Phase

\* The stage after a step, its channel, and what it has posted.
Onward(c) ==
  /\ Stage(c)'
  /\ chan'[c] \in Seq(Late)
  /\ rxq' = rxq \/ \E e \in LateEvent : rxq' = Append(rxq, e)

LEMMA StageOfAccount ==
  ASSUME TypeInv, SessionInv, NEW c \in Conn, Stage(c), chan[c] \in Seq(Late),
         LoginUser(c) \/ CheckName(c) \/ RegisterUser(c)
  PROVE  Onward(c)
<1> USE HasEntries DEF Entries
<1>1. script[c] # <<>> /\ Head(script[c]).do \in {"login", "nameCheck", "insertUser"}
  BY DEF LoginUser, CheckName, RegisterUser, Awaiting
<1>2. phase[c] = "authenticating" /\ wire[c] = <<>>
  BY <1>1, WhereAwaits DEF Stage
<1>3. UNCHANGED <<rxq, chan, wire>>
  BY DEF LoginUser, CheckName, RegisterUser, Welcome, Reject, OnlyScript, routerVars, chanVars
<1>4. CASE \E e \in ServerError : Reject(c, e)
  BY <1>2, <1>3, <1>4 DEF Reject, Onward, Stage
<1>5. CASE \E u : Welcome(c, u)
  <2>1. script'[c] = <<Query("fetchGroups")>> /\ phase'[c] = "greeting"
    BY <1>5 DEF Welcome
  <2>2. Begun(c)'
    BY <1>2, <1>3, <2>1 DEF Begun
  <2> QED  BY <1>3, <2>1, <2>2 DEF Onward, Stage
<1>6. CASE OnlyScript
  BY <1>2, <1>3, <1>6 DEF OnlyScript, Onward, Stage
<1> QED  BY <1>4, <1>5, <1>6 DEF LoginUser, CheckName, RegisterUser, ServerError

LEMMA StageOfQuery ==
  ASSUME TypeInv, SessionInv, NEW c \in Conn, Stage(c), chan[c] \in Seq(Late),
         FetchGroups(c) \/ FetchUsers(c)
  PROVE  Onward(c)
<1> USE HasEntries DEF Entries
<1> DEFINE q == Head(script[c])
<1>1. script[c] # <<>> /\ q.do \in {"fetchGroups", "fetchUsers"}
  BY DEF FetchGroups, FetchUsers, Awaiting
<1>2. phase[c] = "greeting"
  BY <1>1, WhereAwaits DEF LateAwait
<1>3. Greets(c)
  BY <1>2, GreetsOne DEF Stage
<1>4. UNCHANGED <<rxq, chan, wire, phase, me>>
  BY DEF FetchGroups, FetchUsers, OnlyScript, routerVars, chanVars
<1>5. CASE FetchGroups(c)
  <2>1. q.do = "fetchGroups"
    BY <1>5 DEF FetchGroups, Awaiting
  <2>2. Tail(script[c]) = <<>> /\ wire[c] = <<>>
    BY <1>3, <2>1 DEF Greets
  <2>3. PICK gs \in SUBSET GroupId : Continue(c, Greeting(me[c], gs, c))
    BY <1>5, TableQueries DEF FetchGroups
  <2>4. script'[c] = Greeting(me[c], gs, c) \o Tail(script[c])
    BY <2>3 DEF Continue
  <2>5. Greeting(me[c], gs, c) \o <<>> = Greeting(me[c], gs, c)
    BY DEF Greeting
  <2>6. script'[c] = Greeting(me'[c], gs, c) /\ wire'[c] = <<>>
    BY <1>4, <2>2, <2>4, <2>5 DEF Greeting
  <2>7. Begun(c)'
    BY <2>6 DEF Begun, Greeting
  <2> QED  BY <1>2, <1>4, <2>7 DEF Onward, Stage
<1>6. CASE FetchUsers(c)
  <2>1. q.do = "fetchUsers"
    BY <1>6 DEF FetchUsers, Awaiting
  <2>2. PICK gs \in SUBSET GroupId : wire[c] = <<AuthSuccess(me[c]), GroupsList(gs)>>
    BY <1>3, <2>1 DEF Greets
  <2>3. Tail(script[c]) = <<>>
    BY <1>3, <2>1 DEF Greets
  <2>4. PICK us \in SUBSET UserId : Continue(c, <<ToClient(UsersList(us))>>)
    BY <1>6, TableQueries DEF FetchUsers
  <2>5. script'[c] = <<ToClient(UsersList(us))>> \o Tail(script[c])
    BY <2>4 DEF Continue
  <2>6. \A x : <<x>> \o <<>> = <<x>>
    OBVIOUS
  <2>7. script'[c] = <<ToClient(UsersList(us))>>
    BY <2>3, <2>5, <2>6
  <2>8. wire'[c] = <<AuthSuccess(me'[c]), GroupsList(gs)>>
    BY <1>4, <2>2
  <2>9. Begun(c)'
    BY <2>7, <2>8 DEF Begun
  <2> QED  BY <1>2, <1>4, <2>9 DEF Onward, Stage
<1> QED  BY <1>5, <1>6

LEMMA StageOfPost ==
  ASSUME TypeInv, SessionInv, NEW c \in Conn, Stage(c), chan[c] \in Seq(Late),
         PostToRouter(c) \/ PostToSelf(c)
  PROVE  Onward(c)
<1> USE HasEntries DEF Entries
<1> DEFINE q == Head(script[c])
<1>1. script[c] # <<>> /\ q.do \in {"toRouter", "toSelf"} /\ q \in Await
  BY WhoAwaits DEF PostToRouter, PostToSelf, Awaiting
<1>2. phase[c] \in {"greeting", "serving", "leaving"}
  BY <1>1, WhereAwaits
<1>3. UNCHANGED <<wire, me>>
  BY DEF PostToRouter, PostToSelf
<1>4. CASE PostToRouter(c)
  <2>1. q.do = "toRouter" /\ rxq' = Append(rxq, q.event) /\ q.event \in RouterEvent
    BY <1>1, <1>4, AwaitFields DEF PostToRouter, Awaiting
  <2>2. CASE phase[c] = "leaving"
    <3>1. q.event \in LateEvent
      <4>1. q.event = UserDisconnected(me[c])
        BY <1>1, <2>2, WhereAwaits
      <4>2. q.event.type = "UserDisconnected"
        BY <4>1 DEF UserDisconnected
      <4> QED  BY <2>1, <4>2 DEF LateEvent
    <3>2. phase'[c] = "closed" /\ chan'[c] = <<>>
      BY <1>4, <2>2 DEF PostToRouter, Return
    <3> QED  BY <1>3, <2>1, <2>2, <3>1, <3>2 DEF Onward, Stage
  <2>3. CASE phase[c] # "leaving"
    <3>1. phase'[c] = phase[c] /\ chan'[c] = chan[c] /\ script'[c] = <<>> \o Tail(script[c])
      BY <1>4, <2>3 DEF PostToRouter, chanVars, Continue
    <3>2. script'[c] = Tail(script[c])
      <4>1. Tail(script[c]) \in Seq(Await)
        BY <1>1, TailTypes
      <4> QED  BY <3>1, <4>1, ConcatEmpty
    <3>3. CASE phase[c] = "serving"
      <4>1. q \in LateAwait /\ Tail(script[c]) \in Seq(LateAwait)
        BY <1>1, <3>3, WhereAwaits
      <4>2. q.event \in LateEvent
        BY <2>1, <4>1 DEF LateAwait, LateEvent
      <4> QED  BY <1>3, <2>1, <3>1, <3>2, <3>3, <4>1, <4>2 DEF Onward, Stage
    <3>4. CASE phase[c] = "greeting"
      <4>1. Greets(c)
        BY <3>4, GreetsOne DEF Stage
      <4>2. q.event.type = "UserConnected" /\ wire[c] = <<>>
        BY <2>1, <4>1 DEF Greets
      <4>3. PICK gs \in SUBSET GroupId :
              Tail(script[c]) = <<ToClient(AuthSuccess(me[c])), ToClient(GroupsList(gs)), Query("fetchUsers")>>
        BY <2>1, <4>1 DEF Greets
      <4>4. script'[c] = <<ToClient(AuthSuccess(me'[c])), ToClient(GroupsList(gs)), Query("fetchUsers")>>
        BY <1>3, <3>2, <4>3
      <4>5. Begun(c)'
        BY <1>3, <4>2, <4>4 DEF Begun
      <4>6. q.event \in LateEvent
        BY <2>1, <4>2 DEF LateEvent
      <4> QED  BY <2>1, <3>1, <3>4, <4>5, <4>6 DEF Onward, Stage
    <3> QED  BY <1>2, <2>3, <3>3, <3>4
  <2> QED  BY <2>2, <2>3
<1>5. CASE PostToSelf(c)
  <2>1. q.do = "toSelf"
    BY <1>5 DEF PostToSelf, Awaiting
  <2>2. phase[c] = "serving"
    BY <1>1, <1>2, <2>1, WhereAwaits
  <2>3. q \in LateAwait /\ Tail(script[c]) \in Seq(LateAwait)
    BY <1>1, <2>2, WhereAwaits
  <2>4. chan'[c] \in Seq(Late)
    <3>1. q.msg \in Late /\ chan'[c] = Append(chan[c], q.msg)
      BY <1>5, <2>1, <2>3 DEF LateAwait, PostToSelf
    <3> QED  BY <3>1, AppendTypes
  <2>5. script'[c] = <<>> \o Tail(script[c])
    BY <1>5 DEF PostToSelf, Continue
  <2>6. script'[c] \in Seq(LateAwait)
    BY <2>3, <2>5, ConcatEmpty
  <2>7. phase'[c] = "serving" /\ UNCHANGED rxq
    BY <1>5, <2>2 DEF PostToSelf, routerVars
  <2> QED  BY <1>3, <2>2, <2>4, <2>6, <2>7 DEF Onward, Stage
<1> QED  BY <1>4, <1>5

LEMMA StageOfWrite ==
  ASSUME TypeInv, SessionInv, NEW c \in Conn, Stage(c), chan[c] \in Seq(Late), WriteToClient(c)
  PROVE  Onward(c)
<1> USE HasEntries DEF Entries
<1> DEFINE q == Head(script[c])
<1>1. script[c] # <<>> /\ q.do = "toClient" /\ q \in Await
  BY WhoAwaits DEF WriteToClient, Awaiting
<1>2. phase[c] \in {"rejecting", "greeting", "serving"}
  BY <1>1, WhereAwaits
<1>3. wire'[c] = Append(wire[c], q.msg) /\ UNCHANGED <<me, rxq>>
  BY DEF WriteToClient, routerVars
<1>4. CASE phase[c] = "rejecting"
  <2>1. phase'[c] = "closed" /\ chan'[c] = <<>>
    BY <1>4 DEF WriteToClient, Return
  <2>2. PICK e \in ServerError : script[c] = <<ToClient(Error(e))>> /\ wire[c] = <<>>
    BY <1>4 DEF Stage
  <2>3. q.msg = Error(e)
    BY <2>2 DEF ToClient
  <2>4. wire'[c] = <<Error(e)>>
    BY <1>3, <2>2, <2>3
  <2>5. me'[c] = NoUser
    BY <1>3, <1>4 DEF SessionInv, NotYetKnown
  <2>6. \E x \in ServerError : wire'[c] = <<Error(x)>>
    BY <2>4
  <2>7. <<>> \in Seq(Late)
    OBVIOUS
  <2> QED  BY <1>3, <2>1, <2>5, <2>6, <2>7, Zenon DEF Onward, Stage
<1>5. CASE phase[c] # "rejecting"
  <2>1. /\ chan'[c] = chan[c] /\ script'[c] = <<>> \o Tail(script[c])
        /\ phase'[c] = IF phase[c] = "greeting" /\ Tail(script[c]) = <<>> THEN "serving" ELSE phase[c]
    BY <1>5 DEF WriteToClient, Continue, chanVars
  <2>2. script'[c] = Tail(script[c])
    <3>1. Tail(script[c]) \in Seq(Await)
      BY <1>1, TailTypes
    <3> QED  BY <2>1, <3>1, ConcatEmpty
  <2>3. CASE phase[c] = "serving"
    <3>1. q \in LateAwait /\ Tail(script[c]) \in Seq(LateAwait)
      BY <1>1, <2>3, WhereAwaits
    <3>2. q.msg \in Late
      BY <1>1, <3>1 DEF LateAwait
    <3>3. Len(wire'[c]) >= 3 /\ GreetedInOrder(wire'[c])
      BY <1>3, <2>3, <3>2, OrderKept DEF Stage
    <3> QED  BY <1>3, <2>1, <2>2, <2>3, <3>1, <3>3 DEF Onward, Stage, GreetedInOrder
  <2>4. CASE phase[c] = "greeting"
    <3>1. Greets(c)
      BY <2>4, GreetsOne DEF Stage
    <3>2. PICK gs \in SUBSET GroupId :
            \/ /\ q.msg = AuthSuccess(me[c]) /\ wire[c] = <<>>
               /\ Tail(script[c]) = <<ToClient(GroupsList(gs)), Query("fetchUsers")>>
            \/ /\ q.msg = GroupsList(gs) /\ wire[c] = <<AuthSuccess(me[c])>>
               /\ Tail(script[c]) = <<Query("fetchUsers")>>
            \/ /\ \E us \in SUBSET UserId : q.msg = UsersList(us)
               /\ Tail(script[c]) = <<>> /\ wire[c] = <<AuthSuccess(me[c]), GroupsList(gs)>>
      BY <1>1, <3>1 DEF Greets
    <3>3. CASE /\ q.msg = AuthSuccess(me[c]) /\ wire[c] = <<>>
               /\ Tail(script[c]) = <<ToClient(GroupsList(gs)), Query("fetchUsers")>>
      <4>1. wire'[c] = <<AuthSuccess(me'[c])>> /\ Tail(script[c]) # <<>>
        <5>1. Append(<<>>, AuthSuccess(me[c])) = <<AuthSuccess(me[c])>>
          OBVIOUS
        <5>2. \A x, y : <<x, y>> # <<>>
          OBVIOUS
        <5> QED  BY <1>3, <3>3, <5>1, <5>2
      <4>2. Begun(c)'
        BY <2>2, <3>3, <4>1 DEF Begun
      <4> QED  BY <1>3, <2>1, <2>4, <4>1, <4>2 DEF Onward, Stage
    <3>4. CASE /\ q.msg = GroupsList(gs) /\ wire[c] = <<AuthSuccess(me[c])>>
               /\ Tail(script[c]) = <<Query("fetchUsers")>>
      <4>1. wire'[c] = <<AuthSuccess(me'[c]), GroupsList(gs)>> /\ Tail(script[c]) # <<>>
        BY <1>3, <3>4, Pairs
      <4>2. Begun(c)'
        BY <2>2, <3>4, <4>1 DEF Begun
      <4> QED  BY <1>3, <2>1, <2>4, <4>1, <4>2 DEF Onward, Stage
    <3>5. CASE /\ \E us \in SUBSET UserId : q.msg = UsersList(us)
               /\ Tail(script[c]) = <<>> /\ wire[c] = <<AuthSuccess(me[c]), GroupsList(gs)>>
      <4>1. PICK us : wire'[c] = <<AuthSuccess(me[c]), GroupsList(gs), UsersList(us)>>
        BY <1>3, <3>5, Triples
      <4>2. Len(wire'[c]) >= 3 /\ GreetedInOrder(wire'[c])
        BY <4>1, PartsInOrder
      <4>3. phase'[c] = "serving" /\ script'[c] = <<>>
        BY <2>1, <2>2, <2>4, <3>5
      <4>4. <<>> \in Seq(LateAwait)
        OBVIOUS
      <4> QED  BY <1>3, <2>1, <4>2, <4>3, <4>4 DEF Onward, Stage, GreetedInOrder
    <3> QED  BY <3>2, <3>3, <3>4, <3>5
  <2> QED  BY <1>2, <1>5, <2>3, <2>4
<1> QED  BY <1>4, <1>5

LEMMA StageOfLoop ==
  ASSUME TypeInv, SessionInv, NEW c \in Conn, UNCHANGED <<clock, crashes>>,
         Stage(c), chan[c] \in Seq(Late),
         \/ Invite(c) \/ AlertInvited(c) \/ NewGroup(c) \/ AddCreator(c) \/ FetchMembers(c)
         \/ FetchInfo(c) \/ SyncMessages(c) \/ ReceiveRouted(c) \/ Request(c)
  PROVE  Onward(c)
<1>1. phase[c] = "serving"
  <2>1. CASE ReceiveRouted(c) \/ Request(c)
    BY <2>1 DEF ReceiveRouted, Request, HandleFrame, Idle
  <2>2. CASE ~(ReceiveRouted(c) \/ Request(c))
    <3>1. script[c] # <<>> /\ Head(script[c]).do \in {"insertMember", "groupName", "insertGroup",
                                "insertCreator", "fetchMembers", "groupInfo", "history"}
      BY <2>2 DEF Invite, AlertInvited, NewGroup, AddCreator, FetchMembers, FetchInfo,
                  SyncMessages, Awaiting
    <3> QED  BY <3>1, WhereAwaits
  <2> QED  BY <2>1, <2>2
<1>2. script[c] \in Seq(LateAwait) /\ Len(wire[c]) >= 3 /\ GreetedInOrder(wire[c])
  BY <1>1 DEF Stage
<1>3. /\ script'[c] \in Seq(LateAwait) /\ phase'[c] = "serving"
      /\ wire'[c] = wire[c] /\ me'[c] = me[c] /\ chan'[c] \in Seq(Late)
      /\ UNCHANGED rxq
  BY <1>1, <1>2, LoopStep
<1> QED  BY <1>2, <1>3 DEF Onward, Stage, GreetedInOrder

\* Whatever a connection has written when it ends is in order.
LEMMA StageOfEnd ==
  ASSUME TypeInv, SessionInv, NEW c \in Conn, Stage(c), chan[c] \in Seq(Late),
         Accept(c) \/ Authenticate(c) \/ Disconnect(c) \/ LoseWrite(c)
  PROVE  Onward(c)
<1> USE HasEntries DEF Entries
<1>1. UNCHANGED <<me, wire, rxq>>
  BY DEF Accept, Authenticate, FirstFrame, Disconnect, HangUp, NoFirstFrame, LoseWrite, WriteFails,
         routerVars
<1>2. CASE Accept(c)
  BY <1>1, <1>2 DEF Accept, Onward, Stage, chanVars
<1>3. CASE Authenticate(c)
  <2>1. PICK m \in FirstFrames : FirstFrame(c, m)
    BY <1>3 DEF Authenticate
  <2>2. wire[c] = <<>> /\ chan'[c] = chan[c]
    BY <2>1 DEF FirstFrame, Stage, chanVars
  <2>3. \/ phase'[c] = "authenticating"
        \/ phase'[c] = "rejecting" /\ script'[c] = <<ToClient(Error("FirstMessageNotAuth"))>>
    BY <2>1 DEF FirstFrame
  <2> QED  BY <1>1, <2>2, <2>3 DEF Onward, Stage, ServerError
<1>4. CASE Disconnect(c)
  <2>1. CASE HangUp(c)
    <3>1. phase[c] = "serving" /\ chan'[c] = chan[c]
      BY <2>1 DEF HangUp, Idle, Break, chanVars
    <3>2. phase'[c] = "leaving" /\ script'[c] = <<ToRouter(UserDisconnected(me[c]))>>
      BY <2>1 DEF HangUp, Break
    <3>3. ToRouter(UserDisconnected(me[c])) \in LateAwait
      <4>1. me[c] \in UserId
        BY <3>1 DEF TypeInv, UsersKnown, LoggedIn
      <4>2. UserDisconnected(me[c]) \in LateEvent
            /\ UserDisconnected(me[c]).type = "UserDisconnected"
        BY <4>1, EventTypes DEF LateEvent, UserDisconnected
      <4> QED  BY <4>2, LateAwaits
    <3> QED  BY <1>1, <3>1, <3>2, <3>3 DEF Onward, Stage, GreetedInOrder
  <2>2. CASE NoFirstFrame(c)
    <3>1. wire[c] = <<>> /\ phase'[c] = "closed" /\ chan'[c] = <<>>
      BY <2>2 DEF NoFirstFrame, Return, Stage
    <3>2. GreetedInOrder(wire'[c])
      BY <1>1, <3>1, PartsInOrder
    <3> QED  BY <1>1, <3>1, <3>2 DEF Onward, Stage, GreetedInOrder
  <2> QED  BY <1>4, <2>1, <2>2 DEF Disconnect
<1>5. CASE LoseWrite(c)
  <2>1. script[c] # <<>> /\ Head(script[c]).do = "toClient"
    BY <1>5 DEF LoseWrite, WriteFails, Awaiting
  <2>2. phase[c] \in {"rejecting", "greeting", "serving"}
    BY <2>1, WhereAwaits
  <2>3. CASE phase[c] = "serving"
    <3>1. phase'[c] = "leaving" /\ script'[c] = <<ToRouter(UserDisconnected(me[c]))>>
      BY <1>5, <2>3 DEF LoseWrite, WriteFails, Break
    <3>2. ToRouter(UserDisconnected(me[c])) \in LateAwait
      <4>1. me[c] \in UserId
        BY <2>3 DEF TypeInv, UsersKnown, LoggedIn
      <4>2. UserDisconnected(me[c]) \in LateEvent
            /\ UserDisconnected(me[c]).type = "UserDisconnected"
        BY <4>1, EventTypes DEF LateEvent, UserDisconnected
      <4> QED  BY <4>2, LateAwaits
    <3>3. chan'[c] = chan[c]
      BY <1>5, <2>3 DEF LoseWrite, WriteFails, Break, chanVars
    <3> QED  BY <1>1, <2>3, <3>1, <3>2, <3>3 DEF Onward, Stage, GreetedInOrder
  <2>4. CASE phase[c] # "serving"
    <3>1. phase'[c] = "closed" /\ chan'[c] = <<>>
      BY <1>5, <2>4 DEF LoseWrite, WriteFails, Return
    <3>2. GreetedInOrder(wire[c])
      BY <2>2, <2>4, GreetedSoFar, PartsInOrder DEF Stage
    <3> QED  BY <1>1, <3>1, <3>2 DEF Onward, Stage, GreetedInOrder
  <2> QED  BY <2>3, <2>4
<1> QED  BY <1>2, <1>3, <1>4, <1>5

LEMMA StageOfStep ==
  ASSUME TypeInv, SessionInv, NEW c \in Conn, Actor(c) \/ Client(c),
         Stage(c), chan[c] \in Seq(Late)
  PROVE  Onward(c)
BY StageOfAccount, StageOfQuery, StageOfPost, StageOfWrite, StageOfLoop, StageOfEnd
   DEF Actor, ConnStep, Client

\* What the router sends is presence news or the message of the event it took.
LEMMA SendAllSends ==
  ASSUME NEW order \in Seq(UserId), NEW m
  PROVE  \A i \in DOMAIN SendAll(order, m) : SendAll(order, m)[i].msg = m
BY DEF SendAll, To

LEMMA FanoutSends ==
  ASSUME TypeInv, NEW from, NEW t \in Target, NEW m \in ServerMessage,
         NEW f \in Fanouts(from, t, m), NEW i \in DOMAIN f
  PROVE  f[i].msg = m
<1>1. CASE t.kind = "user"
  <2> DEFINE back == IF from # t.user THEN SendTo(from, m) ELSE <<>>
  <2>1. f = SendTo(t.user, m) \o back
    BY <1>1 DEF Fanouts, PrivateSends
  <2>2. \A u : SendTo(u, m) \in Seq({d \in Delivery : d.msg = m})
    <3> TAKE u
    <3>1. CASE u \in Online
      <4>1. To(sessions[u], m) \in {d \in Delivery : d.msg = m}
        BY <3>1 DEF To, Delivery, Online, TypeInv, TypeOK, RouterOK
      <4> QED  BY <3>1, <4>1 DEF SendTo
    <3>2. CASE u \notin Online
      BY <3>2 DEF SendTo
    <3> QED  BY <3>1, <3>2
  <2>3. <<>> \in Seq({d \in Delivery : d.msg = m})
    OBVIOUS
  <2>4. f \in Seq({d \in Delivery : d.msg = m})
    BY <2>1, <2>2, <2>3, ConcatTypes
  <2> QED  BY <2>4
<1>2. ASSUME NEW S \in SUBSET Online, NEW order \in SetToSeqs(S), f = SendAll(order, m)
      PROVE  f[i].msg = m
  <2>1. order \in Seq(UserId)
    BY <1>2, OnlineTypes
  <2> QED  BY <1>2, <2>1, SendAllSends
<1>3. Subscribers(t.group) \in SUBSET Online /\ Online \in SUBSET Online
  BY DEF Subscribers
<1> QED  BY <1>1, <1>2, <1>3 DEF Fanouts, Target, UserTarget, GroupTarget, Broadcast

LEMMA WhatIsSent ==
  ASSUME TypeInv, RouterTask, ~Deliver, NEW i \in DOMAIN fanout'
  PROVE  /\ fanout'[i] \in Delivery
         /\ \/ fanout'[i].msg.type = "Presence"
            \/ /\ rxq # <<>> /\ Head(rxq).type = "RouteMessage"
               /\ fanout'[i].msg = Head(rxq).message
<1> DEFINE e == Head(rxq)
<1>1. fanout'[i] \in Delivery
  <2>1. fanout' \in Seq(Delivery)
    BY RouterTypes DEF TypeInv, TypeOK, RouterOK
  <2> QED  BY <2>1
<1>2. rxq # <<>> => e \in RouterEvent
  BY TailTypes DEF TypeInv, TypeOK, RouterOK
<1>3. CASE OnUserConnected
  <2>1. PICK order \in SetToSeqs(Online \ {e.user}) :
          fanout' = OnlineNews(e.user, e.sender, order)
    BY <1>3 DEF OnUserConnected
  <2>2. rxq # <<>> /\ e.user \in UserId /\ e.sender \in Conn
    BY <1>2, <1>3 DEF OnUserConnected, Take, RouterEvent
  <2> DEFINE p == Presence(e.user, TRUE)
             s == SendAll(order, p)
             r == [j \in DOMAIN order |-> To(e.sender, Presence(order[j], TRUE))]
  <2>3. p \in ServerMessage
    BY <2>2, MessageTypes
  <2>4. order \in Seq(UserId) /\ s \in Seq(Delivery)
    BY <2>3, OnlineTypes
  <2>5. r \in Seq(Delivery)
    BY <2>2, <2>4, RosterTypes
  <2>6. \A j \in DOMAIN s : s[j].msg.type = "Presence"
    BY <2>4, SendAllSends DEF Presence
  <2>7. \A j \in DOMAIN r : r[j].msg.type = "Presence"
    BY DEF To, Presence
  <2>8. fanout' = s \o r
    BY <2>1 DEF OnlineNews
  <2> HIDE DEF s, r
  <2>9. (fanout'[i] = s[i] /\ i \in DOMAIN s) \/ \E j \in DOMAIN r : fanout'[i] = r[j]
    BY <2>4, <2>5, <2>8
  <2> QED  BY <1>1, <2>6, <2>7, <2>9
<1>4. CASE OnUserDisconnected
  <2>1. PICK order \in SetToSeqs(Online \ {e.user}) :
          fanout' = SendAll(order, Presence(e.user, FALSE))
    BY <1>4 DEF OnUserDisconnected, OfflineNews
  <2>2. e.user \in UserId
    BY <1>2, <1>4 DEF OnUserDisconnected, Take, RouterEvent
  <2>3. Presence(e.user, FALSE) \in ServerMessage
    BY <2>2, MessageTypes
  <2>4. order \in Seq(UserId)
    BY <2>3, OnlineTypes
  <2> QED  BY <1>1, <2>1, <2>4, SendAllSends DEF Presence
<1>5. CASE OnUserJoinedGroup
  BY <1>5 DEF OnUserJoinedGroup, Take
<1>6. CASE OnRouteMessage
  <2>1. rxq # <<>> /\ e.type = "RouteMessage" /\ fanout' \in Fanouts(e.from, e.target, e.message)
    BY <1>6 DEF OnRouteMessage, Take
  <2>2. e.target \in Target /\ e.message \in ServerMessage
    BY <1>2, <2>1 DEF RouterEvent
  <2> QED  BY <1>1, <2>1, <2>2, FanoutSends
<1> QED  BY <1>3, <1>4, <1>5, <1>6 DEF RouterTask, RouterStep

LEMMA StageStays ==
  ASSUME NEW c \in Conn, Stage(c), phase'[c] = phase[c], me'[c] = me[c],
         script'[c] = script[c], wire'[c] = wire[c]
  PROVE  Stage(c)'
BY DEF Stage, Begun, GreetedInOrder, Greeting, ToRouter, ToClient, Query

LEMMA GreetingByRouter ==
  ASSUME TypeInv, GreetingInv, RouterTask
  PROVE  GreetingInv'
<1> USE DEF GreetingInv
<1>1. UNCHANGED <<phase, me, script, wire>>
  BY QueueOfRouter
<1>2. \A c \in Conn : Stage(c)'
  BY <1>1, StageStays
<1>3. rxq' \in Seq(LateEvent)
  BY QueueOfRouter, TailTypes
<1>4. CASE ~Deliver
  <2>1. UNCHANGED chan
    BY <1>4 DEF RouterTask, RouterStep, OnUserConnected, OnUserDisconnected, OnUserJoinedGroup,
                OnRouteMessage, chanVars
  <2>2. ASSUME NEW i \in DOMAIN fanout' PROVE fanout'[i].msg \in Late
    <3>1. fanout'[i].msg \in ServerMessage
      BY <1>4, WhatIsSent DEF Delivery
    <3>2. CASE fanout'[i].msg.type = "Presence"
      BY <3>1, <3>2 DEF Late, GreetingType
    <3>3. CASE rxq # <<>> /\ Head(rxq).type = "RouteMessage" /\ fanout'[i].msg = Head(rxq).message
      <4>1. Head(rxq) \in LateEvent
        BY <3>3, TailTypes
      <4> QED  BY <3>3, <4>1 DEF LateEvent
    <3> QED  BY <1>4, <3>2, <3>3, WhatIsSent
  <2> QED  BY <1>2, <1>3, <2>1, <2>2
<1>5. CASE Deliver
  <2>1. fanout \in Seq(Delivery) /\ chan \in [Conn -> Seq(ServerMessage)]
    BY DEF TypeInv, TypeOK, RouterOK, ChanOK
  <2>2. fanout # <<>> /\ fanout' = Tail(fanout)
    BY <1>5 DEF Deliver
  <2>3. \A i \in DOMAIN fanout' : fanout'[i].msg \in Late
    BY <2>1, <2>2
  <2>4. Head(fanout).msg \in Late /\ Head(fanout).to \in Conn
    <3>1. Head(fanout) = fanout[1] /\ 1 \in DOMAIN fanout /\ Head(fanout) \in Delivery
      BY <2>1, <2>2
    <3> QED  BY <3>1 DEF Delivery
  <2>5. Append(chan[Head(fanout).to], Head(fanout).msg) \in Seq(Late)
    BY <2>4, AppendTypes
  <2>6. \A c \in Conn : chan'[c] \in Seq(Late)
    BY <1>5, <2>1, <2>5 DEF Deliver
  <2> QED  BY <1>2, <1>3, <2>3, <2>6
<1> QED  BY <1>4, <1>5

LEMMA GreetingByActor ==
  ASSUME TypeInv, SessionInv, GreetingInv, NEW c \in Conn, Actor(c) \/ Client(c), UNCHANGED fanout
  PROVE  GreetingInv'
<1> USE DEF GreetingInv
<1>1. Onward(c)
  BY StageOfStep
<1>2. ASSUME NEW d \in Conn PROVE Stage(d)' /\ chan'[d] \in Seq(Late)
  <2>1. CASE d = c
    BY <1>1, <2>1 DEF Onward
  <2>2. CASE d # c
    <3>1. Aside(d)
      BY <2>2, OthersStand
    <3> QED  BY <3>1, StageStays DEF Aside
  <2> QED  BY <2>1, <2>2
<1>3. rxq' \in Seq(LateEvent)
  BY <1>1, AppendTypes DEF Onward
<1> QED  BY <1>2, <1>3

LEMMA FanoutIsRouters ==
  ASSUME NEW c \in Conn, Actor(c) \/ Client(c)
  PROVE  UNCHANGED fanout
BY DEF Actor, Client, ConnStep, LoginUser, Welcome, Reject, CheckName, RegisterUser, FetchGroups,
       FetchUsers, PostToRouter, PostToSelf, WriteToClient, ReceiveRouted, Invite, AlertInvited,
       NewGroup, AddCreator, FetchMembers, FetchInfo, SyncMessages, OnlyScript, Accept,
       Authenticate, FirstFrame, Request, HandleFrame, Disconnect, HangUp, NoFirstFrame,
       LoseWrite, WriteFails, routerVars

LEMMA GreetingInit == Init => GreetingInv
<1> SUFFICES ASSUME Init PROVE GreetingInv
  OBVIOUS
<1>1. \A c \in Conn : Stage(c)
  BY DEF Init, ConnInit, Stage
<1>2. \A c \in Conn : chan[c] \in Seq(Late)
  BY DEF Init, RouterInit
<1>3. rxq \in Seq(LateEvent) /\ \A i \in DOMAIN fanout : fanout[i].msg \in Late
  BY DEF Init, RouterInit
<1> QED  BY <1>1, <1>2, <1>3 DEF GreetingInv

LEMMA GreetingNext == TypeInv /\ SessionInv /\ GreetingInv /\ [Next]_vars => GreetingInv'
<1> SUFFICES ASSUME TypeInv, SessionInv, GreetingInv, [Next]_vars PROVE GreetingInv'
  OBVIOUS
<1>1. CASE RouterTask
  BY <1>1, GreetingByRouter
<1>2. ASSUME NEW c \in Conn, Actor(c) \/ Client(c) PROVE GreetingInv'
  BY <1>2, GreetingByActor, FanoutIsRouters
<1>3. CASE Crash
  <2>1. UNCHANGED <<me, wire>> /\ rxq' = <<>> /\ fanout' = <<>>
    BY <1>3 DEF Crash
  <2>2. ASSUME NEW c \in Conn PROVE Stage(c)' /\ chan'[c] \in Seq(Late)
    <3>1. phase'[c] = IF phase[c] = "fresh" THEN "fresh" ELSE "closed"
      BY <1>3 DEF Crash
    <3>2. chan'[c] = <<>>
      BY <1>3 DEF Crash
    <3>3. phase[c] \in Phase /\ Stage(c)
      BY DEF TypeInv, TypeOK, ConnOK, GreetingInv
    <3>4. CASE phase[c] = "fresh"
      BY <2>1, <3>1, <3>2, <3>3, <3>4 DEF Stage
    <3>5. CASE phase[c] \in {"authenticating", "rejecting", "greeting", "serving", "leaving"}
      <4>1. GreetedInOrder(wire[c])
        BY <3>3, <3>5, GreetedSoFar, PartsInOrder DEF Stage
      <4>2. phase'[c] = "closed" /\ wire'[c] = wire[c]
        BY <2>1, <3>1, <3>5
      <4>3. GreetedInOrder(wire'[c])
        BY <4>1, <4>2
      <4>4. Stage(c)'
        BY <4>2, <4>3 DEF Stage, GreetedInOrder
      <4> QED  BY <3>2, <4>4
    <3>6. CASE phase[c] = "closed"
      BY <2>1, <3>1, <3>2, <3>3, <3>6 DEF Stage, GreetedInOrder
    <3> QED  BY <3>3, <3>4, <3>5, <3>6 DEF Phase
  <2> QED  BY <2>1, <2>2 DEF GreetingInv
<1>4. CASE SaveTasks \/ Tick \/ UNCHANGED vars
  <2>1. UNCHANGED <<phase, me, script, wire, chan, rxq, fanout>>
    BY <1>4 DEF SaveTasks, SaveMessage, Tick, vars, routerVars, connVars, chanVars
  <2>2. \A c \in Conn : Stage(c)'
    BY <2>1, StageStays DEF GreetingInv
  <2> QED  BY <2>1, <2>2 DEF GreetingInv
<1> QED  BY <1>1, <1>2, <1>3, <1>4 DEF Next

\* Whatever the router and the other actors do meanwhile, and wherever a write
\* fails or the process dies: a client is told who it is, its groups and the
\* contact book, in this order, before anything else; or one error and nothing.
THEOREM GreetedFirst == Spec => []GreetingFirst
<1>1. TypeInv /\ SessionInv /\ GreetingInv => GreetingFirst
  <2> SUFFICES ASSUME TypeInv, SessionInv, GreetingInv, NEW c \in Conn
               PROVE  LET types == [i \in DOMAIN wire[c] |-> wire[c][i].type]
                          first == <<"AuthSuccess", "GroupsList", "UsersList">>
                      IN  \/ types = <<"Error">> /\ me[c] = NoUser
                          \/ \A i \in DOMAIN types :
                               IF i <= 3 THEN types[i] = first[i] ELSE types[i] \notin Range(first)
    BY DEF GreetingFirst
  <2>1. phase[c] \in Phase /\ Stage(c)
    BY DEF TypeInv, TypeOK, ConnOK, GreetingInv
  <2>2. CASE GreetedInOrder(wire[c])
    <3>1. Range(<<"AuthSuccess", "GroupsList", "UsersList">>) = GreetingType
      BY DEF Range, GreetingType
    <3> QED  BY <2>2, <3>1 DEF GreetedInOrder
  <2>3. CASE me[c] = NoUser /\ \E e \in ServerError : wire[c] = <<Error(e)>>
    <3>1. PICK e : wire[c] = <<Error(e)>>
      BY <2>3
    <3>2. [i \in DOMAIN wire[c] |-> wire[c][i].type] = <<"Error">>
      BY <3>1 DEF Error
    <3> QED  BY <2>3, <3>2
  <2>4. phase[c] # "closed" => GreetedInOrder(wire[c])
    BY <2>1, GreetedSoFar, PartsInOrder DEF Stage, Phase
  <2> QED  BY <2>1, <2>2, <2>3, <2>4 DEF Stage
<1> QED  BY TypesHold, BackedInit, FoundedNext, SessionInit, PostsFirstNext, SessionNext,
            GreetingInit, GreetingNext, <1>1, PTL DEF Spec

-----------------------------------------------------------------------------
(* The end of a session.                                                   *)

LEMMA ClosedForGood ==
  ASSUME TypeInv, NEW c \in Conn, Actor(c) \/ Client(c), NEW d \in Conn, phase[d] = "closed"
  PROVE  phase'[d] = "closed" /\ wire'[d] = wire[d]
<1>1. CASE d # c
  BY <1>1, OthersStand DEF Aside
<1>2. CASE d = c
  <2>1. script[c] \in Seq({}) /\ AwaitAt("closed") = {}
    BY <1>2 DEF TypeInv, ScriptsFit, AwaitAt
  <2>2. script[c] = <<>>
    BY <2>1
  <2> USE <1>2, <2>2 DEF Awaiting, Idle
  <2>3. ~(LoginUser(c) \/ CheckName(c) \/ RegisterUser(c) \/ FetchGroups(c) \/ FetchUsers(c)
          \/ PostToRouter(c) \/ PostToSelf(c) \/ WriteToClient(c) \/ ReceiveRouted(c))
    BY DEF LoginUser, CheckName, RegisterUser, FetchGroups, FetchUsers, PostToRouter, PostToSelf,
           WriteToClient, ReceiveRouted
  <2>4. ~(Invite(c) \/ AlertInvited(c) \/ NewGroup(c) \/ AddCreator(c) \/ FetchMembers(c)
          \/ FetchInfo(c) \/ SyncMessages(c))
    BY DEF Invite, AlertInvited, NewGroup, AddCreator, FetchMembers, FetchInfo, SyncMessages
  <2>5. ~(Accept(c) \/ Authenticate(c) \/ Request(c) \/ Disconnect(c) \/ LoseWrite(c))
    BY DEF Accept, Authenticate, FirstFrame, Request, HandleFrame, Disconnect, HangUp, NoFirstFrame,
           LoseWrite, WriteFails
  <2> QED  BY <2>3, <2>4, <2>5 DEF Actor, ConnStep, Client
<1> QED  BY <1>1, <1>2

LEMMA GreetedShort ==
  ASSUME NEW c \in Conn, Begun(c)
  PROVE  Len(wire[c]) < 3
<1>1. \/ wire[c] = <<>>
      \/ wire[c] = <<AuthSuccess(me[c])>>
      \/ \E gs : wire[c] = <<AuthSuccess(me[c]), GroupsList(gs)>>
  BY DEF Begun
<1>2. Len(<<>>) < 3 /\ \A m, n : Len(<<m>>) < 3 /\ Len(<<m, n>>) < 3
  OBVIOUS
<1> QED  BY <1>1, <1>2

LEMMA HasNextPhase ==
  ASSUME TypeInv, NEW c \in Conn, Actor(c) \/ Client(c)
  PROVE  phase'[c] \in Phase
<1>1. TypeInv'
  BY NextTypes DEF Next
<1> QED  BY <1>1 DEF TypeInv, TypeOK, ConnOK

LEMMA GhostFreeByActor ==
  ASSUME TypeInv, Founded, SessionInv, GreetingInv, GhostFreeInv,
         NEW c \in Conn, Actor(c) \/ Client(c)
  PROVE  GhostFreeInv'
<1> USE DEF GhostFreeInv, SessionInv
<1> DEFINE DepartsThen(u, i) == \E j \in DOMAIN rxq' : i < j /\ rxq'[j] = UserDisconnected(u)
           InThen(d) ==
             \/ phase'[d] \in {"greeting", "serving", "leaving"}
             \/ phase'[d] = "closed" /\ Len(wire'[d]) < 3
<1>1. PICK steps : StepShape(c, steps)
  BY ShapeOfStep
<1>2. LifeStep(c) /\ \A d \in Conn \ {c} : Aside(d)
  BY LifeOfStep, OthersStand
<1>3. rxq \in Seq(RouterEvent) /\ sessions \in [UserId -> Conn \cup {NoConn}]
  BY DEF TypeInv, TypeOK, RouterOK
<1>4. /\ sessions' = sessions
      /\ \/ rxq' = rxq
         \/ Awaiting(c, "toRouter") /\ rxq' = Append(rxq, Head(script[c]).event)
  BY <1>1, Zenon DEF StepShape
\* What is queued stays where it is.
<1>5. /\ \A i \in DOMAIN rxq : i \in DOMAIN rxq' /\ rxq'[i] = rxq[i]
      /\ \A u, i : DepartsAfter(u, i) => DepartsThen(u, i)
  BY <1>3, <1>4 DEF DepartsAfter, UserDisconnected
\* Whoever is no longer logged in, and not cut, has just posted its departure.
<1>6. ASSUME NEW d \in Conn, LoggedIn(d), ~InThen(d)
      PROVE  d = c /\ rxq' = Append(rxq, UserDisconnected(me[c]))
  <2>1. d = c
    BY <1>2, <1>6 DEF Aside, LoggedIn
  <2>2. phase[c] = "leaving" /\ rxq' = Append(rxq, Head(script[c]).event)
    <3>1. LoggedIn(c) /\ ~LoggedIn(c)'
      BY <1>6, <2>1 DEF LoggedIn
    <3>2. SUFFICES ASSUME phase[c] = "greeting", wire'[c] = wire[c] PROVE FALSE
      BY <1>2, <3>1 DEF LifeStep
    <3>3. phase'[c] = "closed"
      BY <1>2, <3>1, <3>2, HasNextPhase DEF LifeStep, LoggedIn, Phase
    <3>4. Len(wire[c]) < 3
      BY <3>2, GreetedShort DEF GreetingInv, Stage
    <3> QED  BY <1>6, <2>1, <3>2, <3>3, <3>4
  <2>3. script[c] = <<ToRouter(UserDisconnected(me[c]))>>
    BY <2>2 DEF LeavesLast
  <2>4. Head(script[c]).event = UserDisconnected(me[c])
    BY <2>3 DEF ToRouter
  <2> QED  BY <2>1, <2>2, <2>4
<1>7. ASSUME NEW d \in Conn, LoggedIn(d) \/ Cut(d), NEW i \in 0 .. Len(rxq)
      PROVE  InThen(d) \/ DepartsThen(me[d], i)
  <2> SUFFICES ASSUME ~InThen(d) PROVE DepartsThen(me[d], i)
    OBVIOUS
  <2>0. LoggedIn(d)
    BY <1>7, ClosedForGood DEF Cut
  <2>1. d = c /\ rxq' = Append(rxq, UserDisconnected(me[c]))
    BY <1>6, <2>0
  <2>3. Len(rxq) + 1 \in DOMAIN rxq' /\ rxq'[Len(rxq) + 1] = UserDisconnected(me[c])
    BY <1>3, <2>1
  <2>4. i < Len(rxq) + 1
    BY <1>3
  <2> QED  BY <2>1, <2>3, <2>4
<1>8. SessionsEnd'
  <2> SUFFICES ASSUME NEW u \in UserId, sessions[u] # NoConn
               PROVE  InThen(sessions[u]) \/ DepartsThen(u, 0)
    BY <1>4 DEF SessionsEnd, Online, LoggedIn, Cut, DepartsAfter, UserDisconnected
  <2>1. sessions[u] \in Conn /\ me[sessions[u]] = u /\ 0 \in 0 .. Len(rxq)
    BY <1>3 DEF OwnSessions, Online
  <2>2. LoggedIn(sessions[u]) \/ Cut(sessions[u]) \/ DepartsAfter(u, 0)
    BY DEF SessionsEnd, Online
  <2>3. CASE LoggedIn(sessions[u]) \/ Cut(sessions[u])
    BY <1>7, <2>1, <2>3
  <2>4. CASE DepartsAfter(u, 0)
    BY <1>5, <2>4
  <2> QED  BY <2>2, <2>3, <2>4
<1>9. LoginsEnd'
  <2> SUFFICES ASSUME NEW i \in DOMAIN rxq', rxq'[i].type = "UserConnected"
               PROVE  InThen(rxq'[i].sender) \/ DepartsThen(rxq'[i].user, i)
    BY DEF LoginsEnd, LoggedIn, Cut, DepartsAfter, UserDisconnected
  <2>1. CASE i \in DOMAIN rxq
    <3> DEFINE e == rxq[i]
    <3>1. rxq'[i] = e /\ e \in Posted /\ e \in RouterEvent /\ i \in 0 .. Len(rxq)
      BY <1>3, <1>5, <2>1 DEF Posted, Range
    <3>2. e.sender \in Conn /\ me[e.sender] = e.user /\ e.type = "UserConnected"
      BY <3>1 DEF OwnSessions, RouterEvent
    <3>3. LoggedIn(e.sender) \/ Cut(e.sender) \/ DepartsAfter(e.user, i)
      BY <2>1, <3>2 DEF LoginsEnd
    <3> QED  BY <1>5, <1>7, <3>1, <3>2, <3>3
  <2>2. CASE i \notin DOMAIN rxq
    <3>1. Awaiting(c, "toRouter") /\ rxq'[i] = Head(script[c]).event
      BY <1>3, <1>4, <2>2
    <3>2. Head(script[c]).event.sender = c /\ LoggedIn(c)
      BY <3>1, WhoAwaits DEF SpeaksForItself, Speaks, Awaiting
    <3>3. InThen(c)
      <4> SUFFICES ASSUME ~InThen(c) PROVE FALSE
        OBVIOUS
      <4>1. rxq' = Append(rxq, UserDisconnected(me[c]))
        BY <1>6, <3>2
      <4> QED  BY <1>3, <2>2, <4>1 DEF UserDisconnected
    <3> QED  BY <3>1, <3>2, <3>3
  <2> QED  BY <2>1, <2>2
<1> QED  BY <1>8, <1>9

LEMMA GhostFreeByRouter ==
  ASSUME TypeInv, SessionInv, GhostFreeInv, RouterTask
  PROVE  GhostFreeInv'
<1> USE DEF GhostFreeInv, SessionInv
<1>1. UNCHANGED <<phase, me, wire>>
  BY DEF RouterTask, connVars
<1>2. rxq \in Seq(RouterEvent)
  BY DEF TypeInv, TypeOK, RouterOK
<1>3. CASE Deliver /\ UNCHANGED <<rxq, sessions>>
  BY <1>1, <1>3 DEF LoginsEnd, SessionsEnd, DepartsAfter, UserDisconnected, LoggedIn, Cut, Online
<1>4. CASE rxq # <<>> /\ rxq' = Tail(rxq) /\ Head(rxq) \in RouterEvent
  <2>1. /\ \A i \in DOMAIN rxq' : i + 1 \in DOMAIN rxq /\ rxq'[i] = rxq[i + 1]
        /\ \A i \in DOMAIN rxq : i # 1 => i - 1 \in DOMAIN rxq' /\ rxq'[i - 1] = rxq[i]
        /\ Head(rxq) = rxq[1] /\ 1 \in DOMAIN rxq
    BY <1>2, <1>4
  <2>2. ASSUME NEW u, NEW i \in Nat, DepartsAfter(u, i + 1)
        PROVE  DepartsAfter(u, i)'
    <3>1. PICK j \in DOMAIN rxq : i + 1 < j /\ rxq[j] = UserDisconnected(u)
      BY <2>2 DEF DepartsAfter
    <3>2. j # 1 /\ j \in Nat /\ i < j - 1
      BY <1>2, <3>1
    <3>3. rxq'[j - 1] = UserDisconnected(u) /\ j - 1 \in DOMAIN rxq'
      BY <2>1, <3>1, <3>2
    <3> QED  BY <3>2, <3>3 DEF DepartsAfter, UserDisconnected
  <2>3. LoginsEnd'
    <3> SUFFICES ASSUME NEW i \in DOMAIN rxq', rxq'[i].type = "UserConnected"
                 PROVE  (LoggedIn(rxq[i].sender) \/ Cut(rxq[i].sender) \/ DepartsAfter(rxq[i].user, i))'
      BY DEF LoginsEnd
    <3>1. i + 1 \in DOMAIN rxq /\ rxq'[i] = rxq[i + 1] /\ i \in Nat
      BY <1>2, <1>4, <2>1
    <3>2. LoggedIn(rxq[i + 1].sender) \/ Cut(rxq[i + 1].sender) \/ DepartsAfter(rxq[i + 1].user, i + 1)
      BY <3>1 DEF LoginsEnd
    <3>3. DepartsAfter(rxq[i + 1].user, i + 1) =>
            \E j \in DOMAIN rxq' : i < j /\ rxq'[j] = UserDisconnected(rxq[i + 1].user)
      BY <2>2, <3>1 DEF DepartsAfter, UserDisconnected
    <3> QED  BY <1>1, <3>1, <3>2, <3>3 DEF LoggedIn, Cut, DepartsAfter, UserDisconnected
  <2>4. SessionsEnd'
    <3> SUFFICES ASSUME NEW u \in UserId, sessions'[u] # NoConn
                 PROVE  LoggedIn(sessions[u])' \/ Cut(sessions[u])' \/ DepartsAfter(u, 0)'
      BY DEF SessionsEnd, Online
    <3>1. CASE /\ Head(rxq).user = u /\ Head(rxq).type = "UserConnected"
               /\ sessions'[u] = Head(rxq).sender
      <4>1. LoggedIn(sessions'[u]) \/ Cut(sessions'[u]) \/ DepartsAfter(u, 0 + 1)
        BY <2>1, <3>1 DEF LoginsEnd
      <4> QED  BY <1>1, <2>2, <4>1 DEF LoggedIn, Cut
    <3>2. CASE sessions'[u] = sessions[u] /\ Head(rxq) # UserDisconnected(u)
      <4>1. LoggedIn(sessions'[u]) \/ Cut(sessions'[u]) \/ DepartsAfter(u, 0)
        BY <3>2 DEF SessionsEnd, Online
      <4>2. DepartsAfter(u, 0) => DepartsAfter(u, 0 + 1)
        BY <1>2, <2>1, <3>2 DEF DepartsAfter
      <4> QED  BY <1>1, <2>2, <4>1, <4>2 DEF LoggedIn, Cut
    <3>3. Head(rxq) = UserDisconnected(u) => sessions'[u] = NoConn
      BY <1>4 DEF UserDisconnected, RouterTask, RouterStep, OnUserConnected, OnUserDisconnected,
                  OnUserJoinedGroup, OnRouteMessage, Deliver, Take, TypeInv, TypeOK, RouterOK
    <3> QED  BY <3>1, <3>2, <3>3, SessionsOfRouter
  <2> QED  BY <2>3, <2>4
<1> QED  BY <1>3, <1>4, QueueOfRouter

LEMMA GhostFreeNext ==
  TypeInv /\ Founded /\ SessionInv /\ GreetingInv /\ GhostFreeInv /\ [Next]_vars => GhostFreeInv'
<1> SUFFICES ASSUME TypeInv, Founded, SessionInv, GreetingInv, GhostFreeInv, [Next]_vars
             PROVE  GhostFreeInv'
  OBVIOUS
<1>1. CASE RouterTask
  BY <1>1, GhostFreeByRouter
<1>2. ASSUME NEW c \in Conn, Actor(c) \/ Client(c) PROVE GhostFreeInv'
  BY <1>2, GhostFreeByActor
<1>3. CASE Crash
  BY <1>3 DEF Crash, GhostFreeInv, LoginsEnd, SessionsEnd, Online
<1>4. CASE SaveTasks \/ Tick \/ UNCHANGED vars
  <2>1. UNCHANGED <<phase, me, wire, rxq, sessions>>
    BY <1>4 DEF SaveTasks, SaveMessage, Tick, vars, routerVars, connVars
  <2> QED  BY <2>1 DEF GhostFreeInv, LoginsEnd, SessionsEnd, DepartsAfter, UserDisconnected,
                       LoggedIn, Cut, Online
<1> QED  BY <1>1, <1>2, <1>3, <1>4 DEF Next

LEMMA GhostFreeInit == Init => GhostFreeInv
BY DEF Init, RouterInit, GhostFreeInv, LoginsEnd, SessionsEnd, Online

\* The router keeps no session of an actor that has left its loop without its
\* removal being queued, whichever of a frame, a write and the client ended the
\* loop, and however logins, departures, logins of the same user again and
\* crashes interleave; only a greeting cut short can leave a session behind.
THEOREM NoGhostSessions == Spec => []NoGhostSession
<1>1. GhostFreeInv => NoGhostSession
  <2> SUFFICES ASSUME GhostFreeInv, NEW u \in Online, phase[sessions[u]] = "closed",
                      ~(Len(wire[sessions[u]]) < 3)
               PROVE  UserDisconnected(u) \in Posted
    BY DEF NoGhostSession, UserDisconnected
  <2>1. DepartsAfter(u, 0)
    BY DEF GhostFreeInv, SessionsEnd, LoggedIn, Cut
  <2> QED  BY <2>1 DEF DepartsAfter, Posted, Range
<1> QED  BY TypesHold, BackedInit, FoundedNext, SessionInit, PostsFirstNext, SessionNext,
            GreetingInit, GreetingNext, GhostFreeInit, GhostFreeNext, <1>1, PTL DEF Spec
================================================================================
