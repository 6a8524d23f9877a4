------------------------------- MODULE DeskProofs -------------------------------
(***************************************************************************)
(* The client in front of the server, for every value of the constants.    *)
(* The server is the one its own theorems are about, and it implements     *)
(* what the client's theorems assume of a server; so both hold of the two  *)
(* together, and what the page shows can be told from what the server does.*)
(***************************************************************************)
EXTENDS Desk, PresenceProofs

-----------------------------------------------------------------------------
(* The invariants.                                                         *)

\* Who has not been heard is told nothing.
Unheard(c) ==
  heard[c] = <<>> =>
    wire[c] = <<>> /\ script[c] = <<>> /\ phase[c] \in {"fresh", "authenticating", "closed"}

OwnWelcome(c) == Welcomed(c) => wire[c][1] = AuthSuccess(me[c])

HearingInv == \A c \in Conn : Unheard(c) /\ OwnWelcome(c)

Held == cur # NoConn

\* The client's socket is the server's.
SocketInv ==
  /\ dialed \subseteq DeskConns
  /\ cur \in dialed \cup {NoConn}
  /\ Held <=> C!Linked
  /\ read \in Nat
  /\ Held => read <= Len(wire[cur])
  /\ up \in [DeskConns -> Seq(ClientMessage)]
  /\ \A c \in DeskConns \ dialed : phase[c] = "fresh" /\ up[c] = <<>>
  /\ (Held /\ sent = <<>>) => heard[cur] = <<>> /\ up[cur] = <<>>

\* The commands queued ask nothing.
QuietCommands(q) == \A i \in DOMAIN q : q[i].cmd = "Send" => ~Asks(q[i].msg)

\* After its login the client asks nothing that an error answers.
QuietInv ==
  /\ QuietCommands(cmds)
  /\ \A c \in DeskConns :
       /\ \A i \in DOMAIN up[c] : Asks(up[c][i]) => i = 1 /\ heard[c] = <<>>
       /\ AskedAt(c) = {}

LinkInv == SocketInv /\ QuietInv

\* The frames the page has taken in.
taken == read - Len(inbox)

\* What the UI thread has not taken is what was read last.
InboxInv ==
  Held => /\ Len(inbox) <= read
          /\ \A i \in DOMAIN inbox : inbox[i] = wire[cur][taken + i]

PageInv ==
  /\ (Held /\ state = C!Connecting) => taken = 0 /\ page = before
  /\ OnPage =>
       /\ taken >= 1 /\ Welcomed(cur) /\ state.user = me[cur]
       /\ page = C!ApplyAll(before, SubSeq(wire[cur], 1, taken), me[cur])

\* The news of v among the first n frames, and what they leave of it.
NewsIn(n, v) == {i \in 1 .. n : wire[cur][i].type = "Presence" /\ wire[cur][i].user = v}

LastWord(n, v) ==
  IF NewsIn(n, v) = {}
    THEN before.presence[v]
    ELSE \E i \in NewsIn(n, v) : wire[cur][i].online /\ \A j \in NewsIn(n, v) : j <= i

StatusInv == OnPage => \A v \in UserId : page.presence[v] <=> LastWord(taken, v)

-----------------------------------------------------------------------------
(* The server of the desk is the server.                                   *)

LEMMA ServerStep ==
  ASSUME [DeskNext]_deskVars
  PROVE  [Next]_vars
<1>1. CASE ClientThread
  <2>1. Dials \/ WritesAuth \/ WritesSend \/ Reads \/ HearsEnd \/ OffSocket
    BY <1>1 DEF ClientThread
  <2>2. CASE Dials \/ HearsEnd \/ OffSocket
    BY <2>2 DEF Dials, HearsEnd, LetGo, OffSocket
  <2>3. CASE WritesAuth \/ WritesSend
    BY <2>3 DEF WritesAuth, WritesSend, Writes1
  <2>4. CASE Reads
    BY <2>4 DEF Reads, LetGo
  <2> QED  BY <2>1, <2>2, <2>3, <2>4
<1>2. CASE Screen \/ Breaks \/ UNCHANGED deskVars
  BY <1>2 DEF Screen, OffSocket, Breaks, LetGo, deskVars
<1>3. CASE ServerSide
  <2>1. ASSUME NEW c \in DeskConns, Serves(c) PROVE Next
    <3>1. c \in Conn
      BY DeskAssumption
    <3>2. Client(c)
      BY <2>1 DEF Serves, Client
    <3> QED  BY <3>1, <3>2 DEF Next
  <2> QED  BY <1>3, <2>1 DEF ServerSide, Visits, Next
<1> QED  BY <1>1, <1>2, <1>3 DEF DeskNext

LEMMA ServerStart == DeskInit => Init
BY DEF DeskInit

\* The client adds nothing to what a server with any clients does, so what is
\* proved of the server holds in front of this client too.
THEOREM DeskHasServer == DeskSpec => Spec
BY ServerStart, ServerStep, PTL DEF DeskSpec, Spec

-----------------------------------------------------------------------------
(* What the server writes to one connection.                               *)

\* A refusal and nothing after it; or a welcome, and then what is late enough.
Refused(c, m) ==
  /\ wire[c] = <<>> /\ phase'[c] = "closed"
  /\ \E e \in ServerError : m = Error(e)

Admitted(c, m) ==
  wire[c] = <<>> /\ phase[c] = "greeting" /\ phase'[c] # "closed" /\ m = AuthSuccess(me[c])

Told(c, m) == Welcomed(c) /\ phase'[c] # "closed" /\ m.type # "AuthSuccess"

LEMMA WriteOfActor ==
  ASSUME TypeInv, SessionInv, NEW c \in Conn, Stage(c), WriteToClient(c)
  PROVE  \E m \in ServerMessage :
           /\ wire'[c] = Append(wire[c], m) /\ me'[c] = me[c]
           /\ phase[c] # "closed" /\ (Refused(c, m) \/ Admitted(c, m) \/ Told(c, m))
<1> USE HasEntries DEF Entries
<1> DEFINE q == Head(script[c])
<1>1. script[c] # <<>> /\ q.do = "toClient" /\ q \in Await
  BY WhoAwaits DEF WriteToClient, Awaiting
<1>2. phase[c] \in {"rejecting", "greeting", "serving"}
  BY <1>1, WhereAwaits
<1>3. wire'[c] = Append(wire[c], q.msg) /\ q.msg \in ServerMessage /\ me'[c] = me[c]
  BY <1>1, AwaitFields DEF WriteToClient
<1>4. CASE phase[c] = "rejecting"
  <2>1. phase'[c] = "closed"
    BY <1>4 DEF WriteToClient, Return
  <2>2. PICK e \in ServerError : script[c] = <<ToClient(Error(e))>> /\ wire[c] = <<>>
    BY <1>4 DEF Stage
  <2>3. q.msg = Error(e)
    BY <2>2 DEF ToClient
  <2>4. Refused(c, q.msg)
    BY <2>1, <2>2, <2>3 DEF Refused
  <2> QED  BY <1>3, <1>4, <2>4
<1>5. CASE phase[c] # "rejecting"
  <2>1. phase'[c] # "closed"
    BY <1>2, <1>5 DEF WriteToClient
  <2>2. CASE phase[c] = "serving"
    <3>1. q \in LateAwait
      BY <1>1, <2>2, WhereAwaits
    <3>2. q.msg.type # "AuthSuccess"
      BY <1>1, <3>1 DEF LateAwait, Late, GreetingType
    <3>3. Len(wire[c]) >= 3 /\ GreetedInOrder(wire[c]) /\ wire[c] \in Seq(ServerMessage)
      BY <2>2 DEF Stage
    <3>4. wire[c] # <<>> /\ 1 \in DOMAIN wire[c]
      BY <3>3
    <3>5. wire[c][1].type = "AuthSuccess"
      <4>1. <<"AuthSuccess", "GroupsList", "UsersList">>[1] = "AuthSuccess" /\ 1 <= 3
        OBVIOUS
      <4> QED  BY <3>3, <3>4, <4>1, Zenon DEF GreetedInOrder
    <3> QED  BY <1>3, <2>1, <2>2, <3>2, <3>4, <3>5 DEF Told, Welcomed
  <2>3. CASE phase[c] = "greeting"
    <3>1. Greets(c)
      BY <2>3, GreetsOne DEF Stage
    <3>2. PICK gs \in SUBSET GroupId :
            \/ q.msg = AuthSuccess(me[c]) /\ wire[c] = <<>>
            \/ q.msg = GroupsList(gs) /\ wire[c] = <<AuthSuccess(me[c])>>
            \/ /\ \E us \in SUBSET UserId : q.msg = UsersList(us)
               /\ wire[c] = <<AuthSuccess(me[c]), GroupsList(gs)>>
      BY <1>1, <3>1 DEF Greets
    <3>3. CASE q.msg = AuthSuccess(me[c]) /\ wire[c] = <<>>
      BY <1>3, <2>1, <2>3, <3>3 DEF Admitted
    <3>4. CASE q.msg = GroupsList(gs) /\ wire[c] = <<AuthSuccess(me[c])>>
      <4>1. q.msg.type # "AuthSuccess"
        BY <3>4 DEF GroupsList
      <4>2. Welcomed(c)
        BY <3>4 DEF Welcomed, AuthSuccess
      <4> QED  BY <1>3, <2>1, <2>3, <4>1, <4>2 DEF Told
    <3>5. CASE /\ \E us \in SUBSET UserId : q.msg = UsersList(us)
               /\ wire[c] = <<AuthSuccess(me[c]), GroupsList(gs)>>
      <4>1. q.msg.type # "AuthSuccess"
        BY <3>5 DEF UsersList
      <4>2. Welcomed(c)
        BY <3>5 DEF Welcomed, AuthSuccess
      <4> QED  BY <1>3, <2>1, <2>3, <4>1, <4>2 DEF Told
    <3> QED  BY <3>2, <3>3, <3>4, <3>5
  <2> QED  BY <1>2, <1>5, <2>2, <2>3
<1> QED  BY <1>4, <1>5

\* Only the actor writes, and a closed connection stays closed.
LEMMA OnlyWritesWrite ==
  ASSUME TypeInv, SessionInv, NEW c \in Conn, Stage(c), Actor(c) \/ Client(c)
  PROVE  WriteToClient(c) \/ (wire'[c] = wire[c] /\ (phase[c] = "closed" => phase'[c] = "closed"))
<1> USE HasEntries DEF Entries
<1>1. phase[c] = "closed" => script[c] = <<>>
  BY WhereAwaits
<1>2. CASE LoginUser(c) \/ CheckName(c) \/ RegisterUser(c)
  BY <1>1, <1>2 DEF LoginUser, CheckName, RegisterUser, Welcome, Reject, OnlyScript, Awaiting
<1>3. CASE FetchGroups(c) \/ FetchUsers(c) \/ PostToRouter(c) \/ PostToSelf(c) \/ ReceiveRouted(c)
  BY <1>1, <1>3 DEF FetchGroups, FetchUsers, PostToRouter, PostToSelf, ReceiveRouted, OnlyScript, Awaiting, Idle
<1>4. CASE Invite(c) \/ AlertInvited(c) \/ NewGroup(c) \/ AddCreator(c)
  BY <1>4 DEF Invite, AlertInvited, NewGroup, AddCreator, OnlyScript
<1>5. CASE FetchMembers(c) \/ FetchInfo(c) \/ SyncMessages(c)
  BY <1>5 DEF FetchMembers, FetchInfo, SyncMessages, OnlyScript
<1>6. CASE Accept(c) \/ Authenticate(c) \/ Request(c)
  BY <1>6 DEF Accept, Authenticate, FirstFrame, Request, HandleFrame, Idle
<1>7. CASE Disconnect(c) \/ LoseWrite(c)
  BY <1>1, <1>7 DEF Disconnect, HangUp, NoFirstFrame, LoseWrite, WriteFails, Break, Return, Idle, Awaiting
<1> QED  BY <1>2, <1>3, <1>4, <1>5, <1>6, <1>7 DEF Actor, ConnStep, Client

LEMMA Grown ==
  ASSUME NEW S, NEW s \in Seq(S), NEW e
  PROVE  Append(s, e) # <<>>
<1>1. Len(Append(s, e)) = Len(s) + 1 /\ Len(s) \in Nat
  BY Appended
<1>2. Len(<<>>) = 0
  OBVIOUS
<1> QED  BY <1>1, <1>2

\* Before its first frame an actor does nothing but wait for it.
LEMMA HearingByActor ==
  ASSUME TypeInv, SessionInv, LeavesLast, NEW c \in Conn, Stage(c), Unheard(c), OwnWelcome(c),
         Actor(c) \/ Client(c)
  PROVE  (Unheard(c) /\ OwnWelcome(c))'
<1> USE HasEntries DEF Entries
<1>1. Unheard(c)'
  <2> SUFFICES ASSUME heard'[c] = <<>>
               PROVE  wire'[c] = <<>> /\ script'[c] = <<>> /\ phase'[c] \in {"fresh", "authenticating", "closed"}
    BY DEF Unheard
  <2>1. \A m : Append(heard[c], m) # <<>>
    BY Grown
  <2>2. ~Authenticate(c) /\ ~Request(c)
    BY <2>1 DEF Authenticate, FirstFrame, Request, HandleFrame
  <2>3. CASE heard[c] = <<>>
    <3>1. wire[c] = <<>> /\ script[c] = <<>> /\ phase[c] \in {"fresh", "authenticating", "closed"}
      BY <2>3 DEF Unheard
    <3>2. ~Actor(c) /\ ~LoseWrite(c) /\ ~HangUp(c)
      BY <3>1 DEF Actor, ConnStep, LoginUser, CheckName, RegisterUser, FetchGroups, FetchUsers,
         PostToRouter, PostToSelf, WriteToClient, ReceiveRouted, Invite, AlertInvited, NewGroup,
         AddCreator, FetchMembers, FetchInfo, SyncMessages, LoseWrite, WriteFails, HangUp,
         Awaiting, Idle
    <3>3. Accept(c) \/ NoFirstFrame(c)
      BY <2>2, <3>2 DEF Client, Disconnect
    <3> QED  BY <3>1, <3>3 DEF Accept, NoFirstFrame, Return
  <2>4. CASE heard[c] # <<>>
    <3>1. heard'[c] = heard[c]
      BY <2>2 DEF Actor, ConnStep, Client, LoginUser, CheckName, RegisterUser, FetchGroups,
         FetchUsers, PostToRouter, PostToSelf, WriteToClient, ReceiveRouted, Invite, AlertInvited,
         NewGroup, AddCreator, FetchMembers, FetchInfo, SyncMessages, Accept, Disconnect, HangUp,
         NoFirstFrame, LoseWrite, WriteFails, Welcome, Reject, OnlyScript
    <3> QED  BY <2>4, <3>1
  <2> QED  BY <2>3, <2>4
<1>2. OwnWelcome(c)'
  <2>1. CASE WriteToClient(c)
    <3>1. PICK m \in ServerMessage :
            wire'[c] = Append(wire[c], m) /\ (Refused(c, m) \/ Admitted(c, m) \/ Told(c, m))
      BY <2>1, WriteOfActor
    <3>2. me'[c] = me[c]
      BY <2>1 DEF WriteToClient
    <3>3. wire[c] \in Seq(ServerMessage) /\ wire'[c] # <<>>
      BY <3>1, Grown
    <3>4. CASE wire[c] = <<>>
      <4>1. wire'[c][1] = m
        BY <3>1, <3>4
      <4>2. (\E e \in ServerError : m = Error(e)) \/ m = AuthSuccess(me[c])
        BY <3>1, <3>4 DEF Refused, Admitted, Told, Welcomed
      <4> QED  BY <3>2, <4>1, <4>2 DEF OwnWelcome, Welcomed, Error
    <3>5. CASE wire[c] # <<>>
      <4>1. wire'[c][1] = wire[c][1]
        BY <3>1, <3>3, <3>5
      <4> QED  BY <3>2, <3>5, <4>1 DEF OwnWelcome, Welcomed
    <3> QED  BY <3>4, <3>5
  <2>2. CASE wire'[c] = wire[c]
    <3>1. CASE me'[c] = me[c]
      BY <2>2, <3>1 DEF OwnWelcome, Welcomed
    <3>2. CASE phase[c] = "authenticating"
      BY <2>2, <3>2 DEF Stage, OwnWelcome, Welcomed
    <3> QED  BY <3>1, <3>2, LifeOfStep DEF LifeStep
  <2> QED  BY <2>1, <2>2, OnlyWritesWrite
<1> QED  BY <1>1, <1>2

LEMMA HearingInit == Init => HearingInv
BY DEF Init, ConnInit, HearingInv, Unheard, OwnWelcome, Welcomed

LEMMA HearingNext ==
  TypeInv /\ SessionInv /\ GreetingInv /\ HearingInv /\ [Next]_vars => HearingInv'
<1> SUFFICES ASSUME TypeInv, SessionInv, GreetingInv, HearingInv, [Next]_vars
             PROVE  HearingInv'
  OBVIOUS
<1> USE HasEntries DEF Entries
<1>1. ASSUME NEW c \in Conn, Actor(c) \/ Client(c)
      PROVE  HearingInv'
  <2>1. (Unheard(c) /\ OwnWelcome(c))'
    BY <1>1, HearingByActor DEF HearingInv, GreetingInv, SessionInv
  <2>2. ASSUME NEW d \in Conn \ {c}
        PROVE  (Unheard(d) /\ OwnWelcome(d))'
    <3>1. Aside(d)
      BY <1>1, OthersStand
    <3> QED  BY <3>1 DEF Aside, HearingInv, Unheard, OwnWelcome, Welcomed
  <2> QED  BY <2>1, <2>2 DEF HearingInv
<1>2. CASE RouterTask \/ SaveTasks \/ Tick \/ UNCHANGED vars
  BY <1>2 DEF RouterTask, SaveTasks, Tick, vars, connVars, HearingInv, Unheard, OwnWelcome, Welcomed
<1>3. CASE Crash
  BY <1>3 DEF Crash, HearingInv, Unheard, OwnWelcome, Welcomed
<1> QED  BY <1>1, <1>2, <1>3 DEF Next

\* What is cited of it here.
ServerInv ==
  /\ TypeInv
  /\ SessionInv
  /\ GreetingInv
  /\ IdentityInv
  /\ RepliesMatch
  /\ PresenceConverges
  /\ HearingInv

LEMMA ServerHolds == DeskSpec => []ServerInv
<1>1. Spec => []ServerInv
  BY TypesHold, BackedInit, SubscriptionInit, FoundedNext, SessionInit, SessionNext,
     PostsFirstNext, AccountsStayUnique, IdentityInit, IdentityNext, GreetingInit, GreetingNext,
     RepliesInOrder, PresenceAgrees, HearingInit, HearingNext, PTL DEF Spec, ServerInv
<1> QED  BY <1>1, DeskHasServer, PTL

-----------------------------------------------------------------------------
(* The client of the desk is the client.                                   *)

LEMMA SameProtocol ==
  /\ C!ServerMessage = ServerMessage
  /\ C!ServerError = ServerError
  /\ C!AuthMessage = AuthMessage
  /\ C!ClientMessage = ClientMessage
  /\ C!ChatMessage = ChatMessage
BY DEF C!ServerMessage, ServerMessage, C!ServerError, ServerError, C!AuthMessage, AuthMessage,
   C!ClientMessage, ClientMessage, C!ChatMessage, ChatMessage, C!Target, Target, C!Timestamp,
   Timestamp, C!Broadcast, Broadcast, C!CreateGroup, CreateGroup

LEMMA ClientStays ==
  ASSUME C!ClientInv, [C!ClientNext]_C!clientVars
  PROVE  C!ClientInv'
BY C!ClientStep, ClientAssumption, SameProtocol, ClockAssumption

LEMMA ClientBegins == DeskInit => C!ClientInv
BY C!ClientStart, ClientAssumption, SameProtocol, ClockAssumption DEF DeskInit

\* What the client does by itself, or with its socket, is a step of the client.
LEMMA ClientMoves ==
  ASSUME ClientThread \/ Screen \/ Breaks
  PROVE  C!ClientNext
<1>1. CASE ClientThread
  BY <1>1 DEF ClientThread, Dials, WritesAuth, WritesSend, Reads, HearsEnd, C!ClientNext, C!Network,
     C!NetStep, screenVars, C!uiVars
<1>2. CASE Breaks
  BY <1>2 DEF Breaks, C!ClientNext, C!Network, screenVars, C!uiVars
<1>3. CASE Screen
  BY <1>3 DEF Screen, Touches, C!ClientNext, C!User
<1> QED  BY <1>1, <1>2, <1>3

LEMMA ClientRests ==
  ASSUME UNCHANGED deskVars
  PROVE  UNCHANGED C!clientVars
BY DEF deskVars, vars, connVars, clientVars, screenVars, socketVars, unread, serverEnd, Welcomed,
   C!clientVars, C!uiVars, C!netVars, C!linkVars

-----------------------------------------------------------------------------
(* The socket.                                                             *)

\* What is left to read, in numbers.
LEMMA Unread ==
  ASSUME TypeInv, SocketInv, Held
  PROVE  /\ cur \in DeskConns /\ cur \in Conn /\ cur \in dialed
         /\ wire[cur] \in Seq(ServerMessage) /\ Len(wire[cur]) \in Nat /\ read <= Len(wire[cur])
         /\ unread \in Seq(ServerMessage) /\ Len(unread) = Len(wire[cur]) - read
         /\ unread = <<>> <=> read = Len(wire[cur])
         /\ unread # <<>> => Head(unread) = wire[cur][read + 1]
<1> USE HasEntries DEF Entries
<1>1. cur \in DeskConns /\ cur \in Conn /\ cur \in dialed /\ read \in Nat
  BY DeskAssumption DEF SocketInv, Held
<1>2. wire[cur] \in Seq(ServerMessage) /\ Len(wire[cur]) \in Nat /\ read <= Len(wire[cur])
  BY <1>1 DEF SocketInv
<1>3. unread = SubSeq(wire[cur], read + 1, Len(wire[cur]))
  BY DEF unread, Held
<1>4. /\ unread \in Seq(ServerMessage) /\ Len(unread) = Len(wire[cur]) - read
      /\ unread # <<>> => Head(unread) = wire[cur][read + 1]
  BY <1>1, <1>2, <1>3
<1>5. unread = <<>> <=> Len(unread) = 0
  BY <1>4
<1> QED  BY <1>1, <1>2, <1>4, <1>5

\* The commands the screen queues ask nothing the server answers with an error.
LEMMA ScreenKeeps ==
  ASSUME C!ClientTypes, Screen
  PROVE  /\ UNCHANGED <<vars, socketVars, net, auth, sent>>
         /\ cmds' = cmds \/ \E x : cmds' = Append(cmds, x) /\ (x.cmd = "Send" => ~Asks(x.msg))
<1> USE DEF Screen, OffSocket, C!netVars
<1>1. CASE C!Frame
  <2>1. CASE C!Repaint \/ C!Watch
    BY <2>1 DEF C!Repaint, C!Begin, C!Watch
  <2>2. CASE C!TakeMessage
    <3>1. ~Asks(C!Sync(0))
      BY DEF C!Sync, Asks
    <3> QED  BY <2>2, <3>1 DEF C!TakeMessage, C!OnAuthSuccess, C!OnError, C!OnOther, C!Issue, C!Send
  <2>3. CASE C!HandleModals
    <3>1. ASSUME NEW modal \in C!Modal, NEW m \in C!Submitted(modal)
          PROVE  ~Asks(m)
      <4>1. CASE modal = C!ErrorModal
        BY <3>1, <4>1 DEF C!Submitted, C!ErrorModal
      <4>2. CASE modal = C!CreateGroupModal
        BY <3>1, <4>2 DEF C!Submitted, C!CreateGroup, C!CreateGroupModal, Asks
      <4>3. CASE modal.modal = "invite"
        BY <3>1, <4>3 DEF C!Submitted, C!InviteToGroup, Asks
      <4> QED  BY <3>1, <4>1, <4>2, <4>3 DEF C!Modal
    <3>2. modals # <<>> => C!Last(modals) \in C!Modal
      BY DEF C!ClientTypes, C!Last
    <3>3. UNCHANGED cmds \/ (modals # <<>> /\ \E m \in C!Submitted(C!Last(modals)) : C!Issue(m))
      BY <2>3 DEF C!HandleModals
    <3>4. \A m : C!Issue(m) => cmds' = Append(cmds, C!Send(m, logins))
      BY DEF C!Issue
    <3>5. \A m : C!Send(m, logins).msg = m
      BY DEF C!Send
    <3>6. cmds' = cmds \/ \E x : cmds' = Append(cmds, x) /\ (x.cmd = "Send" => ~Asks(x.msg))
      BY <3>1, <3>2, <3>3, <3>4, <3>5
    <3> QED  BY <2>3, <3>6 DEF C!HandleModals
  <2> QED  BY <1>1, <2>1, <2>2, <2>3 DEF C!Frame
<1>2. CASE Touches
  BY <1>2 DEF Touches, C!Touch, C!Begin
<1>3. CASE C!ClickLogin
  BY <1>3 DEF C!ClickLogin, C!Connect
<1>4. CASE C!SelectChat \/ C!OpenModal
  BY <1>4 DEF C!SelectChat, C!OpenModal, C!OnChat
<1>5. CASE C!SendContent
  BY <1>5 DEF C!SendContent, C!OnChat, C!Issue, C!Send, C!SendMessage, Asks
<1> QED  BY <1>1, <1>2, <1>3, <1>4, <1>5

\* A command more, or the first one less.
LEMMA OneMore ==
  ASSUME NEW n \in Nat
  PROVE  \A i \in 1 .. n + 1 : i \in 1 .. n \/ i = n + 1
OBVIOUS

LEMMA QuietQueue ==
  ASSUME NEW S, NEW q \in Seq(S), QuietCommands(q), NEW t,
         \/ t = q
         \/ q # <<>> /\ t = Tail(q)
         \/ \E x : t = Append(q, x) /\ (x.cmd = "Send" => ~Asks(x.msg))
  PROVE  QuietCommands(t)
<1>1. CASE q # <<>> /\ t = Tail(q)
  <2>1. /\ DOMAIN q = 1 .. Len(q) /\ DOMAIN t = 1 .. Len(q) - 1 /\ Len(q) \in Nat
        /\ \A i \in 1 .. Len(q) - 1 : t[i] = q[i + 1] /\ i + 1 \in 1 .. Len(q)
    BY <1>1
  <2> QED  BY <2>1, Zenon DEF QuietCommands
<1>2. CASE \E x : t = Append(q, x) /\ (x.cmd = "Send" => ~Asks(x.msg))
  <2>1. PICK x : t = Append(q, x) /\ (x.cmd = "Send" => ~Asks(x.msg))
    BY <1>2
  <2>2. /\ DOMAIN t = 1 .. Len(q) + 1 /\ DOMAIN q = 1 .. Len(q)
        /\ (\A i \in DOMAIN q : t[i] = q[i]) /\ t[Len(q) + 1] = x
        /\ Len(q) \in Nat
    BY <2>1, Appended
  <2>3. \A i \in 1 .. Len(q) + 1 : i \in 1 .. Len(q) \/ i = Len(q) + 1
    BY <2>2, OneMore
  <2> QED  BY <2>1, <2>2, <2>3, Zenon DEF QuietCommands
<1> QED  BY <1>1, <1>2

\* A frame written to the connection held.
LEMMA UpGrows ==
  ASSUME TypeInv, LinkInv, Held, NEW m \in ClientMessage,
         Asks(m) => up[cur] = <<>> /\ heard[cur] = <<>>, Writes1(m)
  PROVE  /\ up' \in [DeskConns -> Seq(ClientMessage)]
         /\ \A c \in DeskConns \ {cur} : up'[c] = up[c]
         /\ \A c \in DeskConns : \A i \in DOMAIN up'[c] : Asks(up'[c][i]) => i = 1 /\ heard'[c] = <<>>
         /\ UNCHANGED <<vars, heard>>
<1> USE DEF LinkInv, SocketInv, Writes1, vars, connVars
<1>1. cur \in DeskConns /\ up[cur] \in Seq(ClientMessage)
  BY Unread
<1>2. up' = [up EXCEPT ![cur] = Append(up[cur], m)] /\ Append(up[cur], m) \in Seq(ClientMessage)
  BY <1>1
<1>3. up' \in [DeskConns -> Seq(ClientMessage)] /\ up'[cur] = Append(up[cur], m)
  BY <1>1, <1>2
<1>4. \A c \in DeskConns \ {cur} : up'[c] = up[c]
  BY <1>1, <1>2
<1>5. ASSUME NEW i \in DOMAIN up'[cur], Asks(up'[cur][i])
      PROVE  i = 1 /\ heard[cur] = <<>>
  <2>1. /\ DOMAIN up'[cur] = 1 .. Len(up[cur]) + 1 /\ DOMAIN up[cur] = 1 .. Len(up[cur])
        /\ (\A j \in DOMAIN up[cur] : up'[cur][j] = up[cur][j]) /\ up'[cur][Len(up[cur]) + 1] = m
        /\ Len(up[cur]) \in Nat
    BY <1>1, <1>3
  <2>2. CASE i \in DOMAIN up[cur]
    BY <1>1, <1>5, <2>1, <2>2 DEF QuietInv
  <2>3. CASE i = Len(up[cur]) + 1
    <3>1. Asks(m)
      BY <1>5, <2>1, <2>3
    <3>2. Len(<<>>) = 0
      OBVIOUS
    <3> QED  BY <2>3, <3>1, <3>2
  <2> QED  BY <1>5, <2>1, <2>2, <2>3
<1>6. heard' = heard
  OBVIOUS
<1>7. \A c \in DeskConns : \A i \in DOMAIN up'[c] : Asks(up'[c][i]) => i = 1 /\ heard'[c] = <<>>
  BY <1>4, <1>5, <1>6 DEF QuietInv
<1> QED  BY <1>3, <1>4, <1>7

\* The parts of the invariant that a step which writes nothing leaves alone.
LEMMA NothingWritten ==
  ASSUME TypeInv, LinkInv, UNCHANGED <<vars, up>>
  PROVE  /\ up' \in [DeskConns -> Seq(ClientMessage)]
         /\ \A c \in DeskConns :
              /\ \A i \in DOMAIN up'[c] : Asks(up'[c][i]) => i = 1 /\ heard'[c] = <<>>
              /\ AskedAt(c)' = {}
BY DEF LinkInv, SocketInv, QuietInv, AskedAt, vars, connVars

LEMMA DialLinks ==
  ASSUME ServerInv, C!ClientInv, LinkInv, Dials
  PROVE  LinkInv'
<1> USE DEF LinkInv, SocketInv, ServerInv
<1>1. PICK c \in DeskConns \ dialed : cur' = c /\ dialed' = dialed \cup {c}
  BY DEF Dials
<1>2. UNCHANGED <<vars, up>> /\ read' = 0 /\ net' = "opened" /\ sent' = <<>> /\ cmds' = cmds
  BY DEF Dials, C!Dial
<1>3. UNCHANGED <<phase, wire, heard, script>>
  BY <1>2 DEF vars, connVars
<1>4. c \in Conn /\ c # NoConn /\ wire[c] \in Seq(ServerMessage)
  BY DeskAssumption, ConnAssumption, HasEntries DEF Entries
<1>5. phase[c] = "fresh" /\ up[c] = <<>> /\ heard[c] = <<>>
  BY <1>4 DEF IdentityInv, Asked
<1>6. 0 <= Len(wire[c])
  BY <1>4
<1>7. SocketInv'
  <2>1. Held' /\ C!Linked'
    BY <1>1, <1>2, <1>4 DEF Held, C!Linked
  <2>2. Len(wire'[cur']) = Len(wire[c])
    BY <1>1, <1>3
  <2> QED  BY <1>1, <1>2, <1>3, <1>5, <1>6, <2>1, <2>2
<1>8. QuietInv'
  BY <1>2, NothingWritten DEF QuietInv
<1> QED  BY <1>7, <1>8

LEMMA WriteLinks ==
  ASSUME ServerInv, C!ClientInv, LinkInv, WritesAuth \/ WritesSend
  PROVE  LinkInv'
<1> USE DEF LinkInv, SocketInv, ServerInv, C!ClientInv
<1>1. Held
  BY DEF WritesAuth, WritesSend, C!Linked
<1>2. cur \in DeskConns /\ cur \in dialed
  BY <1>1, Unread
<1>3. UNCHANGED <<vars, dialed, cur, read>> /\ net' = "online" /\ sent' # <<>>
  <2>1. CASE WritesAuth
    BY <2>1 DEF WritesAuth, Writes1, C!WriteAuth
  <2>2. CASE WritesSend
    <3>1. sent \in Seq(C!Command) /\ net' = net /\ net = "online"
      BY <2>2 DEF WritesSend, C!Write, C!ClientTypes
    <3>2. Append(sent, Head(cmds)) # <<>>
      BY <3>1, Grown
    <3> QED  BY <2>2, <3>1, <3>2 DEF WritesSend, Writes1, C!Write
  <2> QED  BY <2>1, <2>2
<1>4. PICK m \in ClientMessage :
        Writes1(m) /\ (Asks(m) => up[cur] = <<>> /\ heard[cur] = <<>>)
  <2>1. CASE WritesAuth
    <3>1. auth.msg \in ClientMessage
      BY <2>1, SameProtocol DEF WritesAuth, C!ClientTypes, C!Command
    <3>2. sent = <<>>
      BY <2>1 DEF WritesAuth, C!HeldIsOwn
    <3> QED  BY <1>1, <2>1, <3>1, <3>2 DEF WritesAuth
  <2>2. CASE WritesSend
    <3>1. /\ cmds \in Seq(C!Command) /\ cmds # <<>> /\ 1 \in DOMAIN cmds
          /\ Head(cmds) = cmds[1] /\ Head(cmds) \in C!Command
      BY <2>2 DEF WritesSend, C!ClientTypes
    <3>2. Head(cmds).msg \in ClientMessage
      BY <3>1, SameProtocol DEF C!Command
    <3>3. Head(cmds).cmd = "Send"
      BY <2>2 DEF WritesSend, C!Write, C!NextIs
    <3>4. ~Asks(Head(cmds).msg)
      BY <3>1, <3>3 DEF QuietInv, QuietCommands
    <3> QED  BY <2>2, <3>2, <3>4 DEF WritesSend
  <2> QED  BY <2>1, <2>2
<1>5. /\ up' \in [DeskConns -> Seq(ClientMessage)]
      /\ \A c \in DeskConns \ {cur} : up'[c] = up[c]
      /\ \A c \in DeskConns : \A i \in DOMAIN up'[c] : Asks(up'[c][i]) => i = 1 /\ heard'[c] = <<>>
  BY <1>1, <1>4, UpGrows
<1>6. SocketInv'
  <2>1. UNCHANGED <<phase, wire, heard>>
    BY <1>3 DEF vars, connVars
  <2>2. Held' /\ C!Linked'
    BY <1>1, <1>3 DEF Held, C!Linked
  <2>3. \A c \in DeskConns \ dialed' : phase'[c] = "fresh" /\ up'[c] = <<>>
    BY <1>2, <1>3, <1>5, <2>1
  <2>4. Held' => read' <= Len(wire'[cur'])
    BY <1>1, <1>3, <2>1
  <2> QED  BY <1>2, <1>3, <1>5, <2>1, <2>2, <2>3, <2>4
<1>7. QuietInv'
  <2>1. QuietCommands(cmds')
    <3>1. cmds \in Seq(C!Command)
      BY DEF C!ClientTypes
    <3>2. cmds' = cmds \/ (cmds # <<>> /\ cmds' = Tail(cmds))
      BY DEF WritesAuth, WritesSend, C!WriteAuth, C!Write
    <3> QED  BY <3>1, <3>2, QuietQueue DEF QuietInv
  <2>2. \A c \in DeskConns : AskedAt(c)' = {}
    BY <1>3 DEF QuietInv, AskedAt, vars, connVars
  <2> QED  BY <1>5, <2>1, <2>2 DEF QuietInv
<1> QED  BY <1>6, <1>7

LEMMA ReadLinks ==
  ASSUME ServerInv, C!ClientInv, LinkInv, Reads \/ HearsEnd
  PROVE  LinkInv'
<1> USE DEF LinkInv, SocketInv, ServerInv, C!ClientInv
<1>1. Held /\ UNCHANGED <<vars, up, dialed>>
  BY DEF Reads, HearsEnd, LetGo, C!Linked
<1>2. UNCHANGED <<phase, wire, heard>>
  BY <1>1 DEF vars, connVars
<1>3. cur \in Conn /\ cur # NoConn
  BY <1>1, Unread, ConnAssumption
<1>4. ASSUME LetGo, net' \in {"closing", "failed"}
      PROVE  SocketInv'
  <2>1. ~Held' /\ ~C!Linked' /\ read' = 0
    BY <1>4 DEF LetGo, Held, C!Linked
  <2> QED  BY <1>1, <1>2, <1>4, <2>1, NothingWritten DEF LetGo, Held
<1>5. ASSUME Reads, read' = read + 1, net' = "delivering", cur' = cur, sent' = sent
      PROVE  SocketInv'
  <2>1. Held' /\ C!Linked' /\ sent # <<>>
    BY <1>1, <1>5 DEF Reads, Held, C!Linked, C!HeldIsOwn
  <2>2. unread # <<>> /\ read + 1 <= Len(wire[cur])
    BY <1>1, <1>5, Unread DEF Reads
  <2>3. read' \in Nat /\ (Held' => read' <= Len(wire'[cur']))
    BY <1>1, <1>2, <1>5, <2>2
  <2> QED  BY <1>1, <1>2, <1>5, <2>1, <2>3, NothingWritten
<1>6. \/ LetGo /\ net' \in {"closing", "failed"}
      \/ Reads /\ read' = read + 1 /\ net' = "delivering" /\ cur' = cur /\ sent' = sent
  <2>1. CASE Reads
    <3>1. CASE Head(unread).type = "Error"
      <4>1. LetGo
        BY <2>1, <3>1 DEF Reads
      <4>2. net' = "closing"
        BY <2>1, <3>1 DEF Reads, C!Receive, C!Drop
      <4> QED  BY <4>1, <4>2
    <3>2. CASE Head(unread).type # "Error"
      BY <2>1, <3>2 DEF Reads, C!Receive
    <3> QED  BY <3>1, <3>2
  <2>2. CASE HearsEnd
    BY <2>2 DEF HearsEnd, C!EndOfStream, C!Drop
  <2> QED  BY <2>1, <2>2
<1>7. QuietInv'
  <2>1. cmds \in Seq(C!Command)
    BY DEF C!ClientTypes
  <2>2. cmds' = cmds \/ (cmds # <<>> /\ cmds' = Tail(cmds))
    BY DEF Reads, HearsEnd, C!Receive, C!EndOfStream
  <2>3. QuietCommands(cmds')
    BY <2>1, <2>2, QuietQueue DEF QuietInv
  <2> QED  BY <1>1, <2>3, NothingWritten DEF QuietInv
<1>8. SocketInv'
  BY <1>4, <1>5, <1>6
<1> QED  BY <1>7, <1>8

\* Whatever fails, at whatever time, the client holds no connection after it.
LEMMA BreakLinks ==
  ASSUME ServerInv, C!ClientInv, LinkInv, Breaks
  PROVE  LinkInv'
<1> USE DEF LinkInv, SocketInv, ServerInv, C!ClientInv
<1>1. UNCHANGED <<vars, up, dialed>> /\ cur' = NoConn /\ read' = 0 /\ net' = "failed"
  BY DEF Breaks, LetGo, C!Fail, C!Drop
<1>2. UNCHANGED <<phase, wire, heard>>
  BY <1>1 DEF vars, connVars
<1>3. SocketInv'
  <2>1. ~Held' /\ ~C!Linked'
    BY <1>1 DEF Held, C!Linked
  <2> QED  BY <1>1, <1>2, <2>1, NothingWritten
<1>4. QuietInv'
  <2>1. cmds \in Seq(C!Command)
    BY DEF C!ClientTypes
  <2>2. cmds' = cmds \/ (cmds # <<>> /\ cmds' = Tail(cmds))
    BY DEF Breaks, C!Fail, C!NextIs
  <2>3. QuietCommands(cmds')
    BY <2>1, <2>2, QuietQueue DEF QuietInv
  <2> QED  BY <1>1, <2>3, NothingWritten DEF QuietInv
<1> QED  BY <1>3, <1>4

\* The steps of the client beside its socket.
LEMMA AsideLinks ==
  ASSUME ServerInv, C!ClientInv, LinkInv,
         \/ OffSocket /\ (C!TakeConnect \/ C!Refuse \/ C!IgnoreConnect \/ C!Report \/ C!Wake)
         \/ Screen
  PROVE  LinkInv'
<1> USE DEF LinkInv, SocketInv, ServerInv, C!ClientInv
<1>1. UNCHANGED <<vars, socketVars, sent>>
  BY ScreenKeeps DEF OffSocket, C!TakeConnect, C!Refuse, C!IgnoreConnect, C!Report, C!Wake, C!netVars
<1>2. UNCHANGED <<phase, wire, heard, up, dialed, cur, read>>
  BY <1>1 DEF vars, connVars, socketVars
<1>3. C!Linked' <=> C!Linked
  BY ScreenKeeps DEF C!Linked, C!TakeConnect, C!Refuse, C!IgnoreConnect, C!Report, C!Wake, C!netVars
<1>4. SocketInv'
  BY <1>1, <1>2, <1>3 DEF Held
<1>5. QuietInv'
  <2>1. cmds \in Seq(C!Command)
    BY DEF C!ClientTypes
  <2>2. \/ cmds' = cmds
        \/ cmds # <<>> /\ cmds' = Tail(cmds)
        \/ \E x : cmds' = Append(cmds, x) /\ (x.cmd = "Send" => ~Asks(x.msg))
    BY ScreenKeeps DEF C!TakeConnect, C!Refuse, C!IgnoreConnect, C!Report, C!Wake, C!NextIs
  <2>3. QuietCommands(cmds')
    BY <2>1, <2>2, QuietQueue DEF QuietInv
  <2>4. UNCHANGED <<vars, up>>
    BY <1>1, <1>2
  <2> QED  BY <2>3, <2>4, NothingWritten DEF QuietInv
<1> QED  BY <1>4, <1>5

\* What the server hears of a connection of the client is what the client wrote.
HeardOf(c) ==
  \/ heard'[c] = heard[c] /\ up'[c] = up[c]
  \/ /\ up[c] # <<>> /\ c \in dialed
     /\ heard'[c] = Append(heard[c], Head(up[c])) /\ up'[c] = Tail(up[c])

LEMMA ActorIsDeaf ==
  ASSUME NEW c \in Conn, Actor(c) \/ Accept(c) \/ Disconnect(c) \/ LoseWrite(c)
  PROVE  heard' = heard
BY DEF Actor, ConnStep, LoginUser, CheckName, RegisterUser, FetchGroups, FetchUsers, PostToRouter,
   PostToSelf, WriteToClient, ReceiveRouted, Invite, AlertInvited, NewGroup, AddCreator,
   FetchMembers, FetchInfo, SyncMessages, Accept, Disconnect, HangUp, NoFirstFrame, LoseWrite,
   WriteFails, Welcome, Reject, OnlyScript

LEMMA ServesOne ==
  ASSUME ServerInv, SocketInv, NEW c \in DeskConns, Serves(c)
  PROVE  /\ Client(c) /\ c \in dialed
         /\ up' \in [DeskConns -> Seq(ClientMessage)]
         /\ \A d \in DeskConns : HeardOf(d)
<1> USE DEF ServerInv, SocketInv
<1>1. Client(c) /\ c \in Conn
  BY DeskAssumption DEF Serves, Client
<1>2. c \in dialed
  BY DEF Serves, Gone
<1>3. \A d \in DeskConns \ {c} : heard'[d] = heard[d]
  BY <1>1, DeskAssumption, OthersStand DEF Aside
<1>4. CASE UNCHANGED up /\ (Accept(c) \/ Disconnect(c) \/ LoseWrite(c))
  BY <1>1, <1>2, <1>4, ActorIsDeaf DEF HeardOf
<1>5. CASE /\ up[c] # <<>>
           /\ heard'[c] = Append(heard[c], Head(up[c]))
           /\ up' = [up EXCEPT ![c] = Tail(@)]
  <2>1. Tail(up[c]) \in Seq(ClientMessage)
    BY <1>5, TailTypes
  <2>2. up' \in [DeskConns -> Seq(ClientMessage)] /\ up'[c] = Tail(up[c])
    BY <1>5, <2>1
  <2>3. \A d \in DeskConns \ {c} : up'[d] = up[d]
    BY <1>5
  <2> QED  BY <1>1, <1>2, <1>3, <1>5, <2>2, <2>3 DEF HeardOf
<1> QED  BY <1>4, <1>5 DEF Serves

LEMMA HeardByServer ==
  ASSUME ServerInv, SocketInv, ServerSide
  PROVE  /\ up' \in [DeskConns -> Seq(ClientMessage)]
         /\ \A c \in DeskConns : HeardOf(c)
         /\ \A c \in DeskConns \ dialed : phase'[c] = "fresh"
<1> USE HasEntries DEF Entries, ServerInv
<1>1. up \in [DeskConns -> Seq(ClientMessage)]
  BY DEF SocketInv
<1>2. ASSUME NEW c \in DeskConns \ dialed
      PROVE  phase[c] = "fresh" /\ script[c] = <<>> /\ c \in Conn
  <2>1. phase[c] = "fresh" /\ c \in Conn
    BY DeskAssumption DEF SocketInv
  <2> QED  BY <2>1, WhereAwaits DEF GreetingInv
<1>3. ASSUME NEW c \in Conn, Actor(c) \/ Client(c), c \notin DeskConns \ dialed
      PROVE  \A d \in DeskConns \ dialed : phase'[d] = "fresh"
  BY <1>2, <1>3, OthersStand DEF Aside
<1>4. ASSUME NEW c \in DeskConns, Serves(c)
      PROVE  /\ up' \in [DeskConns -> Seq(ClientMessage)]
             /\ \A d \in DeskConns : HeardOf(d)
             /\ \A d \in DeskConns \ dialed : phase'[d] = "fresh"
  BY <1>3, <1>4, ServesOne, DeskAssumption
<1>5. ASSUME UNCHANGED up, NEW c \in Conn, Actor(c)
      PROVE  /\ up' \in [DeskConns -> Seq(ClientMessage)]
             /\ \A d \in DeskConns : HeardOf(d)
             /\ \A d \in DeskConns \ dialed : phase'[d] = "fresh"
  <2>1. c \notin DeskConns \ dialed
    BY <1>2, <1>5 DEF Actor, ConnStep, LoginUser, CheckName, RegisterUser, FetchGroups, FetchUsers,
       PostToRouter, PostToSelf, WriteToClient, ReceiveRouted, Invite, AlertInvited, NewGroup,
       AddCreator, FetchMembers, FetchInfo, SyncMessages, Awaiting, Idle
  <2> QED  BY <1>1, <1>3, <1>5, <2>1, ActorIsDeaf DEF HeardOf
<1>6. ASSUME UNCHANGED up, NEW c \in Conn \ DeskConns, Visits(c)
      PROVE  /\ up' \in [DeskConns -> Seq(ClientMessage)]
             /\ \A d \in DeskConns : HeardOf(d)
             /\ \A d \in DeskConns \ dialed : phase'[d] = "fresh"
  <2>1. Client(c)
    BY <1>6 DEF Visits
  <2>2. \A d \in DeskConns : heard'[d] = heard[d]
    BY <2>1, OthersStand, DeskAssumption DEF Aside
  <2> QED  BY <1>1, <1>3, <1>6, <2>1, <2>2 DEF HeardOf
<1>7. CASE UNCHANGED up /\ (RouterTask \/ SaveTasks)
  BY <1>1, <1>2, <1>7 DEF RouterTask, SaveTasks, connVars, HeardOf
<1>8. CASE UNCHANGED up /\ Crash
  BY <1>1, <1>2, <1>8 DEF Crash, HeardOf
<1> QED  BY <1>4, <1>5, <1>6, <1>7, <1>8 DEF ServerSide, socketVars

\* Each connection of the server goes on in one of these ways.
WireOf(c) ==
  \/ wire'[c] = wire[c] /\ (phase[c] = "closed" => phase'[c] = "closed")
  \/ /\ phase[c] # "closed" /\ me'[c] = me[c]
     /\ \E m \in ServerMessage :
          wire'[c] = Append(wire[c], m) /\ (Refused(c, m) \/ Admitted(c, m) \/ Told(c, m))

LEMMA WiresGrow ==
  ASSUME TypeInv, SessionInv, GreetingInv, [Next]_vars, NEW c \in Conn
  PROVE  WireOf(c)
<1> USE HasEntries DEF Entries
<1>1. ASSUME NEW d \in Conn, Actor(d) \/ Client(d)
      PROVE  WireOf(c)
  <2>1. CASE d = c
    <3>1. Stage(c) /\ (Actor(c) \/ Client(c))
      BY <1>1, <2>1 DEF GreetingInv
    <3>2. CASE WriteToClient(c)
      BY <3>1, <3>2, WriteOfActor, Zenon DEF WireOf
    <3>3. CASE ~WriteToClient(c)
      BY <3>1, <3>3, OnlyWritesWrite DEF WireOf
    <3> QED  BY <3>2, <3>3
  <2>2. CASE d # c
    BY <1>1, <2>2, OthersStand DEF Aside, WireOf
  <2> QED  BY <2>1, <2>2
<1>2. CASE RouterTask \/ SaveTasks \/ Tick \/ UNCHANGED vars
  BY <1>2 DEF RouterTask, SaveTasks, Tick, vars, connVars, WireOf
<1>3. CASE Crash
  BY <1>3 DEF Crash, WireOf
<1> QED  BY <1>1, <1>2, <1>3 DEF Next

\* The server moves when the client has nothing to do by itself.
LEMMA NothingPending ==
  ASSUME ServerInv, C!ClientInv, LinkInv, ~Busy, Held
  PROVE  /\ net = "online" /\ sent # <<>> /\ inbox = <<>>
         /\ unread = <<>> /\ read = Len(wire[cur])
<1> USE DEF C!ClientInv, LinkInv
<1>1. net = "online"
  BY DEF SocketInv, C!Linked, Busy
<1>2. sent # <<>>
  BY <1>1 DEF C!HeldIsOwn
<1>3. inbox = <<>>
  BY <1>1 DEF Busy, C!NoLostWakeup
<1>4. unread = <<>>
  BY <1>1 DEF Busy
<1> QED  BY <1>1, <1>2, <1>3, <1>4, Unread DEF ServerInv

LEMMA AskedAfter ==
  ASSUME ServerInv, LinkInv, NEW c \in DeskConns, HeardOf(c), Unheard(c)
  PROVE  /\ \A i \in DOMAIN up'[c] : Asks(up'[c][i]) => i = 1 /\ heard'[c] = <<>>
         /\ AskedAt(c)' = {}
<1> USE HasEntries DEF Entries, ServerInv, LinkInv
<1>1. CASE heard'[c] = heard[c] /\ up'[c] = up[c]
  BY <1>1 DEF QuietInv, AskedAt
<1>2. CASE /\ up[c] # <<>> /\ c \in dialed
           /\ heard'[c] = Append(heard[c], Head(up[c])) /\ up'[c] = Tail(up[c])
  <2>1. up[c] \in Seq(ClientMessage) /\ c \in Conn /\ heard[c] \in Seq(FirstFrames \cup Requests)
    BY DeskAssumption DEF SocketInv
  <2>2. /\ Head(up[c]) = up[c][1] /\ 1 \in DOMAIN up[c]
        /\ DOMAIN up[c] = 1 .. Len(up[c]) /\ DOMAIN up'[c] = 1 .. Len(up[c]) - 1 /\ Len(up[c]) \in Nat
        /\ \A i \in 1 .. Len(up[c]) - 1 : up'[c][i] = up[c][i + 1] /\ i + 1 \in 1 .. Len(up[c]) /\ i + 1 # 1
    BY <1>2, <2>1
  <2>3. \A i \in DOMAIN up[c] : Asks(up[c][i]) => i = 1 /\ heard[c] = <<>>
    BY DEF QuietInv
  <2>4. \A i \in DOMAIN up'[c] : ~Asks(up'[c][i])
    BY <2>2, <2>3, Zenon
  <2>5. ASSUME NEW i \in AskedAt(c)'
        PROVE  FALSE
    <3>1. /\ DOMAIN heard'[c] = 1 .. Len(heard[c]) + 1 /\ DOMAIN heard[c] = 1 .. Len(heard[c])
          /\ \A j \in DOMAIN heard[c] : heard'[c][j] = heard[c][j]
          /\ heard'[c][Len(heard[c]) + 1] = Head(up[c]) /\ Len(heard[c]) \in Nat
      BY <1>2, <2>1, Appended
    <3>2. i \in 1 .. Len(heard[c]) + 1 /\ i > 1 /\ Asks(heard'[c][i])
      BY <3>1 DEF AskedAt
    <3>3. CASE i \in DOMAIN heard[c]
      <4>1. i \in AskedAt(c)
        BY <3>1, <3>2, <3>3 DEF AskedAt
      <4> QED  BY <4>1 DEF QuietInv
    <3>4. CASE i = Len(heard[c]) + 1
      <4>1. heard[c] # <<>> /\ Asks(up[c][1])
        BY <2>2, <3>1, <3>2, <3>4
      <4> QED  BY <2>2, <2>3, <4>1
    <3> QED  BY <3>1, <3>2, <3>3, <3>4, OneMore
  <2> QED  BY <2>4, <2>5
<1> QED  BY <1>1, <1>2 DEF HeardOf

LEMMA LinkByServer ==
  ASSUME ServerInv, C!ClientInv, LinkInv, ServerSide
  PROVE  LinkInv'
<1> USE DEF LinkInv
<1>1. UNCHANGED <<clientVars, dialed, cur, read, before>>
  BY DEF ServerSide, Serves, socketVars
<1>2. UNCHANGED <<cmds, net, sent>>
  BY <1>1 DEF clientVars
<1>3. /\ up' \in [DeskConns -> Seq(ClientMessage)]
      /\ \A c \in DeskConns : HeardOf(c)
      /\ \A c \in DeskConns \ dialed : phase'[c] = "fresh"
  BY HeardByServer
<1>4. SocketInv'
  <2>1. \A c \in DeskConns \ dialed : up'[c] = <<>>
    BY <1>3 DEF SocketInv, HeardOf
  <2>2. Held' = Held /\ (C!Linked' <=> C!Linked)
    BY <1>1, <1>2 DEF Held, C!Linked
  <2>3. ASSUME Held
        PROVE  read' <= Len(wire'[cur']) /\ sent' # <<>>
    <3>1. /\ cur \in Conn /\ wire[cur] \in Seq(ServerMessage) /\ Len(wire[cur]) \in Nat
          /\ read \in Nat /\ read <= Len(wire[cur])
      BY <2>3, Unread DEF ServerInv, SocketInv
    <3>2. WireOf(cur)
      <4>1. [Next]_vars
        BY ServerStep DEF DeskNext
      <4> QED  BY <3>1, <4>1, WiresGrow DEF ServerInv
    <3>3. ASSUME wire'[cur] = wire[cur]
          PROVE  read' <= Len(wire'[cur'])
      BY <1>1, <3>1, <3>3
    <3>4. ASSUME NEW m, wire'[cur] = Append(wire[cur], m)
          PROVE  read' <= Len(wire'[cur'])
      <4>1. Len(wire'[cur]) = Len(wire[cur]) + 1
        BY <3>1, <3>4, Appended
      <4> QED  BY <1>1, <3>1, <4>1
    <3>5. sent # <<>>
      BY <2>3, NothingPending DEF ServerSide
    <3> QED  BY <1>1, <1>2, <3>2, <3>3, <3>4, <3>5 DEF WireOf
  <2> QED  BY <1>1, <1>3, <2>1, <2>2, <2>3 DEF SocketInv
<1>5. QuietInv'
  <2>1. \A c \in DeskConns : Unheard(c)
    BY DeskAssumption DEF ServerInv, HearingInv
  <2>2. \A c \in DeskConns :
          /\ \A i \in DOMAIN up'[c] : Asks(up'[c][i]) => i = 1 /\ heard'[c] = <<>>
          /\ AskedAt(c)' = {}
    BY <1>3, <2>1, AskedAfter
  <2> QED  BY <1>2, <2>2 DEF QuietInv
<1> QED  BY <1>4, <1>5

-----------------------------------------------------------------------------
(* The server is the server the client's theorems assume.                  *)

\* Whoever has asked nothing that an error answers is sent no error.
LEMMA NoErrorTold ==
  ASSUME ServerInv, ServerInv', LinkInv', NEW c \in DeskConns, NEW m \in ServerMessage,
         Welcomed(c), me'[c] = me[c], wire'[c] = Append(wire[c], m)
  PROVE  m.type # "Error"
<1> USE HasEntries DEF Entries, ServerInv
<1>1. c \in Conn /\ wire[c] \in Seq(ServerMessage) /\ wire[c] # <<>> /\ OwnWelcome(c)
  BY DeskAssumption DEF Welcomed, HearingInv
<1>2. wire[c][1] \in ServerMessage /\ wire[c][1] = AuthSuccess(me[c])
  BY <1>1 DEF OwnWelcome
<1>3. me'[c] # NoUser
  <2>1. me[c] \in UserId
    BY <1>2 DEF AuthSuccess, ServerMessage, ChatMessage
  <2> QED  BY <2>1, NullAssumption
<1>4. AskedAt(c)' = {}
  BY DEF LinkInv, QuietInv
<1>5. AnsweredAt(c)' = {}
  <2>1. PICK ask : ask \in [AnsweredAt(c)' -> AskedAt(c)']
    BY <1>1, <1>3 DEF RepliesMatch
  <2> QED  BY <1>4, <2>1
<1>6. Len(wire[c]) + 1 \in DOMAIN wire'[c] /\ wire'[c][Len(wire[c]) + 1] = m
  BY <1>1, Appended
<1> QED  BY <1>5, <1>6 DEF AnsweredAt, IsAnswer

LEMMA LastAlone ==
  ASSUME NEW S, NEW s \in Seq(S), NEW e \in S
  PROVE  SubSeq(Append(s, e), Len(s) + 1, Len(s) + 1) = <<e>>
<1> DEFINE t == SubSeq(Append(s, e), Len(s) + 1, Len(s) + 1)
<1>1. /\ Append(s, e) \in Seq(S) /\ Len(s) \in Nat /\ Len(Append(s, e)) = Len(s) + 1
      /\ Append(s, e)[Len(s) + 1] = e
  BY AppendTypes, Appended
<1>2. t \in Seq(S) /\ Len(t) = 1 /\ t[1] = e
  BY <1>1
<1>3. <<e>> \in Seq(S) /\ Len(<<e>>) = 1 /\ <<e>>[1] = e
  OBVIOUS
<1> HIDE DEF t
<1>4. t = <<e>>
  BY <1>2, <1>3, SameSeq
<1> QED  BY <1>4 DEF t

\* Nothing the server does to the connection held is more than one answer to
\* the first frame, a later message, or the end of it.
LEMMA ServedByServer ==
  ASSUME ServerError \subseteq Refusals,
         \A m \in ServerMessage : m.type \notin {"AuthSuccess", "Error"} => m \in News,
         ServerInv, ServerInv', C!ClientInv, LinkInv, LinkInv', ServerSide
  PROVE  C!ClientNext \/ UNCHANGED C!clientVars
<1>1. UNCHANGED <<clientVars, dialed, cur, read, before>>
  BY DEF ServerSide, Serves, socketVars
<1>2. UNCHANGED C!managerVars /\ UNCHANGED C!uiVars
  BY <1>1 DEF clientVars, screenVars, C!managerVars, C!uiVars, C!netVars
<1>3. \/ C!Answer \/ C!PeerWrites \/ C!PeerCloses
      \/ unread' = unread /\ serverEnd' = serverEnd
  <2>1. CASE ~Held
    BY <1>1, <2>1 DEF Held, unread, serverEnd
  <2>2. CASE Held
    <3>1. /\ sent # <<>> /\ inbox = <<>> /\ unread = <<>> /\ read = Len(wire[cur])
          /\ cur \in DeskConns /\ cur \in Conn /\ wire[cur] \in Seq(ServerMessage)
          /\ Len(wire[cur]) \in Nat
      BY <2>2, NothingPending, Unread DEF ServerSide, LinkInv, ServerInv
    <3>2. /\ cur' = cur /\ cur # NoConn /\ read' = read
          /\ unread' = SubSeq(wire'[cur], read + 1, Len(wire'[cur]))
      BY <1>1, <2>2 DEF Held, unread
    <3>3. WireOf(cur) /\ [Next]_vars
      BY <3>1, ServerStep, WiresGrow DEF ServerInv, DeskNext
    <3>4. /\ phase[cur] = "closed" => serverEnd = "closed"
          /\ phase[cur] # "closed" => serverEnd = IF Welcomed(cur) THEN "serving" ELSE "silent"
          /\ phase'[cur] = "closed" => serverEnd' = "closed"
          /\ phase'[cur] # "closed" => serverEnd' = IF Welcomed(cur)' THEN "serving" ELSE "silent"
      BY <3>2 DEF serverEnd
    <3>5. CASE wire'[cur] = wire[cur] /\ (phase[cur] = "closed" => phase'[cur] = "closed")
      <4>1. unread' = unread
        BY <3>2, <3>5 DEF unread
      <4>2. Welcomed(cur)' = Welcomed(cur)
        BY <3>2, <3>5 DEF Welcomed
      <4>3. \/ serverEnd' = serverEnd
            \/ serverEnd \in {"silent", "serving"} /\ serverEnd' = "closed"
        BY <3>4, <3>5, <4>2
      <4> QED  BY <1>2, <4>1, <4>3 DEF C!PeerCloses
    <3>6. CASE /\ phase[cur] # "closed" /\ me'[cur] = me[cur]
               /\ \E m \in ServerMessage :
                    /\ wire'[cur] = Append(wire[cur], m)
                    /\ Refused(cur, m) \/ Admitted(cur, m) \/ Told(cur, m)
      <4>1. PICK m \in ServerMessage :
              /\ wire'[cur] = Append(wire[cur], m)
              /\ Refused(cur, m) \/ Admitted(cur, m) \/ Told(cur, m)
        BY <3>6
      <4>2. unread' = Append(unread, m)
        <5>1. SubSeq(Append(wire[cur], m), Len(wire[cur]) + 1, Len(wire[cur]) + 1) = <<m>>
          BY <3>1, LastAlone
        <5>2. Len(wire'[cur]) = Len(wire[cur]) + 1
          BY <3>1, <4>1, Appended
        <5>3. <<m>> = Append(<<>>, m)
          OBVIOUS
        <5> QED  BY <3>1, <3>2, <4>1, <5>1, <5>2, <5>3
      <4>3. CASE Refused(cur, m)
        <5>1. serverEnd = "silent" /\ serverEnd' = "closed"
          BY <3>4, <3>6, <4>3 DEF Refused, Welcomed
        <5>2. PICK e \in Refusals : m = C!Error(e)
          BY <4>3 DEF Refused, Error, C!Error
        <5> QED  BY <1>2, <3>1, <4>2, <5>1, <5>2 DEF C!Answer
      <4>4. CASE Admitted(cur, m)
        <5>1. m = C!AuthSuccess(me[cur]) /\ me[cur] \in UserId
          <6>1. m = AuthSuccess(me[cur])
            BY <4>4 DEF Admitted
          <6>2. me[cur] \in UserId
            BY <4>1, <6>1 DEF AuthSuccess, ServerMessage, ChatMessage
          <6> QED  BY <6>1, <6>2 DEF AuthSuccess, C!AuthSuccess
        <5>2. Welcomed(cur)'
          <6>1. wire'[cur][1] = m /\ wire'[cur] # <<>>
            BY <3>1, <4>1, <4>4 DEF Admitted
          <6> QED  BY <3>2, <5>1, <6>1 DEF Welcomed, C!AuthSuccess
        <5>3. serverEnd = "silent" /\ serverEnd' = "serving"
          BY <3>4, <3>6, <4>4, <5>2 DEF Admitted, Welcomed
        <5> QED  BY <1>2, <3>1, <4>2, <5>1, <5>3 DEF C!Answer
      <4>5. CASE Told(cur, m)
        <5>1. Welcomed(cur)'
          <6>1. wire'[cur][1] = wire[cur][1] /\ wire'[cur] # <<>>
            BY <3>1, <4>1, <4>5 DEF Told, Welcomed
          <6> QED  BY <3>2, <4>5, <6>1 DEF Told, Welcomed
        <5>2. serverEnd = "serving" /\ serverEnd' = "serving"
          BY <3>4, <3>6, <4>5, <5>1 DEF Told
        <5>3. m.type # "Error"
          BY <3>1, <3>6, <4>1, <4>5, NoErrorTold DEF Told
        <5>4. m \in News
          BY <4>1, <4>5, <5>3 DEF Told
        <5>5. Len(unread) + Len(inbox) < Window
          BY <3>1, ClientAssumption
        <5> QED  BY <1>2, <4>2, <5>2, <5>4, <5>5 DEF C!PeerWrites
      <4> QED  BY <4>1, <4>3, <4>4, <4>5
    <3> QED  BY <3>3, <3>5, <3>6 DEF WireOf
  <2> QED  BY <2>1, <2>2
<1> QED  BY <1>2, <1>3 DEF C!ClientNext, C!Peer, C!clientVars, C!managerVars, C!netVars, C!linkVars

-----------------------------------------------------------------------------
(* The two together.                                                       *)

DeskInv == ServerInv /\ C!ClientInv /\ LinkInv

\* The protocol of the client's constants is all of the protocol.
WholeProtocol ==
  /\ ServerError \subseteq Refusals
  /\ \A m \in ServerMessage : m.type \notin {"AuthSuccess", "Error"} => m \in News

\* A step of the two is a step of the client in front of its abstract server.
LEMMA ClientIsServedStep ==
  ASSUME WholeProtocol, DeskInv, DeskInv', [DeskNext]_deskVars
  PROVE  [C!ClientNext]_C!clientVars
BY ServedByServer, ClientMoves, ClientRests DEF WholeProtocol, DeskInv, DeskNext

LEMMA LinkInit == DeskInit => LinkInv
<1> SUFFICES ASSUME DeskInit
             PROVE  LinkInv
  OBVIOUS
<1>1. \A S : <<>> \in Seq(S)
  OBVIOUS
<1>2. SocketInv
  BY <1>1, DeskAssumption DEF DeskInit, SocketInv, Held, C!Linked, C!ClientInit, C!NetInit, Init, ConnInit
<1>3. QuietInv
  BY DeskAssumption DEF DeskInit, QuietInv, QuietCommands, AskedAt, C!ClientInit, C!NetInit, Init, ConnInit
<1> QED  BY <1>2, <1>3 DEF LinkInv

LEMMA LinkNext ==
  ASSUME ServerInv, C!ClientInv, LinkInv, [DeskNext]_deskVars
  PROVE  LinkInv'
<1>1. CASE ClientThread
  BY <1>1, DialLinks, WriteLinks, ReadLinks, AsideLinks DEF ClientThread
<1>2. CASE Screen
  BY <1>2, AsideLinks
<1>3. CASE ServerSide
  BY <1>3, LinkByServer
<1>4. CASE Breaks
  BY <1>4, BreakLinks
<1>5. CASE UNCHANGED deskVars
  BY <1>5 DEF deskVars, vars, connVars, clientVars, socketVars, LinkInv, SocketInv, QuietInv,
     QuietCommands, AskedAt, Held, C!Linked
<1> QED  BY <1>1, <1>2, <1>3, <1>4, <1>5 DEF DeskNext

LEMMA DeskStep ==
  ASSUME WholeProtocol, DeskInv, ServerInv', [DeskNext]_deskVars
  PROVE  DeskInv'
<1>1. LinkInv'
  BY LinkNext DEF DeskInv
<1>2. CASE ServerSide
  <2>1. C!ClientNext \/ UNCHANGED C!clientVars
    BY <1>1, <1>2, ServedByServer DEF WholeProtocol, DeskInv
  <2> QED  BY <1>1, <2>1, ClientStays DEF DeskInv
<1>3. CASE ClientThread \/ Screen \/ Breaks \/ UNCHANGED deskVars
  BY <1>1, <1>3, ClientMoves, ClientRests, ClientStays DEF DeskInv
<1> QED  BY <1>2, <1>3 DEF DeskNext

LEMMA DeskHolds ==
  ASSUME WholeProtocol
  PROVE  DeskSpec => []DeskInv
<1>1. DeskInit /\ ServerInv => DeskInv
  BY LinkInit, ClientBegins DEF DeskInv
<1>2. DeskInv /\ ServerInv' /\ [DeskNext]_deskVars => DeskInv'
  BY DeskStep
<1> QED  BY <1>1, <1>2, ServerHolds, PTL DEF DeskSpec

\* The client assumes of its server no more than the server does: in front of
\* it the client behaves as ClientSpec says (network.rs:87, chat.rs:405).
THEOREM ServedAlways ==
  ASSUME WholeProtocol
  PROVE  DeskSpec => ClientIsServed
<1>1. DeskInit => C!ClientInit
  BY DEF DeskInit
<1>2. DeskInv /\ DeskInv' /\ [DeskNext]_deskVars => [C!ClientNext]_C!clientVars
  BY ClientIsServedStep
<1> QED  BY <1>1, <1>2, DeskHolds, PTL DEF DeskSpec, ClientIsServed, C!ClientSpec

\* So what the client promises under a server that does as it likes it keeps in
\* front of this one: a login is in one place, frames of one login stay on its
\* connection, the Sync goes first, no message waits for a frame nobody asked for.
THEOREM PromisesKept ==
  ASSUME WholeProtocol
  PROVE  DeskSpec => [](C!OneAttempt /\ C!OwnFrames /\ C!SyncFirst /\ C!NoLostWakeup)
<1>1. DeskSpec => C!ClientSpec
  BY ServedAlways DEF ClientIsServed
<1>2. /\ C!ClientSpec => []C!OneAttempt
      /\ C!ClientSpec => []C!OwnFrames
      /\ C!ClientSpec => []C!SyncFirst
      /\ C!ClientSpec => []C!NoLostWakeup
  BY ClientAssumption, SameProtocol, ClockAssumption,
     C!OneAttemptAlways, C!OwnFramesAlways, C!SyncFirstAlways, C!NoLostWakeupAlways
<1> QED  BY <1>1, <1>2, PTL

-----------------------------------------------------------------------------
(* What the page has taken in.                                             *)

LEMMA PrefixStays ==
  ASSUME NEW S, NEW s \in Seq(S), NEW e \in S, NEW k \in 0 .. Len(s)
  PROVE  SubSeq(Append(s, e), 1, k) = SubSeq(s, 1, k)
<1>1. /\ Append(s, e) \in Seq(S) /\ Len(Append(s, e)) = Len(s) + 1 /\ Len(s) \in Nat
      /\ \A i \in 1 .. Len(s) : Append(s, e)[i] = s[i]
  BY AppendTypes, Appended
<1> DEFINE t == Append(s, e)
<1> HIDE DEF t
<1>2. /\ t \in Seq(S) /\ Len(t) = Len(s) + 1 /\ Len(s) \in Nat
      /\ \A i \in 1 .. Len(s) : t[i] = s[i]
  BY <1>1 DEF t
<1>3. /\ SubSeq(t, 1, k) \in Seq(S) /\ SubSeq(s, 1, k) \in Seq(S)
      /\ Len(SubSeq(t, 1, k)) = k /\ Len(SubSeq(s, 1, k)) = k
      /\ \A i \in 1 .. k : SubSeq(t, 1, k)[i] = SubSeq(s, 1, k)[i]
  BY <1>2
<1>4. SubSeq(t, 1, k) = SubSeq(s, 1, k)
  BY <1>3, SameSeq
<1> QED  BY <1>4 DEF t

LEMMA OneFurther ==
  ASSUME NEW S, NEW s \in Seq(S), NEW k \in Nat, k < Len(s)
  PROVE  /\ SubSeq(s, 1, k + 1) = Append(SubSeq(s, 1, k), s[k + 1])
         /\ SubSeq(s, 1, k) \in Seq(S) /\ s[k + 1] \in S
<1>1. /\ SubSeq(s, 1, k) \in Seq(S) /\ Len(SubSeq(s, 1, k)) = k /\ s[k + 1] \in S
      /\ \A i \in 1 .. k : SubSeq(s, 1, k)[i] = s[i]
  OBVIOUS
<1>2. /\ SubSeq(s, 1, k + 1) \in Seq(S) /\ Len(SubSeq(s, 1, k + 1)) = k + 1
      /\ \A i \in 1 .. k + 1 : SubSeq(s, 1, k + 1)[i] = s[i]
  OBVIOUS
<1> DEFINE a == Append(SubSeq(s, 1, k), s[k + 1])
<1>3. /\ a \in Seq(S) /\ Len(a) = k + 1
      /\ (\A i \in 1 .. k : a[i] = s[i]) /\ a[k + 1] = s[k + 1]
  BY <1>1, AppendTypes, Appended
<1> HIDE DEF a
<1>4. \A i \in 1 .. k + 1 : a[i] = s[i]
  BY <1>3, OneMore
<1>5. SubSeq(s, 1, k + 1) = a
  BY <1>2, <1>3, <1>4, SameSeq
<1> QED  BY <1>1, <1>5 DEF a

LEMMA FirstStays ==
  ASSUME NEW S, NEW s \in Seq(S), NEW e, s # <<>>
  PROVE  Append(s, e) # <<>> /\ Append(s, e)[1] = s[1]
<1>1. Append(s, e) # <<>>
  BY Grown
<1>2. 1 \in DOMAIN s
  OBVIOUS
<1>3. Append(s, e)[1] = s[1]
  BY <1>2, Appended
<1> QED  BY <1>1, <1>3

\* Who was welcomed stays welcome, as the same user, and keeps what they have.
LEMMA WelcomeStays ==
  ASSUME ServerInv, ServerInv', [Next]_vars, NEW c \in Conn
  PROVE  /\ wire[c] \in Seq(ServerMessage) /\ wire'[c] \in Seq(ServerMessage)
         /\ \/ wire'[c] = wire[c]
            \/ \E m \in ServerMessage : wire'[c] = Append(wire[c], m)
         /\ Welcomed(c) => Welcomed(c)' /\ me'[c] = me[c]
<1> USE HasEntries DEF Entries, ServerInv
<1>1. \/ wire'[c] = wire[c]
      \/ \E m \in ServerMessage : wire'[c] = Append(wire[c], m)
  BY WiresGrow DEF WireOf
<1>2. wire[c] \in Seq(ServerMessage) /\ wire'[c] \in Seq(ServerMessage)
  BY <1>1, AppendTypes
<1>3. ASSUME Welcomed(c)
      PROVE  Welcomed(c)' /\ me'[c] = me[c]
  <2>1. wire'[c] # <<>> /\ wire'[c][1] = wire[c][1]
    <3>1. wire[c] # <<>>
      BY <1>3 DEF Welcomed
    <3>2. CASE wire'[c] = wire[c]
      BY <3>1, <3>2
    <3>3. ASSUME NEW m \in ServerMessage, wire'[c] = Append(wire[c], m)
          PROVE  wire'[c] # <<>> /\ wire'[c][1] = wire[c][1]
      BY <1>2, <3>1, <3>3, FirstStays
    <3> QED  BY <1>1, <3>2, <3>3
  <2>2. Welcomed(c)'
    BY <1>3, <2>1 DEF Welcomed
  <2>3. wire[c][1] = AuthSuccess(me[c]) /\ wire'[c][1] = AuthSuccess(me'[c])
    BY <1>3, <2>2 DEF HearingInv, OwnWelcome
  <2> QED  BY <2>1, <2>2, <2>3 DEF AuthSuccess
<1> QED  BY <1>1, <1>2, <1>3

ShownInv == InboxInv /\ PageInv /\ StatusInv

\* A step that moves none of this, at most lets go of the connection.
LEMMA PageRests ==
  ASSUME ShownInv,
         \/ ~Held'
         \/ UNCHANGED <<cur, read, before, inbox, page, state>> /\ wire'[cur] = wire[cur] /\ me'[cur] = me[cur]
  PROVE  ShownInv'
<1>1. CASE ~Held'
  BY <1>1 DEF ShownInv, InboxInv, PageInv, StatusInv, OnPage, Held
<1>2. CASE UNCHANGED <<cur, read, before, inbox, page, state>> /\ wire'[cur] = wire[cur] /\ me'[cur] = me[cur]
  BY <1>2 DEF ShownInv, InboxInv, PageInv, StatusInv, OnPage, Held, taken, Welcomed, LastWord, NewsIn
<1> QED  BY <1>1, <1>2

\* What the frames taken in say of a user, while they stay the same, and with
\* the next one.
LEMMA WordStays ==
  ASSUME UNCHANGED <<cur, before, taken>>, \A i \in 1 .. taken : wire'[cur][i] = wire[cur][i], NEW v
  PROVE  LastWord(taken, v)' <=> LastWord(taken, v)
<1>1. NewsIn(taken, v)' = NewsIn(taken, v)
  BY DEF NewsIn
<1>2. NewsIn(taken, v) \subseteq 1 .. taken
  BY DEF NewsIn
<1> QED  BY <1>1, <1>2 DEF LastWord

LEMMA WordMoves ==
  ASSUME NEW n \in Nat, NEW v
  PROVE  LET m == wire[cur][n + 1]
         IN  LastWord(n + 1, v) <=> IF m.type = "Presence" /\ m.user = v THEN m.online ELSE LastWord(n, v)
<1> DEFINE m == wire[cur][n + 1]
<1>1. 1 .. n + 1 = (1 .. n) \cup {n + 1} /\ \A i \in 1 .. n : i <= n + 1 /\ ~(n + 1 <= i)
  OBVIOUS
<1>2. CASE m.type = "Presence" /\ m.user = v
  <2>1. NewsIn(n + 1, v) = NewsIn(n, v) \cup {n + 1} /\ NewsIn(n, v) \subseteq 1 .. n
    BY <1>1, <1>2 DEF NewsIn
  <2> HIDE DEF m
  <2>2. LastWord(n + 1, v) <=> \E i \in NewsIn(n + 1, v) : wire[cur][i].online /\ \A j \in NewsIn(n + 1, v) : j <= i
    BY <2>1 DEF LastWord
  <2>3. ASSUME NEW i \in NewsIn(n + 1, v), \A j \in NewsIn(n + 1, v) : j <= i
        PROVE  i = n + 1
    BY <1>1, <2>1, <2>3
  <2>4. \A j \in NewsIn(n + 1, v) : j <= n + 1
    BY <1>1, <2>1
  <2>5. LastWord(n + 1, v) <=> wire[cur][n + 1].online
    BY <2>1, <2>2, <2>3, <2>4
  <2> QED  BY <1>2, <2>5 DEF m
<1>3. CASE ~(m.type = "Presence" /\ m.user = v)
  <2>1. NewsIn(n + 1, v) = NewsIn(n, v)
    BY <1>1, <1>3 DEF NewsIn
  <2>2. LastWord(n + 1, v) <=> LastWord(n, v)
    BY <2>1 DEF LastWord
  <2> QED  BY <1>3, <2>2
<1> QED  BY <1>2, <1>3

LEMMA PageByServer ==
  ASSUME DeskInv, ServerInv', ShownInv, ServerSide
  PROVE  ShownInv'
<1> USE DEF DeskInv
<1>1. UNCHANGED <<cur, read, before, inbox, page, state>>
  BY DEF ServerSide, Serves, socketVars, clientVars, screenVars
<1>2. CASE ~Held
  BY <1>1, <1>2, PageRests DEF Held
<1>3. CASE Held
  <2>1. /\ inbox = <<>> /\ read = Len(wire[cur]) /\ cur \in Conn /\ read \in Nat
    BY <1>3, NothingPending, Unread DEF ServerSide, LinkInv, ServerInv, SocketInv
  <2>2. [Next]_vars
    BY ServerStep DEF DeskNext
  <2>3. /\ wire[cur] \in Seq(ServerMessage)
        /\ wire'[cur] = wire[cur] \/ \E m \in ServerMessage : wire'[cur] = Append(wire[cur], m)
        /\ Welcomed(cur) => Welcomed(cur)' /\ me'[cur] = me[cur]
    BY <1>1, <2>1, <2>2, WelcomeStays
  <2>4. taken = Len(wire[cur]) /\ taken' = taken /\ taken \in 0 .. Len(wire[cur])
    BY <1>1, <2>1 DEF taken
  <2>5. SubSeq(wire'[cur], 1, taken) = SubSeq(wire[cur], 1, taken)
    BY <2>3, <2>4, PrefixStays
  <2>6. InboxInv'
    BY <1>1, <2>1 DEF InboxInv, Held
  <2>7. PageInv'
    BY <1>1, <2>3, <2>4, <2>5 DEF ShownInv, PageInv, OnPage, Held
  <2>8. \A i \in 1 .. taken : wire'[cur][i] = wire[cur][i]
    <3>1. ASSUME NEW m \in ServerMessage
          PROVE  \A i \in 1 .. Len(wire[cur]) : Append(wire[cur], m)[i] = wire[cur][i]
      BY <2>3, Appended
    <3> QED  BY <2>3, <2>4, <3>1
  <2>9. StatusInv'
    BY <1>1, <2>4, <2>8, WordStays DEF ShownInv, StatusInv, OnPage
  <2> QED  BY <2>6, <2>7, <2>9 DEF ShownInv
<1> QED  BY <1>2, <1>3

LEMMA PageByThread ==
  ASSUME DeskInv, ShownInv, ClientThread \/ Breaks
  PROVE  ShownInv'
<1> USE DEF DeskInv, LinkInv
<1>1. UNCHANGED <<state, page>>
  BY DEF ClientThread, Breaks, screenVars
<1>2. CASE Dials
  <2>1. inbox = <<>> /\ state = C!Connecting
    <3>1. sent = <<>>
      BY <1>2 DEF Dials, C!ClientInv, C!HeldIsOwn
    <3> QED  BY <1>2, <3>1 DEF Dials, C!ClientInv, C!SyncSoon, C!Unanswered, C!Answered, C!Welcomed,
             C!Chatty, C!Introduced
  <2>2. inbox' = <<>> /\ state' = C!Connecting /\ read' = 0 /\ before' = page /\ page' = page
    BY <1>1, <1>2, <2>1 DEF Dials, C!Dial
  <2>3. Len(inbox') = 0 /\ DOMAIN inbox' = {} /\ taken' = 0 /\ state'.at # "Chat"
    <3>1. Len(inbox') = 0 /\ DOMAIN inbox' = {} /\ read' - 0 = 0
      BY <2>2
    <3>2. state'.at # "Chat"
      BY <2>2 DEF C!Connecting
    <3> QED  BY <3>1, <3>2 DEF taken
  <2> QED  BY <2>2, <2>3 DEF ShownInv, InboxInv, PageInv, StatusInv, OnPage
<1>3. CASE Reads
  <2>1. Held
    BY <1>3 DEF Reads, SocketInv, C!Linked
  <2>2. CASE Head(unread).type = "Error"
    <3>1. ~Held'
      BY <1>3, <2>2 DEF Reads, LetGo, Held
    <3> QED  BY <3>1, PageRests
  <2>3. CASE Head(unread).type # "Error"
    <3>1. UNCHANGED <<cur, before, wire, me>> /\ read' = read + 1 /\ inbox' = Append(inbox, Head(unread))
      BY <1>3, <2>3 DEF Reads, C!Receive, vars, connVars
    <3>2. inbox \in Seq(C!Delivered) /\ read \in Nat /\ Head(unread) = wire[cur][read + 1]
      BY <1>3, <2>1, Unread DEF Reads, ServerInv, SocketInv, C!ClientInv, C!ClientTypes, C!Delivered
    <3>3. /\ Len(inbox) \in Nat /\ Len(inbox') = Len(inbox) + 1
          /\ DOMAIN inbox = 1 .. Len(inbox) /\ DOMAIN inbox' = 1 .. Len(inbox) + 1
          /\ (\A i \in 1 .. Len(inbox) : inbox'[i] = inbox[i])
          /\ inbox'[Len(inbox) + 1] = wire[cur][read + 1]
      BY <3>1, <3>2, Appended
    <3>4. taken' = taken /\ taken + (Len(inbox) + 1) = read + 1
      BY <3>1, <3>2, <3>3 DEF taken
    <3>5. InboxInv'
      BY <2>1, <3>1, <3>2, <3>3, <3>4, OneMore DEF ShownInv, InboxInv, Held
    <3>6. PageInv'
      BY <1>1, <3>1, <3>4 DEF ShownInv, PageInv, OnPage, Held, Welcomed
    <3>7. StatusInv'
      BY <1>1, <3>1, <3>4 DEF ShownInv, StatusInv, OnPage, LastWord, NewsIn
    <3> QED  BY <3>5, <3>6, <3>7 DEF ShownInv
  <2> QED  BY <2>2, <2>3
<1>4. CASE HearsEnd \/ Breaks
  <2>1. ~Held'
    BY <1>4 DEF HearsEnd, Breaks, LetGo, Held
  <2> QED  BY <2>1, PageRests
<1>5. CASE WritesAuth \/ WritesSend
  BY <1>1, <1>5, PageRests DEF WritesAuth, WritesSend, Writes1, C!WriteAuth, C!Write, vars, connVars
<1>6. CASE OffSocket /\ (C!TakeConnect \/ C!Refuse \/ C!IgnoreConnect \/ C!Wake)
  BY <1>1, <1>6, PageRests DEF OffSocket, socketVars, vars, connVars, C!TakeConnect, C!Refuse,
     C!IgnoreConnect, C!Wake
<1>7. CASE OffSocket /\ C!Report
  <2>1. ~Held /\ cur' = cur
    BY <1>7 DEF OffSocket, socketVars, C!Report, SocketInv, C!Linked
  <2> QED  BY <2>1, PageRests DEF Held
<1> QED  BY <1>2, <1>3, <1>4, <1>5, <1>6, <1>7 DEF ClientThread

\* Only news of a user changes what the page shows of that user.
LEMMA AppliedNews ==
  ASSUME NEW p \in C!Page, NEW m \in ServerMessage, NEW u, NEW v \in UserId,
         m.type \notin {"AuthSuccess", "Error"}
  PROVE  C!Apply(p, m, u).presence[v]
           <=> IF m.type = "Presence" /\ m.user = v THEN m.online ELSE p.presence[v]
<1>1. CASE m.type = "Presence"
  <2>1. C!Apply(p, m, u) = [p EXCEPT !.presence = [p.presence EXCEPT ![m.user] = m.online]]
    BY <1>1 DEF C!Apply
  <2>2. C!Apply(p, m, u).presence = [p.presence EXCEPT ![m.user] = m.online]
    BY <2>1 DEF C!Page
  <2>3. p.presence \in [UserId -> BOOLEAN]
    BY DEF C!Page
  <2>4. C!Apply(p, m, u).presence[v] = IF v = m.user THEN m.online ELSE p.presence[v]
    BY <2>2, <2>3
  <2> QED  BY <1>1, <2>4
<1>2. CASE m.type # "Presence"
  <2>1. m.type \in {"UsersList", "GroupsList", "NewMessage", "SyncBatch", "GroupCreated", "AddedToGroup",
                    "GroupInfo", "GroupMembersList"}
    BY <1>2 DEF ServerMessage, ChatMessage
  <2>2. C!Apply(p, m, u).presence = p.presence
    BY <2>1 DEF C!Apply, C!Page
  <2> QED  BY <1>2, <2>2
<1> QED  BY <1>1, <1>2

\* The UI thread takes the next frame of the connection it holds: the welcome
\* first, which opens the page, then what the page shows.
LEMMA PageTakes ==
  ASSUME DeskInv, ShownInv, Held, OffSocket, C!TakeMessage
  PROVE  ShownInv'
<1> USE DEF DeskInv, LinkInv
<1> DEFINE m == Head(inbox)
<1>1. UNCHANGED <<cur, read, before, wire, me>> /\ inbox # <<>> /\ inbox' = Tail(inbox)
  BY DEF OffSocket, socketVars, vars, connVars, C!TakeMessage
<1>2. /\ inbox \in Seq(C!Delivered) /\ cur \in Conn /\ wire[cur] \in Seq(ServerMessage)
      /\ read \in Nat /\ read <= Len(wire[cur]) /\ Len(wire[cur]) \in Nat
  BY Unread DEF ServerInv, SocketInv, C!ClientInv, C!ClientTypes, C!Delivered
<1>3. /\ Len(inbox) \in Nat \ {0} /\ DOMAIN inbox = 1 .. Len(inbox)
      /\ Len(inbox') = Len(inbox) - 1 /\ DOMAIN inbox' = 1 .. Len(inbox) - 1
      /\ (\A i \in 1 .. Len(inbox) - 1 : inbox'[i] = inbox[i + 1] /\ i + 1 \in 1 .. Len(inbox))
      /\ m = inbox[1] /\ 1 \in 1 .. Len(inbox)
  BY <1>1, <1>2
<1>4. /\ taken \in Nat /\ taken < Len(wire[cur]) /\ taken' = taken + 1 /\ m = wire[cur][taken + 1]
      /\ Len(inbox) <= read
  <2>1. Len(inbox) <= read /\ inbox[1] = wire[cur][taken + 1]
    BY <1>3 DEF ShownInv, InboxInv
  <2>2. taken \in Nat /\ taken < Len(wire[cur])
    BY <1>2, <1>3, <2>1 DEF taken
  <2>3. taken' = taken + 1
    BY <1>1, <1>2, <1>3 DEF taken
  <2> QED  BY <1>3, <2>1, <2>2, <2>3
<1>5. InboxInv'
  <2>1. Len(inbox') <= read'
    BY <1>1, <1>2, <1>3, <1>4
  <2>2. ASSUME NEW i \in DOMAIN inbox'
        PROVE  inbox'[i] = wire'[cur'][taken' + i]
    <3>1. inbox'[i] = inbox[i + 1] /\ i + 1 \in DOMAIN inbox
      BY <1>3
    <3>2. inbox[i + 1] = wire[cur][taken + (i + 1)]
      BY <3>1 DEF ShownInv, InboxInv
    <3>3. i \in Nat /\ taken + (i + 1) = taken' + i
      BY <1>3, <1>4
    <3> QED  BY <1>1, <3>1, <3>2, <3>3
  <2> QED  BY <2>1, <2>2 DEF InboxInv
<1>6. /\ SubSeq(wire[cur], 1, taken + 1) = Append(SubSeq(wire[cur], 1, taken), m)
      /\ SubSeq(wire[cur], 1, taken) \in Seq(ServerMessage) /\ m \in ServerMessage
  BY <1>2, <1>4, OneFurther
<1>7. C!ApplyAll(before, SubSeq(wire[cur], 1, taken + 1), me[cur]) =
        IF C!ForPage(m)
          THEN C!Apply(C!ApplyAll(before, SubSeq(wire[cur], 1, taken), me[cur]), m, me[cur])
          ELSE C!ApplyAll(before, SubSeq(wire[cur], 1, taken), me[cur])
  <2> DEFINE pre == SubSeq(wire[cur], 1, taken)
  <2>1. /\ pre \in Seq(ServerMessage) /\ m \in ServerMessage
        /\ SubSeq(wire[cur], 1, taken + 1) = Append(pre, m)
    BY <1>6
  <2> HIDE DEF pre, m
  <2>2. C!ApplyAll(before, Append(pre, m), me[cur]) =
          IF C!ForPage(m) THEN C!Apply(C!ApplyAll(before, pre, me[cur]), m, me[cur])
          ELSE C!ApplyAll(before, pre, me[cur])
    BY <2>1, C!ApplyOneMore, ClientAssumption, SameProtocol, ClockAssumption
  <2> QED  BY <2>1, <2>2 DEF pre
<1>8. \/ state = C!Connecting /\ m.type = "AuthSuccess"
      \/ state.at = "Chat" /\ m.type \notin {"AuthSuccess", "Error"}
  <2>1. C!Linked /\ (C!Welcomed \/ C!Chatty)
    BY <1>1 DEF SocketInv, C!ClientInv, C!SyncSoon, C!Unanswered, C!Answered
  <2>2. m.type # "Error"
    <3>1. C!Engaged
      BY <2>1 DEF C!Linked, C!Engaged
    <3>2. C!NoErrorIn(inbox)
      BY <3>1, C!EngagedIsTried, ClientAssumption, SameProtocol, ClockAssumption DEF C!Tried
    <3> QED  BY <1>3, <3>2 DEF C!NoErrorIn
  <2>3. CASE C!Welcomed
    BY <1>3, <2>3 DEF C!Welcomed, C!Introduced, C!WelcomeFirst, C!IsWelcome
  <2>4. CASE C!Chatty
    BY <1>3, <2>2, <2>4 DEF C!Chatty, C!NoWelcomeIn, C!IsWelcome
  <2> QED  BY <2>1, <2>3, <2>4
<1>9. PageInv'
  <2>1. CASE state = C!Connecting /\ m.type = "AuthSuccess"
    <3>1. taken = 0 /\ page = before
      BY <2>1 DEF ShownInv, PageInv
    <3>2. state' = C!InChat(m.user) /\ page' = page
      BY <2>1 DEF C!TakeMessage, C!OnAuthSuccess, C!ForPage
    <3>3. Welcomed(cur) /\ m = AuthSuccess(me[cur])
      <4>1. m = wire[cur][1] /\ wire[cur] # <<>>
        BY <1>2, <1>4, <3>1
      <4> QED  BY <1>2, <2>1, <4>1 DEF Welcomed, ServerInv, HearingInv, OwnWelcome
    <3>4. SubSeq(wire[cur], 1, taken) = <<>>
      BY <1>2, <3>1
    <3>5. C!ApplyAll(before, SubSeq(wire[cur], 1, taken + 1), me[cur]) = before
      <4>1. ~C!ForPage(m)
        BY <2>1 DEF C!ForPage
      <4>2. C!ApplyAll(before, SubSeq(wire[cur], 1, taken), me[cur]) = before
        BY <3>4, C!ApplyNone, ClientAssumption, SameProtocol, ClockAssumption
      <4> QED  BY <1>7, <4>1, <4>2
    <3>6. state'.at = "Chat" /\ state'.user = me[cur]
      BY <3>2, <3>3 DEF C!InChat, AuthSuccess
    <3> QED  BY <1>1, <1>4, <3>1, <3>2, <3>3, <3>5, <3>6 DEF PageInv, C!Connecting, Welcomed
  <2>2. CASE state.at = "Chat" /\ m.type \notin {"AuthSuccess", "Error"}
    <3>1. OnPage
      BY <2>2 DEF OnPage, Held
    <3>2. /\ taken >= 1 /\ Welcomed(cur) /\ state.user = me[cur]
          /\ page = C!ApplyAll(before, SubSeq(wire[cur], 1, taken), me[cur])
      BY <3>1 DEF ShownInv, PageInv
    <3>3. state' = state /\ page' = C!Apply(page, m, me[cur])
      BY <2>2, <3>2 DEF C!TakeMessage, C!OnOther
    <3>4. page' = C!ApplyAll(before, SubSeq(wire[cur], 1, taken + 1), me[cur])
      BY <1>7, <2>2, <3>2, <3>3 DEF C!ForPage
    <3> QED  BY <1>1, <1>4, <2>2, <3>2, <3>3, <3>4 DEF PageInv, C!Connecting, Welcomed
  <2> QED  BY <1>8, <2>1, <2>2
<1>10. StatusInv'
  <2> SUFFICES ASSUME NEW v \in UserId
               PROVE  page'.presence[v] <=> LastWord(taken, v)'
    BY DEF StatusInv
  <2>1. LastWord(taken, v)' <=> IF m.type = "Presence" /\ m.user = v THEN m.online ELSE LastWord(taken, v)
    <3>1. LastWord(taken, v)' <=> LastWord(taken + 1, v)
      BY <1>1, <1>4 DEF LastWord, NewsIn
    <3> QED  BY <1>4, <3>1, WordMoves
  <2>2. CASE state = C!Connecting /\ m.type = "AuthSuccess"
    <3>1. taken = 0 /\ page = before /\ page' = page
      BY <2>2 DEF ShownInv, PageInv, C!TakeMessage, C!OnAuthSuccess, C!ForPage
    <3>2. LastWord(taken, v) <=> before.presence[v]
      <4>1. NewsIn(taken, v) = {}
        BY <3>1 DEF NewsIn
      <4> QED  BY <4>1 DEF LastWord
    <3> QED  BY <2>1, <2>2, <3>1, <3>2
  <2>3. CASE state.at = "Chat" /\ m.type \notin {"AuthSuccess", "Error"}
    <3>1. page.presence[v] <=> LastWord(taken, v)
      BY <2>3 DEF ShownInv, StatusInv, OnPage, Held
    <3>2. page' = C!Apply(page, m, state.user)
      BY <2>3 DEF C!TakeMessage, C!OnOther
    <3>3. page \in C!Page
      BY DEF C!ClientInv, C!ClientTypes
    <3>4. page'.presence[v] <=> IF m.type = "Presence" /\ m.user = v THEN m.online ELSE page.presence[v]
      BY <1>6, <2>3, <3>2, <3>3, AppliedNews
    <3> QED  BY <2>1, <3>1, <3>4
  <2> QED  BY <1>8, <2>2, <2>3
<1> QED  BY <1>5, <1>9, <1>10 DEF ShownInv

LEMMA PageByScreen ==
  ASSUME DeskInv, ShownInv, Screen
  PROVE  ShownInv'
<1> USE DEF DeskInv, LinkInv
<1>1. UNCHANGED <<cur, read, before, wire, me>>
  BY DEF Screen, OffSocket, socketVars, vars, connVars
<1>2. CASE ~Held
  BY <1>1, <1>2, PageRests DEF Held
<1>3. CASE Held /\ C!TakeMessage
  BY <1>3, PageTakes DEF Screen
<1>4. CASE C!Repaint \/ C!Watch \/ C!HandleModals \/ Touches
  <2>1. UNCHANGED <<inbox, page, state>>
    BY <1>4 DEF C!Repaint, C!Begin, C!Watch, C!HandleModals, Touches, C!Touch
  <2> QED  BY <1>1, <2>1, PageRests
<1>5. CASE C!SelectChat \/ C!SendContent \/ C!OpenModal
  <2>1. UNCHANGED <<inbox, page, state>>
    BY <1>5 DEF C!SelectChat, C!SendContent, C!OpenModal, C!OnChat
  <2> QED  BY <1>1, <2>1, PageRests
<1>6. CASE Held /\ C!ClickLogin
  BY <1>6 DEF SocketInv, C!ClickLogin, C!ClientInv, C!OnePlace, C!AtRest, C!Asked, C!Tried, C!Over,
     C!Engaged, C!Linked
<1> QED  BY <1>2, <1>3, <1>4, <1>5, <1>6 DEF Screen, C!Frame

LEMMA ShownStep ==
  ASSUME DeskInv, ServerInv', ShownInv, [DeskNext]_deskVars
  PROVE  ShownInv'
<1>1. CASE UNCHANGED deskVars
  BY <1>1, PageRests DEF deskVars, vars, connVars, clientVars, screenVars, socketVars
<1> QED  BY <1>1, PageByServer, PageByThread, PageByScreen DEF DeskNext

LEMMA ShownHolds ==
  ASSUME WholeProtocol
  PROVE  DeskSpec => []ShownInv
<1>1. DeskInit => ShownInv
  BY DEF DeskInit, ShownInv, InboxInv, PageInv, StatusInv, OnPage, Held
<1>2. DeskInv => ServerInv
  BY DEF DeskInv
<1>3. DeskInv /\ ServerInv' /\ ShownInv /\ [DeskNext]_deskVars => ShownInv'
  BY ShownStep
<1> QED  BY <1>1, <1>2, <1>3, DeskHolds, PTL DEF DeskSpec

\* While it chats, the client's page is what the server wrote since the dial,
\* applied in order, and nothing else (chat.rs:375, workspace.rs).
THEOREM PageHasItAllAlways ==
  ASSUME WholeProtocol
  PROVE  DeskSpec => []PageHasItAll
<1>1. ShownInv => PageHasItAll
  BY DEF ShownInv, PageInv, PageHasItAll, taken
<1> QED  BY <1>1, ShownHolds, PTL

\* Once everything the server has for the client is read, whom the page shows
\* online is whom the router has a session of, and whoever an earlier login
\* left there and nothing was said of since (chat.rs:404).
THEOREM StatusShownAlways ==
  ASSUME WholeProtocol
  PROVE  DeskSpec => []StatusShown
<1>1. DeskInv /\ ShownInv => StatusShown
  <2> SUFFICES ASSUME DeskInv, ShownInv, OnPage, AllRead, Session(cur),
                      NEW v \in UserId \ {me[cur]}
               PROVE  page.presence[v] <=> v \in Online \/ (before.presence[v] /\ ~Mentioned(v))
    BY DEF StatusShown
  <2> USE DEF DeskInv, LinkInv, ServerInv
  <2>1. cur \in Conn /\ wire[cur] \in Seq(ServerMessage) /\ taken = Len(wire[cur]) /\ Len(wire[cur]) \in Nat
    <3>1. Held /\ read \in Nat /\ Len(inbox) = 0
      BY DEF OnPage, Held, AllRead, SocketInv
    <3> QED  BY <3>1, Unread DEF AllRead, taken
  <2>2. page.presence[v] <=> LastWord(taken, v)
    BY DEF ShownInv, StatusInv
  <2>3. BelievesOnline(cur, v) <=> v \in Online
    BY <2>1 DEF PresenceConverges, AllRead, InLoop
  <2>4. NewsOf(cur, v) = {<<1, i>> : i \in NewsIn(taken, v)}
    <3>1. Places(cur) = {<<1, i>> : i \in 1 .. taken}
      <4>1. \A p \in Places(cur) : p[1] = 1
        BY DEF AllRead
      <4>2. ({1} \X DOMAIN wire[cur]) = {<<1, i>> : i \in 1 .. taken}
        BY <2>1
      <4>3. ~Awaiting(cur, "toClient")
        BY DEF AllRead, Awaiting
      <4>4. ASSUME NEW p \in Places(cur)
            PROVE  p \in {1} \X DOMAIN wire[cur]
        BY <4>1, <4>3 DEF Places
      <4>5. ({1} \X DOMAIN wire[cur]) \subseteq Places(cur)
        BY DEF Places
      <4> QED  BY <4>2, <4>4, <4>5
    <3>2. \A i \in 1 .. taken : MessageAt(cur, <<1, i>>) = wire[cur][i]
      BY DEF MessageAt
    <3> QED  BY <3>1, <3>2 DEF NewsOf, NewsIn
  <2>5. BelievesOnline(cur, v) <=> \E i \in NewsIn(taken, v) : wire[cur][i].online /\ \A j \in NewsIn(taken, v) : j <= i
    <3>1. \A i : MessageAt(cur, <<1, i>>) = wire[cur][i]
      BY DEF MessageAt
    <3>2. NewsIn(taken, v) \subseteq Nat
      BY <2>1 DEF NewsIn
    <3>3. \A i, j \in Nat : (<<1, j>> = <<1, i>> \/ Nearer(<<1, j>>, <<1, i>>)) <=> j <= i
      BY DEF Nearer
    <3>4. BelievesOnline(cur, v) <=>
            \E i \in NewsIn(taken, v) :
              MessageAt(cur, <<1, i>>).online
                /\ \A j \in NewsIn(taken, v) : <<1, j>> = <<1, i>> \/ Nearer(<<1, j>>, <<1, i>>)
      BY <2>4 DEF BelievesOnline
    <3> QED  BY <3>1, <3>2, <3>3, <3>4
  <2>6. Mentioned(v) <=> NewsIn(taken, v) # {}
    <3>1. Range(wire[cur]) = {wire[cur][i] : i \in 1 .. taken}
      BY <2>1 DEF Range
    <3> QED  BY <3>1 DEF Mentioned, NewsIn
  <2>7. CASE NewsIn(taken, v) = {}
    BY <2>2, <2>3, <2>5, <2>6, <2>7 DEF LastWord
  <2>8. CASE NewsIn(taken, v) # {}
    BY <2>2, <2>3, <2>5, <2>6, <2>8 DEF LastWord
  <2> QED  BY <2>7, <2>8
<1> QED  BY <1>1, DeskHolds, ShownHolds, PTL

-----------------------------------------------------------------------------
(* What the client is told again.                                          *)

\* Nothing was ever sent to a connection nobody opened.
Untouched ==
  \A c \in Conn : phase[c] = "fresh" =>
    chan[c] = <<>> /\ \A i \in DOMAIN fanout : fanout[i].to # c

\* The lines of the messages, and the connections that are in none.
LinesInv ==
  /\ Founded
  /\ PostsFirst
  /\ OrderInv
  /\ AnnouncedOnce
  /\ Untouched

LEMMA UntouchedInit == Init => Untouched
BY DEF Init, ConnInit, RouterInit, Untouched

\* An event is sent to sessions, and a login to its connection.
LEMMA WhoIsSent ==
  ASSUME TypeInv, RouterTask, ~Deliver, NEW i \in DOMAIN fanout'
  PROVE  \/ \E u \in UserId : fanout'[i].to = sessions[u]
         \/ rxq # <<>> /\ Head(rxq).type = "UserConnected" /\ fanout'[i].to = Head(rxq).sender
<1> DEFINE e == Head(rxq)
<1>1. rxq # <<>> => e \in RouterEvent
  BY TailTypes DEF TypeInv, TypeOK, RouterOK
<1>2. ASSUME NEW S \in SUBSET Online, NEW order \in SetToSeqs(S), NEW m \in ServerMessage,
             NEW j \in DOMAIN SendAll(order, m)
      PROVE  \E u \in UserId : SendAll(order, m)[j].to = sessions[u]
  <2>1. order \in Seq(UserId)
    BY <1>2, OnlineTypes
  <2>2. j \in DOMAIN order /\ order[j] \in UserId
    BY <2>1 DEF SendAll
  <2>3. SendAll(order, m)[j].to = sessions[order[j]]
    BY <2>2 DEF SendAll, To
  <2> QED  BY <2>2, <2>3
<1>3. CASE OnUserConnected
  <2>1. PICK order \in SetToSeqs(Online \ {e.user}) :
          fanout' = OnlineNews(e.user, e.sender, order)
    BY <1>3 DEF OnUserConnected
  <2>2. rxq # <<>> /\ e.type = "UserConnected" /\ e.user \in UserId /\ e.sender \in Conn
    BY <1>1, <1>3 DEF OnUserConnected, Take, RouterEvent
  <2> DEFINE p == Presence(e.user, TRUE)
             s == SendAll(order, p)
             r == [j \in DOMAIN order |-> To(e.sender, Presence(order[j], TRUE))]
  <2>3. p \in ServerMessage /\ (Online \ {e.user}) \in SUBSET Online
    BY <2>2, MessageTypes
  <2>4. order \in Seq(UserId) /\ s \in Seq(Delivery)
    BY <2>3, OnlineTypes
  <2>5. r \in Seq(Delivery)
    BY <2>2, <2>4, RosterTypes
  <2>6. \A j \in DOMAIN s : \E u \in UserId : s[j].to = sessions[u]
    BY <1>2, <2>3
  <2>7. \A j \in DOMAIN r : r[j].to = e.sender
    BY DEF To
  <2>8. fanout' = s \o r
    BY <2>1 DEF OnlineNews
  <2> HIDE DEF s, r
  <2>9. (fanout'[i] = s[i] /\ i \in DOMAIN s) \/ \E j \in DOMAIN r : fanout'[i] = r[j]
    BY <2>4, <2>5, <2>8
  <2> QED  BY <2>2, <2>6, <2>7, <2>9
<1>4. CASE OnUserDisconnected
  <2>1. PICK order \in SetToSeqs(Online \ {e.user}) :
          fanout' = SendAll(order, Presence(e.user, FALSE))
    BY <1>4 DEF OnUserDisconnected, OfflineNews
  <2>2. Presence(e.user, FALSE) \in ServerMessage
    BY <1>1, <1>4, MessageTypes DEF OnUserDisconnected, Take, RouterEvent
  <2>3. (Online \ {e.user}) \in SUBSET Online
    OBVIOUS
  <2> QED  BY <1>2, <2>1, <2>2, <2>3
<1>5. CASE OnUserJoinedGroup
  BY <1>5 DEF OnUserJoinedGroup, Take
<1>6. CASE OnRouteMessage
  <2>1. rxq # <<>> /\ e.type = "RouteMessage" /\ fanout' \in Fanouts(e.from, e.target, e.message)
    BY <1>6 DEF OnRouteMessage, Take
  <2>2. e.target \in Target /\ e.message \in ServerMessage /\ e.from \in UserId
    BY <1>1, <2>1 DEF RouterEvent
  <2>3. CASE e.target.kind = "user"
    <3> DEFINE T == {d \in Delivery : \E u \in UserId : d.to = sessions[u]}
               back == IF e.from # e.target.user THEN SendTo(e.from, e.message) ELSE <<>>
    <3>1. \A u \in UserId : SendTo(u, e.message) \in Seq(T)
      <4> TAKE u \in UserId
      <4>1. CASE u \in Online
        <5>1. To(sessions[u], e.message) \in T
          BY <2>2, <4>1 DEF To, Delivery, Online, TypeInv, TypeOK, RouterOK
        <5> HIDE DEF T
        <5> QED  BY <4>1, <5>1 DEF SendTo
      <4>2. CASE u \notin Online
        BY <4>2 DEF SendTo
      <4> QED  BY <4>1, <4>2
    <3>2. e.target.user \in UserId
      BY <2>2, <2>3 DEF Target, UserTarget, GroupTarget, Broadcast
    <3>3. back \in Seq(T)
      <4>1. <<>> \in Seq(T)
        OBVIOUS
      <4> QED  BY <2>2, <3>1, <4>1
    <3>4. fanout' = SendTo(e.target.user, e.message) \o back
      BY <2>1, <2>3 DEF Fanouts, PrivateSends
    <3>5. fanout' \in Seq(T)
      <4> HIDE DEF T, back
      <4> QED  BY <3>1, <3>2, <3>3, <3>4, ConcatTypes
    <3> QED  BY <3>5
  <2>4. CASE e.target.kind # "user"
    <3>1. Subscribers(e.target.group) \in SUBSET Online /\ Online \in SUBSET Online
      BY DEF Subscribers
    <3>2. PICK S \in SUBSET Online : \E order \in SetToSeqs(S) : fanout' = SendAll(order, e.message)
      BY <2>1, <2>2, <2>4, <3>1 DEF Fanouts, Target, UserTarget, GroupTarget, Broadcast
    <3>3. PICK order \in SetToSeqs(S) : fanout' = SendAll(order, e.message)
      BY <3>2
    <3>4. i \in DOMAIN SendAll(order, e.message) /\ fanout'[i] = SendAll(order, e.message)[i]
      BY <3>3
    <3> QED  BY <1>2, <2>2, <3>4
  <2> QED  BY <2>3, <2>4
<1> QED  BY <1>3, <1>4, <1>5, <1>6 DEF RouterTask, RouterStep

LEMMA UntouchedNext ==
  TypeInv /\ SessionInv /\ GreetingInv /\ AnnouncedOnce /\ Untouched /\ [Next]_vars => Untouched'
<1> SUFFICES ASSUME TypeInv, SessionInv, GreetingInv, AnnouncedOnce, Untouched, [Next]_vars,
                    NEW c \in Conn, phase'[c] = "fresh"
             PROVE  chan'[c] = <<>> /\ \A i \in DOMAIN fanout' : fanout'[i].to # c
  BY DEF Untouched
<1> USE HasEntries DEF Entries
<1>1. ASSUME NEW d \in Conn, Actor(d) \/ Client(d)
      PROVE  chan'[c] = <<>> /\ \A i \in DOMAIN fanout' : fanout'[i].to # c
  <2>1. phase[d] = "fresh" => script[d] = <<>>
    BY WhereAwaits DEF GreetingInv
  <2>2. phase'[d] # "fresh"
    <3>1. CASE LoginUser(d) \/ CheckName(d) \/ RegisterUser(d)
      BY <2>1, <3>1 DEF LoginUser, CheckName, RegisterUser, Welcome, Reject, OnlyScript, Awaiting
    <3>2. CASE Authenticate(d)
      BY <3>2 DEF Authenticate, FirstFrame
    <3> QED  BY <1>1, <3>1, <3>2, SettledStep DEF Settled
  <2>3. Aside(c)
    BY <1>1, <2>2, OthersStand
  <2> QED  BY <1>1, <2>3, FanoutIsRouters DEF Aside, Untouched
<1>2. CASE RouterTask
  <2>1. phase' = phase
    BY <1>2, QueueOfRouter
  <2>2. chan[c] = <<>> /\ \A i \in DOMAIN fanout : fanout[i].to # c
    BY <2>1 DEF Untouched
  <2>3. CASE Deliver
    <3>1. fanout \in Seq(Delivery) /\ fanout # <<>> /\ fanout' = Tail(fanout)
      BY <2>3 DEF Deliver, TypeInv, TypeOK, RouterOK
    <3>2. Head(fanout).to # c
      BY <2>2, <3>1
    <3>3. chan'[c] = chan[c]
      BY <2>3, <3>2 DEF Deliver
    <3>4. \A i \in DOMAIN fanout' : i + 1 \in DOMAIN fanout /\ fanout'[i] = fanout[i + 1]
      BY <3>1
    <3> QED  BY <2>2, <3>3, <3>4
  <2>4. CASE ~Deliver
    <3>1. Unannounced(c)
      BY <2>1 DEF Unannounced
    <3>2. LoginOf(c) = {} /\ \A u \in UserId : sessions[u] # c
      BY <3>1 DEF AnnouncedOnce, Unmet
    <3>3. rxq # <<>> /\ Head(rxq).type = "UserConnected" => Head(rxq).sender # c
      <4>1. rxq # <<>> => 1 \in DOMAIN rxq /\ rxq[1] = Head(rxq)
        BY DEF TypeInv, TypeOK, RouterOK
      <4> QED  BY <3>2, <4>1 DEF LoginOf
    <3>4. UNCHANGED chan
      BY <1>2, <2>4 DEF RouterTask, RouterStep, OnUserConnected, OnUserDisconnected,
         OnUserJoinedGroup, OnRouteMessage, chanVars
    <3> QED  BY <1>2, <2>2, <2>4, <3>2, <3>3, <3>4, WhoIsSent
  <2> QED  BY <2>3, <2>4
<1>3. CASE SaveTasks \/ Tick \/ UNCHANGED vars
  BY <1>3 DEF SaveTasks, SaveMessage, Tick, vars, connVars, routerVars, chanVars, Untouched
<1>4. CASE Crash
  BY <1>4 DEF Crash
<1> QED  BY <1>1, <1>2, <1>3, <1>4 DEF Next

LEMMA LinesOfSpec == Spec => []LinesInv
<1>1. PresenceInv => AnnouncedOnce
  BY DEF PresenceInv
<1> QED  BY TypesHold, BackedInit, SubscriptionInit, FoundedNext, SessionInit, SessionNext,
            PostsFirstNext, GreetingInit, GreetingNext, OrderHolds,
            PresenceHolds, UntouchedInit, UntouchedNext, <1>1, PTL DEF Spec, LinesInv

\* A message gets into a line when it is posted, and by then it is in none.
LEMMA LineMoves ==
  ASSUME TypeInv, SessionInv, LinesInv, [Next]_vars, NEW d \in Conn, NEW b \in Body,
         Lined(d, b)', ~Lined(d, b)
  PROVE  \E c \in Conn : Posting(c, b)
<1> USE DEF LinesInv, OrderInv
<1>1. ASSUME NEW c \in Conn, Actor(c) \/ Client(c)
      PROVE  Posting(c, b)
  <2>1. PICK steps : StepShape(c, steps)
    BY <1>1, ShapeOfStep
  <2>2. Carried(c) /\ \A e \in Conn \ {c} : Aside(e)
    BY <1>1, CarriedByStep, OthersStand
  <2> QED  BY <2>1, <2>2, LinesOfStep DEF Forward
<1>2. CASE RouterTask
  <2>1. Forward(d)
    BY <1>2, DeliverMovesForward, TakeMovesForward DEF RouterTask
  <2> QED  BY <2>1 DEF Forward
<1>3. CASE SaveTasks \/ Tick \/ Crash \/ UNCHANGED vars
  <2>1. /\ UNCHANGED wire
        /\ \/ UNCHANGED <<script, chan, fanout, rxq>>
           \/ /\ \A c \in Conn : script'[c] = <<>> /\ chan'[c] = <<>>
              /\ fanout' = <<>> /\ rxq' = <<>>
    BY <1>3 DEF SaveTasks, SaveMessage, Tick, Crash, vars, routerVars, connVars, chanVars
  <2>2. PICK p \in Place : Stands(d, p, b)'
    BY DEF Lined
  <2>3. Stands(d, p, b)
    BY <2>1, <2>2 DEF Stands, Awaiting
  <2> QED  BY <2>3 DEF Lined
<1> QED  BY <1>1, <1>2, <1>3 DEF Next

LEMMA WireIsLine ==
  ASSUME TypeInv, NEW e \in Conn, NEW k, NEW b, OnWire(e, k, b)
  PROVE  <<1, k>> \in Place /\ Stands(e, <<1, k>>, b) /\ Lined(e, b) /\ k \in Nat
<1>1. k \in Nat \ {0}
  BY HasEntries DEF Entries, OnWire
<1>2. <<1, k>> \in Place
  BY <1>1 DEF Place
<1>3. Stands(e, <<1, k>>, b)
  BY DEF Stands, OnWire
<1> QED  BY <1>1, <1>2, <1>3 DEF Lined

-----------------------------------------------------------------------------
(* Messages past the router.                                               *)

\* The message with body b was sent, and is on its way to the router no more.
Past(b) ==
  /\ \E c \in Conn : \E i \in SentAt(c) : heard[c][i].body = b
  /\ \A e \in Chatting : e.message.body # b

\* Whatever is saved, or being saved, went through the router.
StoredPast == \A row \in messages \cup saves : Past(row.body)

\* What a client is told, live or by history, is past the router.
PastInv == LinesInv /\ HistoryInv /\ StoredPast

LEMMA PastBody ==
  ASSUME TypeInv, NEW b, Past(b)
  PROVE  b \in Body
<1>1. PICK c \in Conn : \E i \in SentAt(c) : heard[c][i].body = b
  BY DEF Past
<1>2. PICK i \in SentAt(c) : heard[c][i].body = b
  BY <1>1
<1>3. heard[c][i] \in FirstFrames \cup Requests /\ Sends(heard[c][i])
  BY <1>2, HasEntries DEF Entries, SentAt
<1> QED  BY <1>2, <1>3, RequestAssumption
         DEF Sends, ClientMessage, AuthMessage, CreateGroup

LEMMA ChattingIs ==
  ASSUME TypeInv, NEW b
  PROVE  (\E e \in Chatting : e.message.body = b) <=>
           (\E c \in Conn : Posting(c, b)) \/ (\E i : Queued(i, b))
<1> USE HasEntries DEF Entries
<1>1. ASSUME NEW e \in Chatting, e.message.body = b
      PROVE  (\E c \in Conn : Posting(c, b)) \/ (\E i : Queued(i, b))
  <2>1. e \in InFlight /\ e.type = "RouteMessage" /\ Live(e.message)
    BY DEF Chatting
  <2>2. CASE e \in Posted
    BY <1>1, <2>1, <2>2 DEF Posted, Range, Queued
  <2>3. CASE e \in AboutToPost
    <3>1. PICK c \in Conn : Awaiting(c, "toRouter") /\ e = script[c][1].event
      BY <2>3 DEF AboutToPost
    <3>2. Head(script[c]) = script[c][1]
      BY <3>1 DEF Awaiting
    <3> QED  BY <1>1, <2>1, <3>1, <3>2 DEF Posting
  <2> QED  BY <2>1, <2>2, <2>3 DEF InFlight
<1>2. ASSUME NEW c \in Conn, Posting(c, b)
      PROVE  \E e \in Chatting : e.message.body = b
  <2>1. Head(script[c]) = script[c][1]
    BY <1>2 DEF Posting, Awaiting
  <2> QED  BY <1>2, <2>1 DEF Posting, Chatting, InFlight, AboutToPost
<1>3. ASSUME NEW i, Queued(i, b)
      PROVE  \E e \in Chatting : e.message.body = b
  BY <1>3 DEF Queued, Chatting, InFlight, Posted, Range
<1> QED  BY <1>1, <1>2, <1>3

\* Past the router is past it for good: nobody sends the same message again.
LEMMA PastStays ==
  ASSUME TypeInv, Founded, SessionInv, PostsFirst, [Next]_vars, NEW b, Past(b)
  PROVE  Past(b)'
<1>1. PICK c \in Conn : \E i \in SentAt(c) : heard[c][i].body = b
  BY DEF Past
<1>2. PICK i \in SentAt(c) : heard[c][i].body = b
  BY <1>1
<1>3. i \in SentAt(c)' /\ heard'[c][i].body = b
  BY <1>2, HeardStays DEF SentAt
<1>4. ASSUME NEW e \in Chatting', e.message.body = b
      PROVE  FALSE
  <2>1. e \notin Chatting
    BY <1>4 DEF Past
  <2>2. PICK d \in Conn : Actor(d) \/ Client(d)
    BY <2>1, ChattingLeft DEF Next
  <2>3. PICK steps : StepShape(d, steps)
    BY <2>2, ShapeOfStep
  <2>4. Chats(d, e)
    BY <2>1, <2>3, ChattingOfStep
  <2>5. PICK m \in Requests : FreshBody(m) /\ Sends(m) /\ e = RouteMessage(me[d], m.target, Outgoing(me[d], m))
    BY <2>4 DEF Chats
  <2>6. e.message.body = m.body
    BY <2>5 DEF RouteMessage, Outgoing, NewMessage
  <2>7. <<c, i>> \in Heard("SendMessage")
    BY <1>2 DEF SentAt, Sends, Heard
  <2> QED  BY <1>2, <1>4, <2>5, <2>6, <2>7 DEF FreshBody, Sends
<1> QED  BY <1>3, <1>4 DEF Past

\* So it gets into no line that it is not in.
LEMMA PastLine ==
  ASSUME TypeInv, SessionInv, LinesInv, [Next]_vars, NEW d \in Conn, NEW b,
         Past(b), ~Lined(d, b)
  PROVE  ~Lined(d, b)'
BY LineMoves, PastBody, ChattingIs DEF Past

\* It is not in the line of a connection that nobody has opened.
LEMMA PastIsNew ==
  ASSUME TypeInv, SessionInv, GreetingInv, LinesInv, NEW c \in Conn, phase[c] = "fresh",
         NEW b, Past(b)
  PROVE  ~Lined(c, b)
<1>1. wire[c] = <<>> /\ script[c] = <<>> /\ chan[c] = <<>>
  BY WhereAwaits DEF GreetingInv, Stage, LinesInv, Untouched
<1>2. \A i \in DOMAIN fanout : fanout[i].to # c
  BY DEF LinesInv, Untouched
<1> SUFFICES ASSUME NEW p \in Place, Stands(c, p, b) PROVE FALSE
  BY DEF Lined
<1>3. p[1] = 5 /\ Queued(p[2], b)
  BY <1>1, <1>2, Parts DEF OnWire, InHand, Awaiting, InChannel, ToBeSent
<1> QED  BY <1>3, ChattingIs DEF Past

\* What was told live is past the router: it stands nearer in the line.
LEMMA ToldIsPast ==
  ASSUME TypeInv, LinesInv, NEW c \in Conn, NEW k, NEW b \in Body, OnWire(c, k, b)
  PROVE  Past(b)
<1>1. /\ <<1, k>> \in Place /\ Stands(c, <<1, k>>, b) /\ Lined(c, b)
  BY WireIsLine
<1>2. \A d \in Conn : ~Posting(d, b)
  BY <1>1 DEF LinesInv, OrderInv, Unposted
<1>3. ASSUME NEW i, Queued(i, b) PROVE FALSE
  <2>1. i \in Nat \ {0}
    BY <1>3 DEF Queued, TypeInv, TypeOK, RouterOK
  <2>2. <<5, i>> \in Place /\ Stands(c, <<5, i>>, b) /\ Nearer(<<1, k>>, <<5, i>>)
    BY <1>3, <2>1, Parts DEF Place, Nearer
  <2> QED  BY <1>1, <2>2 DEF LinesInv, OrderInv, LinesAgree, Ahead
<1>4. \E d \in Conn : \E i \in SentAt(d) : heard[d][i].body = b
  BY <1>1 DEF LinesInv, OrderInv, LinesHeard
<1> QED  BY <1>2, <1>3, <1>4, ChattingIs DEF Past

\* What a batch gives back is past the router: it was stored.
LEMMA BatchIsPast ==
  ASSUME PastInv, NEW c \in Conn, NEW batch \in Batches(c), NEW j \in DOMAIN batch
  PROVE  Past(batch[j].body)
<1>1. PICK row \in messages : batch[j] = RowMessage(row)
  BY BatchesTrue DEF PastInv, TrueBatch
<1>2. batch[j].body = row.body
  BY <1>1 DEF RowMessage, NewMessage
<1> QED  BY <1>1, <1>2 DEF PastInv, StoredPast

\* The message whose task is started is the one that leaves the queue.
LEMMA TakenIsPast ==
  ASSUME TypeInv, Founded, SessionInv, LinesInv, RowsHonest, OnRouteMessage,
         RouterTask, NEW e, e = Head(rxq), Live(e.message), NEW b, b = e.message.body
  PROVE  Past(b)'
<1>1. /\ rxq \in Seq(RouterEvent) /\ rxq # <<>> /\ rxq' = Tail(rxq) /\ e.type = "RouteMessage"
      /\ UNCHANGED <<script, heard>>
  BY QueueOfRouter DEF OnRouteMessage, Take, TypeInv, TypeOK, RouterOK
<1>2. /\ 1 \in DOMAIN rxq /\ e = rxq[1] /\ e \in RouterEvent
      /\ \A i \in DOMAIN rxq' : i \in Nat \ {0} /\ i + 1 \in DOMAIN rxq /\ rxq'[i] = rxq[i + 1]
  BY <1>1
<1>3. Queued(1, b)
  BY <1>1, <1>2 DEF Queued
<1>4. b \in Body
  <2>1. e.message \in ServerMessage
    BY <1>1, <1>2 DEF RouterEvent
  <2> QED  BY <2>1 DEF Live, ServerMessage, ChatMessage
<1>5. PICK c \in Conn : \E i \in SentAt(c) : heard[c][i].body = b
  <2>1. e \in Chatting
    BY <1>1, <1>2 DEF Chatting, InFlight, Posted, Range
  <2>2. RowOf(e) \in Rows /\ RowOf(e).body = b
    BY <2>1 DEF Rows, RowOf, SavedRow
  <2>3. [from |-> RowOf(e).sender, frame |-> SendMessage(RowTarget(RowOf(e)), b)] \in Accepted
    BY <2>2 DEF RowsHonest
  <2>4. PICK c \in Conn : \E i \in DOMAIN heard[c] :
          Sends(heard[c][i]) /\ heard[c][i] = SendMessage(RowTarget(RowOf(e)), b)
    BY <2>3, WhatIsAccepted
  <2> QED  BY <2>4 DEF SentAt, SendMessage
<1>6. <<5, 1>> \in Place /\ Stands(c, <<5, 1>>, b)
  BY <1>3, Parts DEF Place
<1>7. \A d \in Conn : ~Posting(d, b)
  BY <1>4, <1>6 DEF Lined, LinesInv, OrderInv, Unposted
<1>8. ASSUME NEW i, Queued(i, b)' PROVE FALSE
  <2>1. Queued(i + 1, b) /\ i \in Nat \ {0}
    BY <1>2, <1>8 DEF Queued
  <2>2. <<5, i + 1>> \in Place /\ Stands(c, <<5, i + 1>>, b) /\ Nearer(<<5, 1>>, <<5, i + 1>>)
    BY <2>1, Parts DEF Place, Nearer
  <2> QED  BY <1>4, <1>6, <2>2 DEF LinesInv, OrderInv, LinesAgree, Ahead
<1>9. ASSUME NEW f \in Chatting', f.message.body = b PROVE FALSE
  <2>1. f \in InFlight' /\ f.type = "RouteMessage" /\ Live(f.message)
    BY <1>9 DEF Chatting
  <2>2. f \in Range(rxq') \/ f \in AboutToPost
    BY <1>1, <2>1 DEF InFlight, Posted, AboutToPost, Awaiting
  <2>3. CASE f \in Range(rxq')
    BY <1>8, <1>9, <2>1, <2>3 DEF Range, Queued
  <2>4. CASE f \in AboutToPost
    <3>1. PICK d \in Conn : Awaiting(d, "toRouter") /\ f = script[d][1].event
      BY <2>4 DEF AboutToPost
    <3>2. Head(script[d]) = script[d][1]
      BY <3>1, HasEntries DEF Entries, Awaiting
    <3> QED  BY <1>7, <1>9, <2>1, <3>1, <3>2 DEF Posting
  <2> QED  BY <2>2, <2>3, <2>4
<1> QED  BY <1>1, <1>5, <1>9 DEF Past, SentAt

LEMMA StoredNext ==
  TypeInv /\ SessionInv /\ LinesInv /\ HistoryInv /\ StoredPast /\ [Next]_vars => StoredPast'
<1> SUFFICES ASSUME TypeInv, SessionInv, LinesInv, HistoryInv, StoredPast, [Next]_vars,
                    NEW row \in messages' \cup saves'
             PROVE  Past(row.body)'
  BY DEF StoredPast
<1>1. CASE row \in messages \cup saves
  BY <1>1, PastStays DEF StoredPast, LinesInv
<1>2. CASE row \notin messages \cup saves
  <2>1. RouterTask
    <3>1. ASSUME NEW c \in Conn, Actor(c) \/ Client(c) PROVE FALSE
      BY <1>2, <3>1, CarriedByStep DEF Carried
    <3>2. CASE SaveTasks
      BY <1>2, <3>2 DEF SaveTasks, SaveMessage, InsertMessage, dbVars
    <3>3. CASE Tick \/ Crash \/ UNCHANGED vars
      BY <1>2, <3>3 DEF Tick, Crash, vars, routerVars, dbVars
    <3> QED  BY <3>1, <3>2, <3>3 DEF Next
  <2>2. messages' = messages
    BY <2>1 DEF RouterTask, RouterStep, OnUserConnected, OnUserDisconnected, OnUserJoinedGroup,
                OnRouteMessage, Deliver, dbVars
  <2>3. OnRouteMessage
    BY <1>2, <2>1, <2>2 DEF RouterTask, RouterStep, OnUserConnected, OnUserDisconnected,
                            OnUserJoinedGroup, Deliver
  <2>4. row \in SaveTask(Head(rxq).from, Head(rxq).target, Head(rxq).message)
    BY <1>2, <2>2, <2>3 DEF OnRouteMessage
  <2>5. Live(Head(rxq).message) /\ row.body = Head(rxq).message.body
    BY <2>4 DEF SaveTask, SavedRow, Live
  <2>6. PICK e, b : e = Head(rxq) /\ b = e.message.body
    OBVIOUS
  <2>7. Past(b)'
    BY <2>1, <2>3, <2>5, <2>6, TakenIsPast DEF LinesInv, HistoryInv
  <2> QED  BY <2>5, <2>6, <2>7
<1> QED  BY <1>1, <1>2

LEMMA PastHolds == DeskSpec => []PastInv
<1>1. Init => StoredPast
  BY DEF Init, DbInit, RouterInit, StoredPast
<1>2. Spec => []StoredPast
  BY <1>1, StoredNext, LinesOfSpec, TypesHold, BackedInit, SubscriptionInit, FoundedNext,
     SessionInit, SessionNext, PostsFirstNext, HistoryHolds, PTL DEF Spec
<1> QED  BY <1>2, LinesOfSpec, HistoryHolds, DeskHasServer, PTL DEF PastInv

-----------------------------------------------------------------------------
(* What is on the page.                                                    *)

\* What a message adds to the tabs: itself, or bodies of its batch.
LEMMA AppliedTabs ==
  ASSUME NEW p \in C!Page, NEW m \in ServerMessage, NEW u \in UserId,
         m.type \notin {"AuthSuccess", "Error"}, NEW b,
         m.type = "SyncBatch" => \A j \in DOMAIN m.batch : m.batch[j].body # b
  PROVE  \A t \in Target : \A i \in DOMAIN C!Apply(p, m, u).tabs[t] :
           C!Apply(p, m, u).tabs[t][i].body = b =>
             \/ i \in DOMAIN p.tabs[t] /\ p.tabs[t][i].body = b
             \/ /\ Live(m) /\ m.body = b
                /\ t = C!TabOf(m, u) /\ i = Len(p.tabs[t]) + 1
<1>1. /\ C!Target = Target /\ C!ChatMessage = ChatMessage
      /\ p.tabs \in [Target -> Seq(ChatMessage)]
  <2>1. C!Target = Target /\ C!ChatMessage = ChatMessage
    BY SameProtocol DEF C!Target, Target, C!Broadcast, Broadcast
  <2>2. p.tabs \in [C!Target -> Seq(C!ChatMessage)]
    BY DEF C!Page
  <2> QED  BY <2>1, <2>2
<1>2. CASE m.type = "NewMessage"
  <2>1. m \in ChatMessage
    BY <1>2, ChatMessages
  <2>2. C!Apply(p, m, u) = [p EXCEPT !.tabs = C!Show(p.tabs, m, u)]
    BY <1>2 DEF C!Apply
  <2>3. C!Apply(p, m, u).tabs = C!Show(p.tabs, m, u)
    BY <2>2 DEF C!Page
  <2>4. \A t \in Target : /\ C!TabAdds(p.tabs, C!Show(p.tabs, m, u), t, m)
                          /\ t # C!TabOf(m, u) => C!Show(p.tabs, m, u)[t] = p.tabs[t]
    BY <1>1, <2>1, C!ShowAdds, ClientAssumption, SameProtocol, ClockAssumption
  <2> QED  BY <1>2, <2>3, <2>4 DEF C!TabAdds, Live
<1>3. CASE m.type = "SyncBatch"
  <2>1. m.batch \in Seq(ChatMessage)
    BY <1>3 DEF ServerMessage, ChatMessage
  <2>2. C!Apply(p, m, u) = [p EXCEPT !.tabs = C!ShowAll(p.tabs, m.batch, u)]
    BY <1>3 DEF C!Apply
  <2>3. C!Apply(p, m, u).tabs = C!ShowAll(p.tabs, m.batch, u)
    BY <2>2 DEF C!Page
  <2>4. ASSUME NEW t \in Target, NEW i \in DOMAIN C!ShowAll(p.tabs, m.batch, u)[t],
               C!ShowAll(p.tabs, m.batch, u)[t][i].body = b
        PROVE  i \in DOMAIN p.tabs[t] /\ p.tabs[t][i].body = b
    <3>1. /\ p.tabs \in [C!Target -> Seq(C!ChatMessage)] /\ m.batch \in Seq(C!ChatMessage) /\ t \in C!Target
          /\ \A j \in DOMAIN m.batch : m.batch[j].body # b
      BY <1>1, <1>3, <2>1
    <3>2. C!HasBodyAt(C!ShowAll(p.tabs, m.batch, u)[t], i, b) => C!HasBodyAt(p.tabs[t], i, b)
      BY <3>1, C!ShowAllKeeps, ClientAssumption, SameProtocol, ClockAssumption
    <3> QED  BY <2>4, <3>2 DEF C!HasBodyAt
  <2> QED  BY <2>3, <2>4
<1>4. CASE m.type \notin {"NewMessage", "SyncBatch"}
  <2>1. m.type \in {"UsersList", "GroupsList", "Presence", "GroupCreated", "AddedToGroup",
                    "GroupInfo", "GroupMembersList"}
    BY <1>4 DEF ServerMessage, ChatMessage
  <2>2. C!Apply(p, m, u).tabs = p.tabs
    BY <2>1 DEF C!Apply, C!Page
  <2> QED  BY <2>2
<1> QED  BY <1>2, <1>3, <1>4

\* What the client has been told is past the router, and what it had on its
\* page when it dialed is in no line of the connection it holds.
TabsPast(tabs) == \A t \in Target : \A i \in DOMAIN tabs[t] : Past(tabs[t][i].body)

ToldPast(m) ==
  /\ Live(m) => Past(m.body)
  /\ m.type = "SyncBatch" => \A j \in DOMAIN m.batch : Past(m.batch[j].body)

NotAgain ==
  \A t \in Target : \A i \in DOMAIN before.tabs[t] :
    Past(before.tabs[t][i].body) /\ ~Lined(cur, before.tabs[t][i].body)

AgainInv ==
  /\ \A i \in DOMAIN inbox : ToldPast(inbox[i])
  /\ TabsPast(page.tabs)
  /\ Held => NotAgain

LEMMA AgainInit == DeskInit => AgainInv
<1> SUFFICES ASSUME DeskInit PROVE AgainInv
  OBVIOUS
<1>1. inbox = <<>> /\ ~Held
  BY DEF DeskInit, C!ClientInit, C!NetInit, Held
<1>2. page = C!EmptyPage
  BY DEF DeskInit, C!ClientInit
<1>3. \A t \in Target : page.tabs[t] = <<>>
  BY <1>2, SameProtocol DEF C!EmptyPage, C!Target, Target, C!Broadcast, Broadcast
<1> QED  BY <1>1, <1>3 DEF AgainInv, TabsPast

\* A step that shows nothing, and hands over at most one message.
LEMMA AgainRests ==
  ASSUME DeskInv, PastInv, AgainInv, [Next]_vars, UNCHANGED page,
         inbox' = inbox \/ \E m : ToldPast(m) /\ inbox' = Append(inbox, m),
         ~Held' \/ UNCHANGED <<cur, before>>
  PROVE  AgainInv'
<1> USE DEF DeskInv, ServerInv, LinkInv
<1>1. \A b : Past(b) => Past(b)'
  BY PastStays DEF PastInv, LinesInv
<1>2. ASSUME NEW i \in DOMAIN inbox' PROVE ToldPast(inbox[i])'
  <2>1. inbox \in Seq(C!Delivered)
    BY DEF C!ClientInv, C!ClientTypes, C!Delivered
  <2>2. PICK m : ToldPast(m) /\ m = inbox'[i]
    <3>1. CASE inbox' = inbox
      BY <1>2, <3>1 DEF AgainInv
    <3>2. ASSUME NEW m, ToldPast(m), inbox' = Append(inbox, m)
          PROVE  ToldPast(inbox'[i])
      <4>1. (i \in DOMAIN inbox /\ inbox'[i] = inbox[i]) \/ inbox'[i] = m
        BY <1>2, <2>1, <3>2, Appended
      <4> QED  BY <3>2, <4>1 DEF AgainInv
    <3> QED  BY <3>1, <3>2
  <2>3. ToldPast(m)'
    BY <1>1, <2>2 DEF ToldPast
  <2> QED  BY <2>2, <2>3 DEF ToldPast
<1>3. TabsPast(page.tabs)'
  BY <1>1 DEF AgainInv, TabsPast
<1>4. ASSUME Held' PROVE NotAgain'
  <2>1. Held /\ UNCHANGED <<cur, before>>
    BY <1>4 DEF Held
  <2>2. cur \in Conn
    BY <2>1, Unread
  <2>3. \A b : Past(b) /\ ~Lined(cur, b) => ~Lined(cur, b)'
    <3>1. PICK c \in Conn : c = cur
      BY <2>2
    <3>2. \A b : Past(b) /\ ~Lined(c, b) => ~Lined(c, b)'
      BY PastLine DEF PastInv
    <3> QED  BY <2>1, <3>1, <3>2 DEF Lined, Stands, Awaiting
  <2> QED  BY <1>1, <2>1, <2>3 DEF AgainInv, NotAgain
<1> QED  BY <1>2, <1>3, <1>4 DEF AgainInv

\* The connection that is dialed is a new one, and the page is past the router.
LEMMA AgainByDial ==
  ASSUME DeskInv, PastInv, AgainInv, Dials, UNCHANGED page
  PROVE  AgainInv'
<1> USE DEF DeskInv, ServerInv, LinkInv
<1>1. UNCHANGED <<vars, inbox, page>> /\ before' = page
  BY DEF Dials, C!Dial
<1>2. PICK c \in DeskConns \ dialed : cur' = c
  BY DEF Dials
<1>3. c \in Conn /\ phase[c] = "fresh"
  BY DeskAssumption DEF SocketInv
<1>4. \A b : Past(b)' <=> Past(b)
  BY <1>1 DEF Past, SentAt, Chatting, InFlight, Posted, AboutToPost, Awaiting, Range,
              vars, connVars, routerVars
<1>5. \A b : Past(b) => ~Lined(cur, b)'
  <2>1. \A b : Past(b) => ~Lined(c, b)
    BY <1>3, PastIsNew DEF PastInv
  <2> QED  BY <1>1, <1>2, <2>1 DEF Lined, Stands, Awaiting, vars, connVars, routerVars, chanVars
<1>6. NotAgain'
  BY <1>1, <1>4, <1>5 DEF AgainInv, TabsPast, NotAgain
<1>7. \A i \in DOMAIN inbox' : ToldPast(inbox[i])'
  BY <1>1, <1>4 DEF AgainInv, ToldPast
<1>8. TabsPast(page.tabs)'
  BY <1>1, <1>4 DEF AgainInv, TabsPast
<1> QED  BY <1>6, <1>7, <1>8 DEF AgainInv

\* What is read off the wire is past the router.
LEMMA AgainByRead ==
  ASSUME DeskInv, PastInv, AgainInv, Reads, UNCHANGED page
  PROVE  AgainInv'
<1> USE DEF DeskInv, ServerInv, LinkInv
<1>1. Held
  BY DEF Reads, SocketInv, C!Linked
<1>2. UNCHANGED vars /\ inbox' = Append(inbox, Head(unread)) /\ unread # <<>>
  BY DEF Reads, LetGo, C!Receive
<1>3. ~Held' \/ UNCHANGED <<cur, before>>
  BY DEF Reads, LetGo, Held
<1>4. PICK m \in ServerMessage : m = Head(unread) /\ m = wire[cur][read + 1]
  BY <1>1, <1>2, Unread, TailTypes
<1>5. cur \in Conn /\ read + 1 \in DOMAIN wire[cur]
  BY <1>1, <1>2, Unread DEF SocketInv
<1>6. Live(m) => Past(m.body)
  <2>1. ASSUME Live(m) PROVE m.body \in Body /\ OnWire(cur, read + 1, m.body)
    BY <1>4, <1>5, <2>1 DEF OnWire, Live, ServerMessage, ChatMessage
  <2> QED  BY <1>5, <2>1, ToldIsPast DEF PastInv
<1>7. ASSUME m.type = "SyncBatch", NEW j \in DOMAIN m.batch
      PROVE  Past(m.batch[j].body)
  <2>1. m.batch \in Batches(cur)
    BY <1>4, <1>5, <1>7 DEF Batches, Range
  <2> QED  BY <1>5, <1>7, <2>1, BatchIsPast
<1>8. ToldPast(m) /\ inbox' = Append(inbox, m) /\ [Next]_vars
  BY <1>2, <1>4, <1>6, <1>7 DEF ToldPast
<1> QED  BY <1>3, <1>8, AgainRests

LEMMA AgainByThread ==
  ASSUME DeskInv, PastInv, AgainInv, ClientThread \/ Breaks
  PROVE  AgainInv'
<1> USE DEF DeskInv, LinkInv
<1>1. UNCHANGED page
  BY DEF ClientThread, Breaks, screenVars
<1>2. CASE Dials
  BY <1>1, <1>2, AgainByDial
<1>3. CASE Reads
  BY <1>1, <1>3, AgainByRead
<1>4. CASE HearsEnd \/ Breaks
  <2>1. UNCHANGED <<vars, inbox>> /\ ~Held'
    BY <1>4 DEF HearsEnd, Breaks, LetGo, Held, C!EndOfStream, C!Fail
  <2> QED  BY <1>1, <2>1, AgainRests
<1>5. CASE \/ WritesAuth \/ WritesSend
           \/ OffSocket /\ (C!TakeConnect \/ C!Refuse \/ C!IgnoreConnect \/ C!Wake)
  <2>1. UNCHANGED <<vars, cur, before, inbox>>
    BY <1>5 DEF WritesAuth, WritesSend, Writes1, C!WriteAuth, C!Write, OffSocket, socketVars,
                C!TakeConnect, C!Refuse, C!IgnoreConnect, C!Wake
  <2> QED  BY <1>1, <2>1, AgainRests
<1>6. CASE OffSocket /\ C!Report
  <2>1. UNCHANGED <<vars, cur, before>> /\ inbox' = Append(inbox, C!Error("BadRequest"))
    BY <1>6 DEF OffSocket, socketVars, C!Report
  <2>2. ToldPast(C!Error("BadRequest"))
    BY DEF ToldPast, C!Error, Live
  <2> QED  BY <1>1, <2>1, <2>2, AgainRests
<1> QED  BY <1>2, <1>3, <1>4, <1>5, <1>6 DEF ClientThread

\* The UI thread takes a message from the inbox to the page, or drops it.
LEMMA AgainByTake ==
  ASSUME DeskInv, AgainInv, OffSocket, C!TakeMessage
  PROVE  AgainInv'
<1> USE DEF DeskInv, ServerInv, LinkInv
<1>1. UNCHANGED <<vars, cur, before>> /\ inbox # <<>> /\ inbox' = Tail(inbox)
  BY DEF OffSocket, socketVars, C!TakeMessage
<1>2. inbox \in Seq(C!Delivered) /\ page \in C!Page /\ state \in C!AppState
  BY DEF C!ClientInv, C!ClientTypes, C!Delivered
<1>3. PICK m \in C!Delivered : m = Head(inbox)
  BY <1>1, <1>2, TailTypes
<1>4. /\ 1 \in DOMAIN inbox /\ inbox[1] = m
      /\ \A i \in DOMAIN inbox' : i + 1 \in DOMAIN inbox /\ inbox'[i] = inbox[i + 1]
  BY <1>1, <1>2, <1>3
<1>5. \A b : Past(b)' <=> Past(b)
  BY <1>1 DEF Past, SentAt, Chatting, InFlight, Posted, AboutToPost, Awaiting, Range,
              vars, connVars, routerVars
<1>6. page' = page \/ /\ m.type \notin {"AuthSuccess", "Error"} /\ state.at = "Chat"
                      /\ page' = C!Apply(page, m, state.user)
  BY <1>3 DEF C!TakeMessage, C!OnAuthSuccess, C!OnError, C!OnOther, C!ForPage
<1>7. TabsPast(page'.tabs)
  <2>1. CASE page' = page
    BY <2>1 DEF AgainInv
  <2>2. CASE /\ m.type \notin {"AuthSuccess", "Error"} /\ state.at = "Chat"
             /\ page' = C!Apply(page, m, state.user)
    <3>1. m \in ServerMessage /\ state.user \in UserId
      BY <1>2, <1>3, <2>2, SameProtocol DEF C!Delivered, C!Error, C!AppState, C!OnAuth, C!Connecting
    <3>2. ToldPast(m)
      BY <1>4 DEF AgainInv
    <3>3. ASSUME NEW t \in Target, NEW i \in DOMAIN page'.tabs[t], ~Past(page'.tabs[t][i].body)
          PROVE  FALSE
      <4>1. PICK b : b = page'.tabs[t][i].body
        OBVIOUS
      <4>2. m.type = "SyncBatch" => \A j \in DOMAIN m.batch : m.batch[j].body # b
        BY <3>2, <3>3, <4>1 DEF ToldPast
      <4>3. page \in C!Page /\ m.type \notin {"AuthSuccess", "Error"}
        BY <1>2, <2>2
      <4>4. \A r \in Target : \A k \in DOMAIN C!Apply(page, m, state.user).tabs[r] :
              C!Apply(page, m, state.user).tabs[r][k].body = b =>
                \/ k \in DOMAIN page.tabs[r] /\ page.tabs[r][k].body = b
                \/ /\ Live(m) /\ m.body = b
                   /\ r = C!TabOf(m, state.user) /\ k = Len(page.tabs[r]) + 1
        BY <3>1, <4>2, <4>3, AppliedTabs
      <4>5. (i \in DOMAIN page.tabs[t] /\ page.tabs[t][i].body = b) \/ (Live(m) /\ m.body = b)
        BY <2>2, <3>3, <4>1, <4>4
      <4> QED  BY <3>2, <3>3, <4>1, <4>5 DEF AgainInv, TabsPast, ToldPast
    <3> QED  BY <3>3 DEF TabsPast
  <2> QED  BY <1>6, <2>1, <2>2
<1>8. TabsPast(page.tabs)'
  BY <1>5, <1>7 DEF TabsPast
<1>9. \A i \in DOMAIN inbox' : ToldPast(inbox[i])'
  BY <1>4, <1>5 DEF AgainInv, ToldPast
<1>10. Held' => NotAgain'
  <2>1. \A b : Lined(cur, b)' <=> Lined(cur, b)
    BY <1>1 DEF Lined, Stands, Awaiting, vars, connVars, routerVars, chanVars
  <2> QED  BY <1>1, <1>5, <2>1 DEF AgainInv, NotAgain, Held
<1> QED  BY <1>8, <1>9, <1>10 DEF AgainInv

LEMMA AgainNext ==
  ASSUME DeskInv, PastInv, AgainInv, [DeskNext]_deskVars
  PROVE  AgainInv'
<1>1. [Next]_vars
  BY ServerStep
<1>2. CASE ServerSide \/ UNCHANGED deskVars
  <2>1. UNCHANGED <<cur, before, inbox, page>>
    BY <1>2 DEF ServerSide, Serves, socketVars, clientVars, screenVars, deskVars
  <2> QED  BY <1>1, <2>1, AgainRests
<1>3. CASE Screen /\ ~C!TakeMessage
  <2>1. UNCHANGED <<vars, cur, before, inbox, page>>
    BY <1>3 DEF Screen, OffSocket, socketVars, C!Frame, C!Repaint, C!Begin, C!Watch, C!HandleModals,
       Touches, C!Touch, C!ClickLogin, C!SelectChat, C!SendContent, C!OpenModal, C!OnChat
  <2> QED  BY <1>1, <2>1, AgainRests
<1>4. CASE Screen /\ C!TakeMessage
  BY <1>4, AgainByTake DEF Screen
<1> QED  BY <1>2, <1>3, <1>4, AgainByThread DEF DeskNext

\* Over any number of logins, a message that is on the page when the client
\* dials, live or as history brought it, is not told live on the new
\* connection: the session that was served is not served again under the next
\* (router.rs:103, 127; connection.rs:338).
THEOREM LiveIsNewAlways ==
  ASSUME WholeProtocol
  PROVE  DeskSpec => []LiveIsNew
<1>1. DeskInv /\ AgainInv => LiveIsNew
  <2> SUFFICES ASSUME DeskInv, AgainInv, cur # NoConn, NEW i \in LiveAt(cur), NEW t \in Target,
                      wire[cur][i].body \in Range(Bodies(before.tabs[t]))
               PROVE  FALSE
    BY DEF LiveIsNew
  <2>1. cur \in Conn /\ Held
    BY Unread DEF DeskInv, ServerInv, LinkInv, Held
  <2>2. PICK j \in DOMAIN before.tabs[t] : before.tabs[t][j].body = wire[cur][i].body
    BY DEF Range, Bodies
  <2>3. ~Lined(cur, wire[cur][i].body)
    BY <2>1, <2>2 DEF AgainInv, NotAgain
  <2>4. OnWire(cur, i, wire[cur][i].body)
    BY DEF LiveAt, OnWire
  <2> QED  BY <2>1, <2>3, <2>4, WireIsLine DEF DeskInv, ServerInv
<1>2. DeskInv /\ PastInv /\ AgainInv /\ [DeskNext]_deskVars => AgainInv'
  BY AgainNext
<1> QED  BY <1>1, <1>2, AgainInit, PastHolds, DeskHolds, PTL DEF DeskSpec
===============================================================================
