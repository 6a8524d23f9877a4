------------------------------- MODULE TypeProofs -------------------------------
(***************************************************************************)
(* Type correctness of the server, for every value of the constants: the   *)
(* queries, events, messages and awaits the actors build are what their    *)
(* receivers expect, whatever interleaves.                                 *)
(***************************************************************************)
EXTENDS ServerProperties, FiniteSetTheorems, TLAPS

\* What an actor may be awaiting at each point of handle_connection.
AuthAwait   == [do : {"login", "nameCheck", "insertUser"}, name : Name, password : Password]
ClientAwait == [do : {"toClient"}, msg : ServerMessage]
LoopAwait   == Await \ AuthAwait

AwaitAt(p) ==
  CASE p = "authenticating" -> AuthAwait
    [] p = "rejecting" -> ClientAwait
    [] p \in {"greeting", "serving", "leaving"} -> LoopAwait
    [] OTHER -> {}

ScriptsFit == \A c \in Conn : script[c] \in Seq(AwaitAt(phase[c]))

\* Past its login, a connection knows its user.
LoggedIn(c) == phase[c] \in {"greeting", "serving", "leaving"}

UsersKnown == \A c \in Conn : LoggedIn(c) => me[c] \in UserId

\* save_message fills one of the columns that say where a message goes.
Addressed(row) == row.broadcast \/ row.toUser \in UserId \/ row.toGroup \in GroupId

RowsAddressed == \A row \in saves \cup messages : Addressed(row)

\* TypeOK is not inductive: an actor that reads its groups or handles a frame
\* uses the user id that only a successful login has set, and a history query
\* rebuilds a target only because some column of every row says where it goes.
TypeInv ==
  /\ TypeOK
  /\ ScriptsFit
  /\ UsersKnown
  /\ RowsAddressed
  /\ IsFiniteSet(messages)

-----------------------------------------------------------------------------
(* Sequences.                                                              *)

\* What is left of a script, or of a queue, is still a sequence of its kind.
LEMMA TailTypes ==
  ASSUME NEW S, NEW s \in Seq(S), s # <<>>
  PROVE  Head(s) \in S /\ Tail(s) \in Seq(S)
OBVIOUS

LEMMA ConcatTypes ==
  ASSUME NEW S, NEW s \in Seq(S), NEW t \in Seq(S)
  PROVE  s \o t \in Seq(S)
OBVIOUS

LEMMA AppendTypes ==
  ASSUME NEW S, NEW s \in Seq(S), NEW e \in S
  PROVE  Append(s, e) \in Seq(S)
OBVIOUS

LEMMA SeqSubset ==
  ASSUME NEW S, NEW T, S \subseteq T, NEW s \in Seq(S)
  PROVE  s \in Seq(T)
OBVIOUS

\* An ordering of a finite set is a sequence of its elements.
LEMMA SeqsOfSet ==
  ASSUME NEW S, IsFiniteSet(S), NEW s \in SetToSeqs(S)
  PROVE  s \in Seq(S)
<1>1. Cardinality(S) \in Nat
  BY FS_CardinalityType
<1> QED  BY <1>1 DEF SetToSeqs

-----------------------------------------------------------------------------
(* What the constructors build.                                            *)

LEMMA MessageTypes ==
  /\ \A u \in UserId : AuthSuccess(u) \in ServerMessage
  /\ \A gs \in SUBSET GroupId : GroupsList(gs) \in ServerMessage
  /\ \A us \in SUBSET UserId : UsersList(us) \in ServerMessage
  /\ \A e \in ServerError : Error(e) \in ServerMessage
  /\ \A f \in UserId, t \in Target, b \in Body, at \in Timestamp :
       NewMessage(f, t, b, at) \in ChatMessage /\ NewMessage(f, t, b, at) \in ServerMessage
  /\ \A u \in UserId, on \in BOOLEAN : Presence(u, on) \in ServerMessage
  /\ \A ms \in Seq(ChatMessage) : SyncBatch(ms) \in ServerMessage
  /\ \A g \in GroupId : GroupCreated(g) \in ServerMessage /\ AddedToGroup(g) \in ServerMessage
                          /\ GroupInfo(g) \in ServerMessage
  /\ \A g \in GroupId, us \in SUBSET UserId : GroupMembersList(g, us) \in ServerMessage
<1> USE DEF ServerMessage, ChatMessage
<1>1. \A u \in UserId : AuthSuccess(u) \in ServerMessage
  BY DEF AuthSuccess
<1>2. \A gs \in SUBSET GroupId : GroupsList(gs) \in ServerMessage
  BY DEF GroupsList
<1>3. \A us \in SUBSET UserId : UsersList(us) \in ServerMessage
  BY DEF UsersList
<1>4. \A e \in ServerError : Error(e) \in ServerMessage
  BY DEF Error
<1>5. \A f \in UserId, t \in Target, b \in Body, at \in Timestamp :
        NewMessage(f, t, b, at) \in ChatMessage /\ NewMessage(f, t, b, at) \in ServerMessage
  BY DEF NewMessage
<1>6. \A u \in UserId, on \in BOOLEAN : Presence(u, on) \in ServerMessage
  BY DEF Presence
<1>7. \A ms \in Seq(ChatMessage) : SyncBatch(ms) \in ServerMessage
  BY DEF SyncBatch
<1>8. \A g \in GroupId : GroupCreated(g) \in ServerMessage /\ AddedToGroup(g) \in ServerMessage
                           /\ GroupInfo(g) \in ServerMessage
  BY DEF GroupCreated, AddedToGroup, GroupInfo
<1>9. \A g \in GroupId, us \in SUBSET UserId : GroupMembersList(g, us) \in ServerMessage
  BY DEF GroupMembersList
<1> QED  BY <1>1, <1>2, <1>3, <1>4, <1>5, <1>6, <1>7, <1>8, <1>9

LEMMA ChatMessages ==
  ASSUME NEW m \in ServerMessage, m.type = "NewMessage"
  PROVE  m \in ChatMessage
BY DEF ServerMessage, ChatMessage

LEMMA TargetTypes ==
  /\ \A u \in UserId : UserTarget(u) \in Target
  /\ \A g \in GroupId : GroupTarget(g) \in Target
  /\ Broadcast \in Target
BY DEF Target, UserTarget, GroupTarget, Broadcast

LEMMA EventTypes ==
  /\ \A u \in UserId, gs \in SUBSET GroupId, c \in Conn : UserConnected(u, gs, c) \in RouterEvent
  /\ \A u \in UserId : UserDisconnected(u) \in RouterEvent
  /\ \A f \in UserId, t \in Target, m \in ServerMessage : RouteMessage(f, t, m) \in RouterEvent
  /\ \A u \in UserId, g \in GroupId : UserJoinedGroup(u, g) \in RouterEvent
BY DEF RouterEvent, UserConnected, UserDisconnected, RouteMessage, UserJoinedGroup

LEMMA AwaitTypes ==
  /\ \A e \in RouterEvent : ToRouter(e) \in LoopAwait
  /\ \A m \in ServerMessage : ToSelf(m) \in LoopAwait /\ ToClient(m) \in LoopAwait
                                /\ ToClient(m) \in ClientAwait
  /\ \A q \in {"fetchGroups", "fetchUsers", "insertGroup"} : Query(q) \in LoopAwait
  /\ \A q \in {"insertCreator", "fetchMembers", "groupInfo"}, g \in GroupId :
       QueryGroup(q, g) \in LoopAwait
  /\ \A q \in {"insertMember", "groupName"}, g \in GroupId, u \in UserId :
       QueryMember(q, g, u) \in LoopAwait
  /\ \A q \in {"login", "nameCheck", "insertUser"}, n \in Name, p \in Password :
       QueryAccount(q, n, p) \in AuthAwait
  /\ \A t \in Timestamp : QuerySince("history", t) \in LoopAwait
BY DEF LoopAwait, AuthAwait, ClientAwait, Await, ToRouter, ToSelf, ToClient, Query,
       QueryGroup, QueryMember, QueryAccount, QuerySince

\* What an await of each kind carries.
LEMMA AwaitFields ==
  ASSUME NEW a \in Await
  PROVE  /\ a.do = "toRouter" => a.event \in RouterEvent
         /\ a.do \in {"toSelf", "toClient"} => a.msg \in ServerMessage
         /\ a.do \in {"insertCreator", "fetchMembers", "groupInfo"} => a.group \in GroupId
         /\ a.do \in {"insertMember", "groupName"} => a.group \in GroupId /\ a.user \in UserId
         /\ a.do \in {"login", "nameCheck", "insertUser"} =>
              a.name \in Name /\ a.password \in Password
         /\ a.do = "history" => a.since \in Timestamp
BY DEF Await

LEMMA AwaitKinds ==
  /\ AuthAwait = {a \in Await : a.do \in {"login", "nameCheck", "insertUser"}}
  /\ LoopAwait = {a \in Await : a.do \notin {"login", "nameCheck", "insertUser"}}
  /\ ClientAwait \subseteq {a \in Await : a.do = "toClient"}
  /\ \A p : AwaitAt(p) \subseteq Await
<1>1. AuthAwait = {a \in Await : a.do \in {"login", "nameCheck", "insertUser"}}
  BY DEF AuthAwait, Await
<1>2. LoopAwait = {a \in Await : a.do \notin {"login", "nameCheck", "insertUser"}}
  BY <1>1 DEF LoopAwait
<1>3. ClientAwait \subseteq {a \in Await : a.do = "toClient"}
  BY DEF ClientAwait, Await
<1>4. \A p : AwaitAt(p) \subseteq Await
  BY <1>1, <1>2, <1>3 DEF AwaitAt
<1> QED  BY <1>1, <1>2, <1>3, <1>4

-----------------------------------------------------------------------------
(* Changes of one script.                                                  *)

\* The actor of c moves to phase p with these awaits ahead of it.
LEMMA ScriptSet ==
  ASSUME TypeInv, NEW c \in Conn, NEW p \in Phase, NEW steps \in Seq(AwaitAt(p)),
         phase' = [phase EXCEPT ![c] = p],
         script' = [script EXCEPT ![c] = steps]
  PROVE  /\ phase' \in [Conn -> Phase]
         /\ script' \in [Conn -> Seq(Await)]
         /\ ScriptsFit'
<1>1. steps \in Seq(Await)
  BY AwaitKinds, SeqSubset
<1> QED  BY <1>1 DEF TypeInv, TypeOK, ConnOK, ScriptsFit

\* The await at the head of the script of c is replaced by these.
LEMMA ScriptContinues ==
  ASSUME TypeInv, NEW c \in Conn, script[c] # <<>>,
         NEW steps \in Seq(AwaitAt(phase[c])),
         UNCHANGED phase, Continue(c, steps)
  PROVE  /\ script' \in [Conn -> Seq(Await)]
         /\ ScriptsFit'
<1>1. steps \o Tail(script[c]) \in Seq(AwaitAt(phase[c]))
  BY TailTypes, ConcatTypes DEF TypeInv, ScriptsFit
<1>2. steps \o Tail(script[c]) \in Seq(Await)
  BY <1>1, AwaitKinds, SeqSubset
<1> QED  BY <1>1, <1>2 DEF TypeInv, TypeOK, ConnOK, ScriptsFit, Continue

\* Who awaits what: an authentication query comes before the login, every other
\* query and every send to a channel after it.
LEMMA WhoAwaits ==
  ASSUME TypeInv, NEW c \in Conn, script[c] # <<>>
  PROVE  /\ Head(script[c]) \in Await
         /\ Head(script[c]).do \in {"login", "nameCheck", "insertUser"}
              => phase[c] = "authenticating"
         /\ Head(script[c]).do \notin {"login", "nameCheck", "insertUser", "toClient"}
              => LoggedIn(c) /\ me[c] \in UserId
         /\ LoggedIn(c) => AwaitAt(phase[c]) = LoopAwait
<1>1. Head(script[c]) \in AwaitAt(phase[c])
  BY TailTypes DEF TypeInv, ScriptsFit
<1>2. phase[c] \in Phase
  BY DEF TypeInv, TypeOK, ConnOK
<1>3. LoggedIn(c) => AwaitAt(phase[c]) = LoopAwait
  BY DEF AwaitAt, LoggedIn
<1>4. Head(script[c]).do \in {"login", "nameCheck", "insertUser"}
        => phase[c] = "authenticating"
  BY <1>1, <1>2, AwaitKinds DEF AwaitAt, Phase
<1>5. Head(script[c]).do \notin {"login", "nameCheck", "insertUser", "toClient"} => LoggedIn(c)
  BY <1>1, <1>2, AwaitKinds DEF AwaitAt, Phase, LoggedIn
<1> QED  BY <1>1, <1>3, <1>4, <1>5, AwaitKinds DEF TypeInv, UsersKnown

-----------------------------------------------------------------------------
(* What the queries return.                                                *)

LEMMA TableQueries ==
  ASSUME TypeInv
  PROVE  /\ RegisteredUsers \subseteq UserId
         /\ \A n, p : Authenticated(n, p) \subseteq UserId
         /\ \A u : GroupsOf(u) \subseteq GroupId
         /\ \A g : MembersOf(g) \subseteq UserId
BY DEF TypeInv, TypeOK, DbOK, RegisteredUsers, Authenticated, GroupsOf, MembersOf, UserRow

LEMMA SurjectionFinite ==
  ASSUME NEW D, NEW R, NEW f \in Surjection(D, R), IsFiniteSet(D)
  PROVE  IsFiniteSet(R)
BY FS_Surjection

\* The join of a finite table is finite, so its rows can be put in order.
LEMMA JoinFinite ==
  ASSUME TypeInv
  PROVE  IsFiniteSet(LeftJoin)
<1> DEFINE D == messages \X (UserId \cup {NoUser})
           J == [d \in D |-> [row |-> d[1], member |-> d[2]]]
           R == {J[d] : d \in D}
<1>1. IsFiniteSet(D)
  <2>1. IsFiniteSet(UserId \cup {NoUser})
    BY IdAssumption, FS_AddElement
  <2> QED  BY <2>1, FS_Product DEF TypeInv
<1>2. J \in Surjection(D, R)
  BY DEF Surjection
<1>3. IsFiniteSet(R)
  <2> HIDE DEF D, J, R
  <2> QED  BY <1>1, <1>2, SurjectionFinite
<1>4. LeftJoin \subseteq R
  <2> SUFFICES ASSUME NEW row \in messages, NEW j \in [row : {row}, member : JoinedMembers(row)]
               PROVE  j \in R
    BY DEF LeftJoin
  <2>1. <<row, j.member>> \in D
    BY DEF JoinedMembers
  <2>2. j = J[<<row, j.member>>]
    BY <2>1
  <2> QED  BY <2>1, <2>2
<1> QED  BY <1>3, <1>4, FS_Subset

\* A row turns back into a chat message.
LEMMA RowTypes ==
  ASSUME TypeInv, NEW row \in messages
  PROVE  RowMessage(row) \in ChatMessage
<1>1. row \in MessageRow /\ Addressed(row)
  BY DEF TypeInv, TypeOK, DbOK, RowsAddressed
<1>2. RowTarget(row) \in Target
  BY <1>1, NullAssumption, TargetTypes DEF MessageRow, Addressed, RowTarget
<1> QED  BY <1>1, <1>2, MessageTypes DEF MessageRow, RowMessage

LEMMA BatchTypes ==
  ASSUME TypeInv, NEW u, NEW since, NEW b \in HistoryBatches(u, since)
  PROVE  b \in Seq(ChatMessage)
<1> DEFINE rows == HistoryRows(u, since)
<1>1. rows \subseteq LeftJoin
  BY DEF HistoryRows
<1>2. IsFiniteSet(rows)
  BY <1>1, JoinFinite, FS_Subset
<1>3. PICK s \in SetToSeqs(rows) : b = [i \in DOMAIN s |-> RowMessage(s[i].row)]
  BY DEF HistoryBatches, Ordered
<1>4. s \in Seq(LeftJoin)
  BY <1>1, <1>2, SeqsOfSet, SeqSubset
<1>5. \A j \in LeftJoin : j.row \in messages
  BY DEF LeftJoin
<1>6. \A i \in DOMAIN s : RowMessage(s[i].row) \in ChatMessage
  BY <1>4, <1>5, RowTypes
<1> QED  BY <1>3, <1>4, <1>6

-----------------------------------------------------------------------------
(* What an actor does to its own state.                                    *)

\* A query whose result only decides what the actor awaits next.
LEMMA QueryTypes ==
  ASSUME TypeInv, NEW c \in Conn, script[c] # <<>>,
         NEW steps \in Seq(AwaitAt(phase[c])), Continue(c, steps), OnlyScript,
         DbOK', UNCHANGED <<messages, clock, crashes>>
  PROVE  TypeInv'
<1>1. script' \in [Conn -> Seq(Await)] /\ ScriptsFit'
  BY ScriptContinues DEF OnlyScript
<1>2. RouterOK' /\ ChanOK'
  BY DEF TypeInv, TypeOK, RouterOK, ChanOK, OnlyScript, routerVars, chanVars
<1>3. ConnOK' /\ UsersKnown'
  BY <1>1 DEF TypeInv, TypeOK, ConnOK, UsersKnown, LoggedIn, OnlyScript
<1>4. RowsAddressed'
  BY DEF TypeInv, RowsAddressed, OnlyScript, routerVars
<1> QED  BY <1>1, <1>2, <1>3, <1>4 DEF TypeInv, TypeOK

\* A failed login is answered; a successful one fixes the user.
LEMMA VerdictTypes ==
  ASSUME TypeInv, NEW c \in Conn, DbOK', UNCHANGED <<messages, clock, crashes>>,
         \/ \E e \in ServerError : Reject(c, e)
         \/ \E u \in UserId : Welcome(c, u)
  PROVE  TypeInv'
<1>1. CASE \E e \in ServerError : Reject(c, e)
  <2>1. PICK e \in ServerError : Reject(c, e)
    BY <1>1
  <2>2. <<ToClient(Error(e))>> \in Seq(AwaitAt("rejecting"))
    BY MessageTypes, AwaitTypes DEF AwaitAt
  <2>3. phase' \in [Conn -> Phase] /\ script' \in [Conn -> Seq(Await)] /\ ScriptsFit'
    BY <2>1, <2>2, ScriptSet DEF Reject, Phase
  <2>4. RouterOK' /\ ChanOK' /\ RowsAddressed'
    BY <2>1 DEF Reject, TypeInv, TypeOK, RouterOK, ChanOK, RowsAddressed, routerVars, chanVars
  <2>5. ConnOK' /\ UsersKnown'
    BY <2>1, <2>3 DEF Reject, TypeInv, TypeOK, ConnOK, UsersKnown, LoggedIn
  <2> QED  BY <2>3, <2>4, <2>5 DEF TypeInv, TypeOK
<1>2. CASE \E u \in UserId : Welcome(c, u)
  <2>1. PICK u \in UserId : Welcome(c, u)
    BY <1>2
  <2>2. <<Query("fetchGroups")>> \in Seq(AwaitAt("greeting"))
    BY AwaitTypes DEF AwaitAt
  <2>3. phase' \in [Conn -> Phase] /\ script' \in [Conn -> Seq(Await)] /\ ScriptsFit'
    BY <2>1, <2>2, ScriptSet DEF Welcome, Phase
  <2>4. RouterOK' /\ ChanOK' /\ RowsAddressed'
    BY <2>1 DEF Welcome, TypeInv, TypeOK, RouterOK, ChanOK, RowsAddressed, routerVars, chanVars
  <2>5. ConnOK' /\ UsersKnown'
    BY <2>1, <2>3 DEF Welcome, TypeInv, TypeOK, ConnOK, UsersKnown, LoggedIn
  <2> QED  BY <2>3, <2>4, <2>5 DEF TypeInv, TypeOK
<1> QED  BY <1>1, <1>2

\* An actor that returns leaves an empty script and an empty channel.
LEMMA ReturnTypes ==
  ASSUME TypeInv, NEW c \in Conn, Return(c), UNCHANGED me
  PROVE  /\ phase' \in [Conn -> Phase]
         /\ script' \in [Conn -> Seq(Await)]
         /\ ScriptsFit' /\ UsersKnown' /\ ChanOK'
<1>1. /\ phase' \in [Conn -> Phase]
      /\ script' \in [Conn -> Seq(Await)]
      /\ ScriptsFit'
  <2>1. <<>> \in Seq(AwaitAt("closed")) /\ "closed" \in Phase
    BY DEF Phase
  <2> QED  BY <2>1, ScriptSet DEF Return
<1>2. UsersKnown'
  BY DEF Return, TypeInv, TypeOK, ConnOK, UsersKnown, LoggedIn
<1>3. ChanOK'
  BY DEF Return, TypeInv, TypeOK, ChanOK
<1> QED  BY <1>1, <1>2, <1>3

\* An actor that leaves its loop still has to tell the router.
LEMMA BreakTypes ==
  ASSUME TypeInv, NEW c \in Conn, LoggedIn(c), Break(c), UNCHANGED me
  PROVE  /\ phase' \in [Conn -> Phase]
         /\ script' \in [Conn -> Seq(Await)]
         /\ ScriptsFit' /\ UsersKnown' /\ ChanOK'
<1>1. me[c] \in UserId
  BY DEF TypeInv, UsersKnown
<1>2. <<ToRouter(UserDisconnected(me[c]))>> \in Seq(AwaitAt("leaving"))
  BY <1>1, EventTypes, AwaitTypes DEF AwaitAt
<1>3. /\ phase' \in [Conn -> Phase]
      /\ script' \in [Conn -> Seq(Await)]
      /\ ScriptsFit'
  BY <1>2, ScriptSet DEF Break, Phase
<1>4. UsersKnown'
  BY <1>1 DEF Break, TypeInv, TypeOK, ConnOK, UsersKnown, LoggedIn
<1>5. ChanOK'
  BY DEF Break, TypeInv, TypeOK, ChanOK, chanVars
<1> QED  BY <1>3, <1>4, <1>5

-----------------------------------------------------------------------------
(* Before the loop.                                                        *)

LEMMA AccountTypes ==
  ASSUME TypeInv, NEW c \in Conn, UNCHANGED <<clock, crashes>>,
         LoginUser(c) \/ CheckName(c) \/ RegisterUser(c)
  PROVE  TypeInv'
<1> USE DEF Awaiting
<1> DEFINE q == Head(script[c])
<1>1. DbOK /\ {"InvalidCredentials", "UsernameTaken"} \subseteq ServerError
  BY DEF TypeInv, TypeOK, ServerError
<1>2. CASE LoginUser(c)
  <2>1. UNCHANGED dbVars
    BY <1>2 DEF LoginUser, Reject
  <2>2. DbOK' /\ UNCHANGED messages
    BY <1>1, <2>1 DEF DbOK, dbVars
  <2>3. Authenticated(q.name, q.password) \subseteq UserId
    BY TableQueries
  <2> QED  BY <1>1, <1>2, <2>2, <2>3, VerdictTypes DEF LoginUser
<1>3. CASE CheckName(c)
  <2>1. UNCHANGED dbVars
    BY <1>3 DEF CheckName, Reject
  <2>2. DbOK' /\ UNCHANGED messages
    BY <1>1, <2>1 DEF DbOK, dbVars
  <2>3. CASE Reject(c, "UsernameTaken")
    BY <1>1, <2>2, <2>3, VerdictTypes
  <2>4. CASE /\ Continue(c, <<QueryAccount("insertUser", q.name, q.password)>>)
             /\ OnlyScript
    <3>1. q \in Await /\ q.do = "nameCheck" /\ phase[c] = "authenticating"
      BY <1>3, WhoAwaits DEF CheckName
    <3>2. <<QueryAccount("insertUser", q.name, q.password)>> \in Seq(AwaitAt(phase[c]))
      BY <3>1, AwaitFields, AwaitTypes DEF AwaitAt
    <3>3. script[c] # <<>>
      BY <1>3 DEF CheckName
    <3> QED  BY <2>2, <2>4, <3>2, <3>3, QueryTypes
  <2> QED  BY <1>3, <2>3, <2>4 DEF CheckName
<1>4. CASE RegisterUser(c)
  <2>1. q \in Await /\ q.do = "insertUser"
    BY <1>4, WhoAwaits DEF RegisterUser
  <2>2. q.name \in Name /\ q.password \in Password
    BY <2>1, AwaitFields
  <2>3. CASE \E u \in UserId \ RegisteredUsers : InsertUser(u, q.name, q.password) /\ Welcome(c, u)
    <3>1. PICK u \in UserId : InsertUser(u, q.name, q.password) /\ Welcome(c, u)
      BY <2>3
    <3>2. DbOK' /\ UNCHANGED messages
      BY <1>1, <2>2, <3>1 DEF InsertUser, DbOK, UserRow
    <3> QED  BY <3>1, <3>2, VerdictTypes
  <2>4. CASE Reject(c, "UsernameTaken")
    <3>1. DbOK' /\ UNCHANGED messages
      BY <1>1, <2>4 DEF DbOK, dbVars, Reject
    <3> QED  BY <1>1, <2>4, <3>1, VerdictTypes
  <2> QED  BY <1>4, <2>3, <2>4 DEF RegisterUser
<1> QED  BY <1>2, <1>3, <1>4

LEMMA GreetingTypes ==
  ASSUME TypeInv, NEW c \in Conn, UNCHANGED <<clock, crashes>>,
         FetchGroups(c) \/ FetchUsers(c)
  PROVE  TypeInv'
<1>1. /\ script[c] # <<>>
      /\ LoggedIn(c) /\ me[c] \in UserId
      /\ AwaitAt(phase[c]) = LoopAwait
  BY WhoAwaits DEF FetchGroups, FetchUsers, Awaiting
<1>2. DbOK' /\ UNCHANGED messages
  BY DEF FetchGroups, FetchUsers, TypeInv, TypeOK, DbOK, dbVars
<1>3. CASE FetchGroups(c)
  <2>1. PICK gs \in SUBSET GroupId : Continue(c, Greeting(me[c], gs, c))
    BY <1>3, TableQueries DEF FetchGroups
  <2>2. Greeting(me[c], gs, c) \in Seq(LoopAwait)
    BY <1>1, EventTypes, MessageTypes, AwaitTypes DEF Greeting
  <2>3. script' \in [Conn -> Seq(Await)] /\ ScriptsFit'
    BY <1>1, <1>3, <2>1, <2>2, ScriptContinues DEF FetchGroups
  <2>4. RouterOK' /\ ChanOK' /\ RowsAddressed'
    BY <1>2, <1>3 DEF FetchGroups, TypeInv, TypeOK, RouterOK, ChanOK, RowsAddressed, routerVars
  <2>5. ConnOK' /\ UsersKnown'
    BY <1>3, <2>3 DEF FetchGroups, TypeInv, TypeOK, ConnOK, UsersKnown, LoggedIn
  <2> QED  BY <1>2, <2>3, <2>4, <2>5 DEF TypeInv, TypeOK
<1>4. CASE FetchUsers(c)
  <2>1. PICK us \in SUBSET UserId : Continue(c, <<ToClient(UsersList(us))>>)
    BY <1>4, TableQueries DEF FetchUsers
  <2>2. <<ToClient(UsersList(us))>> \in Seq(AwaitAt(phase[c]))
    BY <1>1, MessageTypes, AwaitTypes
  <2> QED  BY <1>1, <1>2, <1>4, <2>1, <2>2, QueryTypes DEF FetchUsers
<1> QED  BY <1>3, <1>4

-----------------------------------------------------------------------------
(* The await primitives and the loop.                                      *)

LEMMA PostToRouterTypes ==
  ASSUME TypeInv, NEW c \in Conn, UNCHANGED <<clock, crashes>>, PostToRouter(c)
  PROVE  TypeInv'
<1>1. script[c] # <<>> /\ Head(script[c]).event \in RouterEvent
  BY WhoAwaits, AwaitFields DEF PostToRouter, Awaiting
<1>2. rxq' \in Seq(RouterEvent)
  BY <1>1, AppendTypes DEF PostToRouter, TypeInv, TypeOK, RouterOK
<1>3. RouterOK' /\ DbOK' /\ RowsAddressed' /\ UNCHANGED messages
  BY <1>2 DEF PostToRouter, TypeInv, TypeOK, RouterOK, DbOK, RowsAddressed, dbVars
<1>4. /\ phase' \in [Conn -> Phase]
      /\ script' \in [Conn -> Seq(Await)]
      /\ ScriptsFit' /\ UsersKnown' /\ ChanOK'
  <2>1. CASE Return(c)
    BY <2>1, ReturnTypes DEF PostToRouter
  <2>2. CASE Continue(c, <<>>) /\ UNCHANGED <<phase, chanVars>>
    <3>1. <<>> \in Seq(AwaitAt(phase[c]))
      OBVIOUS
    <3>2. script' \in [Conn -> Seq(Await)] /\ ScriptsFit'
      BY <1>1, <2>2, <3>1, ScriptContinues
    <3> QED  BY <2>2, <3>2 DEF PostToRouter, TypeInv, TypeOK, ConnOK, ChanOK, UsersKnown,
                               LoggedIn, chanVars
  <2> QED  BY <2>1, <2>2 DEF PostToRouter
<1>5. ConnOK'
  BY <1>4 DEF PostToRouter, TypeInv, TypeOK, ConnOK
<1> QED  BY <1>3, <1>4, <1>5 DEF TypeInv, TypeOK

LEMMA PostToSelfTypes ==
  ASSUME TypeInv, NEW c \in Conn, UNCHANGED <<clock, crashes>>, PostToSelf(c)
  PROVE  TypeInv'
<1>1. script[c] # <<>> /\ Head(script[c]).msg \in ServerMessage
  BY WhoAwaits, AwaitFields DEF PostToSelf, Awaiting
<1>2. ChanOK'
  BY <1>1, AppendTypes DEF PostToSelf, TypeInv, TypeOK, ChanOK
<1>3. <<>> \in Seq(AwaitAt(phase[c]))
  OBVIOUS
<1>4. script' \in [Conn -> Seq(Await)] /\ ScriptsFit'
  BY <1>1, <1>3, ScriptContinues DEF PostToSelf
<1>5. RouterOK' /\ DbOK' /\ RowsAddressed' /\ UNCHANGED messages
  BY DEF PostToSelf, TypeInv, TypeOK, RouterOK, DbOK, RowsAddressed, dbVars, routerVars
<1>6. ConnOK' /\ UsersKnown'
  BY <1>4 DEF PostToSelf, TypeInv, TypeOK, ConnOK, UsersKnown, LoggedIn
<1> QED  BY <1>2, <1>4, <1>5, <1>6 DEF TypeInv, TypeOK

\* The phase moves on to the loop only with the last await of the greeting.
LEMMA WriteToClientTypes ==
  ASSUME TypeInv, NEW c \in Conn, UNCHANGED <<clock, crashes>>, WriteToClient(c)
  PROVE  TypeInv'
<1>1. script[c] # <<>> /\ Head(script[c]).msg \in ServerMessage
  BY WhoAwaits, AwaitFields DEF WriteToClient, Awaiting
<1>2. wire' \in [Conn -> Seq(ServerMessage)]
  BY <1>1, AppendTypes DEF WriteToClient, TypeInv, TypeOK, ConnOK
<1>3. RouterOK' /\ DbOK' /\ RowsAddressed' /\ UNCHANGED messages
  BY DEF WriteToClient, TypeInv, TypeOK, RouterOK, DbOK, RowsAddressed, dbVars, routerVars
<1>4. /\ phase' \in [Conn -> Phase]
      /\ script' \in [Conn -> Seq(Await)]
      /\ ScriptsFit' /\ UsersKnown' /\ ChanOK'
  <2>1. CASE phase[c] = "rejecting"
    <3>1. Return(c) /\ UNCHANGED me
      BY <2>1 DEF WriteToClient
    <3> QED  BY <3>1, ReturnTypes
  <2>2. CASE phase[c] = "greeting" /\ Tail(script[c]) = <<>>
    <3>1. phase' = [phase EXCEPT ![c] = "serving"] /\ Continue(c, <<>>) /\ UNCHANGED <<me, chanVars>>
      BY <2>2 DEF WriteToClient
    <3>2. script' = [script EXCEPT ![c] = <<>>]
      <4>1. <<>> \o Tail(script[c]) = <<>>
        <5>1. <<>> \o <<>> = <<>>
          OBVIOUS
        <5> QED  BY <2>2, <5>1
      <4> QED  BY <3>1, <4>1 DEF Continue, TypeInv, TypeOK, ConnOK
    <3>3. <<>> \in Seq(AwaitAt("serving")) /\ "serving" \in Phase
      BY DEF Phase
    <3>4. phase' \in [Conn -> Phase] /\ script' \in [Conn -> Seq(Await)] /\ ScriptsFit'
      BY <3>1, <3>2, <3>3, ScriptSet
    <3> QED  BY <2>2, <3>1, <3>4 DEF TypeInv, TypeOK, ConnOK, ChanOK, UsersKnown, LoggedIn, chanVars
  <2>3. CASE phase[c] # "rejecting" /\ ~(phase[c] = "greeting" /\ Tail(script[c]) = <<>>)
    <3>1. Continue(c, <<>>) /\ UNCHANGED <<phase, me, chanVars>>
      BY <2>3 DEF WriteToClient
    <3>2. <<>> \in Seq(AwaitAt(phase[c]))
      OBVIOUS
    <3>3. script' \in [Conn -> Seq(Await)] /\ ScriptsFit'
      BY <1>1, <3>1, <3>2, ScriptContinues
    <3> QED  BY <3>1, <3>3 DEF TypeInv, TypeOK, ConnOK, ChanOK, UsersKnown, LoggedIn, chanVars
  <2> QED  BY <2>1, <2>2, <2>3
<1>5. ConnOK'
  BY <1>2, <1>4 DEF WriteToClient, TypeInv, TypeOK, ConnOK
<1> QED  BY <1>3, <1>4, <1>5 DEF TypeInv, TypeOK

LEMMA ReceiveRoutedTypes ==
  ASSUME TypeInv, NEW c \in Conn, UNCHANGED <<clock, crashes>>, ReceiveRouted(c)
  PROVE  TypeInv'
<1>1. Head(chan[c]) \in ServerMessage /\ Tail(chan[c]) \in Seq(ServerMessage)
  BY TailTypes DEF ReceiveRouted, TypeInv, TypeOK, ChanOK
<1>2. <<ToClient(Head(chan[c]))>> \in Seq(AwaitAt("serving"))
  BY <1>1, AwaitTypes DEF AwaitAt
<1>3. phase[c] = "serving" /\ phase' = [phase EXCEPT ![c] = "serving"]
  BY DEF ReceiveRouted, Idle, TypeInv, TypeOK, ConnOK
<1>4. script' \in [Conn -> Seq(Await)] /\ ScriptsFit'
  BY <1>2, <1>3, ScriptSet DEF ReceiveRouted, Phase
<1>5. RouterOK' /\ DbOK' /\ ChanOK' /\ RowsAddressed' /\ UNCHANGED messages
  BY <1>1 DEF ReceiveRouted, TypeInv, TypeOK, RouterOK, ChanOK, DbOK, RowsAddressed, dbVars, routerVars
<1>6. ConnOK' /\ UsersKnown'
  BY <1>4 DEF ReceiveRouted, TypeInv, TypeOK, ConnOK, UsersKnown, LoggedIn
<1> QED  BY <1>4, <1>5, <1>6 DEF TypeInv, TypeOK

-----------------------------------------------------------------------------
(* The queries of the loop.                                                *)

LEMMA InviteTypes ==
  ASSUME TypeInv, NEW c \in Conn, UNCHANGED <<clock, crashes>>,
         Invite(c) \/ AlertInvited(c)
  PROVE  TypeInv'
<1> DEFINE q == Head(script[c])
<1>1. /\ script[c] # <<>> /\ q \in Await
      /\ q.do \in {"insertMember", "groupName"}
      /\ me[c] \in UserId
      /\ AwaitAt(phase[c]) = LoopAwait
  BY WhoAwaits DEF Invite, AlertInvited, Awaiting
<1>2. q.group \in GroupId /\ q.user \in UserId
  BY <1>1, AwaitFields
<1>3. <<>> \in Seq(LoopAwait)
  OBVIOUS
<1>4. CASE Invite(c)
  <2>1. JoinedSteps(q.group, q.user) \in Seq(LoopAwait)
    BY <1>2, EventTypes, AwaitTypes DEF JoinedSteps
  <2>2. PICK steps \in Seq(LoopAwait) : Continue(c, steps)
    BY <1>3, <1>4, <2>1 DEF Invite
  <2>3. DbOK' /\ UNCHANGED messages
    BY <1>2, <1>4 DEF Invite, InsertMember, TypeInv, TypeOK, DbOK, dbVars
  <2> QED  BY <1>1, <1>4, <2>2, <2>3, QueryTypes DEF Invite
<1>5. CASE AlertInvited(c)
  <2>1. <<ToRouter(RouteMessage(me[c], UserTarget(q.user), AddedToGroup(q.group)))>>
          \in Seq(LoopAwait)
    BY <1>1, <1>2, TargetTypes, MessageTypes, EventTypes, AwaitTypes
  <2>2. PICK steps \in Seq(LoopAwait) : Continue(c, steps)
    BY <1>3, <1>5, <2>1 DEF AlertInvited
  <2>3. DbOK' /\ UNCHANGED messages
    BY <1>5 DEF AlertInvited, TypeInv, TypeOK, DbOK, dbVars
  <2> QED  BY <1>1, <1>5, <2>2, <2>3, QueryTypes DEF AlertInvited
<1> QED  BY <1>4, <1>5

LEMMA CreateTypes ==
  ASSUME TypeInv, NEW c \in Conn, UNCHANGED <<clock, crashes>>,
         NewGroup(c) \/ AddCreator(c)
  PROVE  TypeInv'
<1>1. /\ script[c] # <<>> /\ Head(script[c]) \in Await
      /\ me[c] \in UserId
      /\ AwaitAt(phase[c]) = LoopAwait
  BY WhoAwaits DEF NewGroup, AddCreator, Awaiting
<1>2. <<>> \in Seq(LoopAwait)
  OBVIOUS
<1>3. CASE NewGroup(c)
  <2>1. \A g \in GroupId : <<QueryGroup("insertCreator", g)>> \in Seq(LoopAwait)
    BY AwaitTypes
  <2>2. PICK steps \in Seq(LoopAwait) : Continue(c, steps)
    BY <1>2, <1>3, <2>1 DEF NewGroup
  <2>3. DbOK' /\ UNCHANGED messages
    BY <1>3 DEF NewGroup, InsertGroup, TypeInv, TypeOK, DbOK, dbVars
  <2> QED  BY <1>1, <1>3, <2>2, <2>3, QueryTypes DEF NewGroup
<1>4. CASE AddCreator(c)
  <2>1. Head(script[c]).group \in GroupId
    BY <1>1, <1>4, AwaitFields DEF AddCreator, Awaiting
  <2>2. CreatedSteps(me[c], Head(script[c]).group) \in Seq(LoopAwait)
    BY <1>1, <2>1, EventTypes, MessageTypes, AwaitTypes DEF CreatedSteps
  <2>3. DbOK' /\ UNCHANGED messages
    BY <1>1, <1>4, <2>1 DEF AddCreator, InsertMember, TypeInv, TypeOK, DbOK, dbVars
  <2> QED  BY <1>1, <1>4, <2>2, <2>3, QueryTypes DEF AddCreator
<1> QED  BY <1>3, <1>4

LEMMA FetchTypes ==
  ASSUME TypeInv, NEW c \in Conn, UNCHANGED <<clock, crashes>>,
         FetchMembers(c) \/ FetchInfo(c) \/ SyncMessages(c)
  PROVE  TypeInv'
<1> DEFINE q == Head(script[c])
<1>1. /\ script[c] # <<>> /\ q \in Await
      /\ AwaitAt(phase[c]) = LoopAwait
  BY WhoAwaits DEF FetchMembers, FetchInfo, SyncMessages, Awaiting
<1>2. <<>> \in Seq(LoopAwait)
  OBVIOUS
<1>3. OnlyScript /\ UNCHANGED dbVars
  BY DEF FetchMembers, FetchInfo, SyncMessages
<1>4. DbOK' /\ UNCHANGED messages
  BY <1>3 DEF TypeInv, TypeOK, DbOK, dbVars
<1>5. \E steps \in Seq(LoopAwait) : Continue(c, steps)
  <2>1. CASE FetchMembers(c)
    <3>1. q.group \in GroupId
      BY <1>1, <2>1, AwaitFields DEF FetchMembers, Awaiting
    <3>2. <<ToSelf(GroupMembersList(q.group, MembersOf(q.group)))>> \in Seq(LoopAwait)
      BY <3>1, TableQueries, MessageTypes, AwaitTypes
    <3> QED  BY <1>2, <2>1, <3>2 DEF FetchMembers
  <2>2. CASE FetchInfo(c)
    <3>1. q.group \in GroupId
      BY <1>1, <2>2, AwaitFields DEF FetchInfo, Awaiting
    <3>2. /\ <<ToSelf(GroupInfo(q.group))>> \in Seq(LoopAwait)
          /\ <<ToSelf(Error("GroupNotFound"))>> \in Seq(LoopAwait)
          /\ <<ToSelf(Error("InternalError"))>> \in Seq(LoopAwait)
      BY <3>1, MessageTypes, AwaitTypes DEF ServerError
    <3> QED  BY <2>2, <3>2 DEF FetchInfo
  <2>3. CASE SyncMessages(c)
    <3>1. \A b \in HistoryBatches(me[c], q.since) : <<ToSelf(SyncBatch(b))>> \in Seq(LoopAwait)
      BY BatchTypes, MessageTypes, AwaitTypes
    <3> QED  BY <1>2, <2>3, <3>1 DEF SyncMessages
  <2> QED  BY <2>1, <2>2, <2>3
<1> QED  BY <1>1, <1>3, <1>4, <1>5, QueryTypes

\* Every await of an actor keeps every type.
LEMMA ActorTypes ==
  ASSUME TypeInv, NEW c \in Conn, Actor(c)
  PROVE  TypeInv'
BY AccountTypes, GreetingTypes, PostToRouterTypes, PostToSelfTypes, WriteToClientTypes,
   ReceiveRoutedTypes, InviteTypes, CreateTypes, FetchTypes DEF Actor, ConnStep

-----------------------------------------------------------------------------
(* The router, the save tasks and the environment.                         *)

LEMMA OnlineTypes ==
  ASSUME TypeInv, NEW S \in SUBSET Online, NEW order \in SetToSeqs(S),
         NEW m \in ServerMessage
  PROVE  /\ order \in Seq(UserId)
         /\ SendAll(order, m) \in Seq(Delivery)
<1>1. S \subseteq UserId /\ IsFiniteSet(S)
  BY IdAssumption, FS_Subset DEF Online
<1>2. order \in Seq(S) /\ order \in Seq(UserId)
  BY <1>1, SeqsOfSet, SeqSubset
<1>3. \A u \in S : sessions[u] \in Conn
  BY DEF Online, TypeInv, TypeOK, RouterOK
<1>4. \A i \in DOMAIN order : To(sessions[order[i]], m) \in Delivery
  BY <1>2, <1>3 DEF To, Delivery
<1>5. SendAll(order, m) \in Seq(Delivery)
  BY <1>2, <1>4 DEF SendAll
<1> QED  BY <1>2, <1>5

\* The presence of everybody else, for the channel of c.
LEMMA RosterTypes ==
  ASSUME NEW c \in Conn, NEW order \in Seq(UserId)
  PROVE  [i \in DOMAIN order |-> To(c, Presence(order[i], TRUE))] \in Seq(Delivery)
<1>1. \A u \in UserId : Presence(u, TRUE) \in ServerMessage
  BY MessageTypes
<1>2. \A u \in UserId : To(c, Presence(u, TRUE)) \in Delivery
  BY <1>1 DEF To, Delivery
<1> DEFINE f == [i \in DOMAIN order |-> To(c, Presence(order[i], TRUE))]
<1>3. PICK n \in Nat : DOMAIN order = 1 .. n
  OBVIOUS
<1>4. ASSUME NEW i \in 1 .. n
      PROVE  f[i] \in Delivery
  <2>1. order[i] \in UserId
    BY <1>3
  <2> QED  BY <1>2, <1>3, <2>1
<1>5. f = [i \in 1 .. n |-> f[i]]
  BY <1>3
<1> HIDE DEF f
<1>6. f \in Seq(Delivery)
  BY <1>4, <1>5
<1> QED  BY <1>6 DEF f

LEMMA SendToTypes ==
  ASSUME TypeInv, NEW u, NEW m \in ServerMessage
  PROVE  SendTo(u, m) \in Seq(Delivery)
<1>1. CASE u \in Online
  <2>1. sessions[u] \in Conn
    BY <1>1 DEF Online, TypeInv, TypeOK, RouterOK
  <2>2. To(sessions[u], m) \in Delivery
    BY <2>1 DEF To, Delivery
  <2> QED  BY <1>1, <2>2 DEF SendTo
<1>2. CASE u \notin Online
  BY <1>2 DEF SendTo
<1> QED  BY <1>1, <1>2

LEMMA FanoutTypes ==
  ASSUME TypeInv, NEW from, NEW t \in Target, NEW m \in ServerMessage,
         NEW f \in Fanouts(from, t, m)
  PROVE  f \in Seq(Delivery)
<1>1. CASE t.kind = "user"
  <2>1. f = PrivateSends(from, t.user, m)
    BY <1>1 DEF Fanouts
  <2>2. SendTo(t.user, m) \in Seq(Delivery) /\ SendTo(from, m) \in Seq(Delivery)
    BY SendToTypes
  <2> QED  BY <2>1, <2>2, ConcatTypes DEF PrivateSends
<1>2. CASE t.kind = "broadcast"
  BY <1>2, OnlineTypes DEF Fanouts
<1>3. CASE t.kind = "group"
  <2>1. Subscribers(t.group) \in SUBSET Online
    BY DEF Subscribers
  <2> QED  BY <1>3, <2>1, OnlineTypes DEF Fanouts
<1> QED  BY <1>1, <1>2, <1>3 DEF Target, UserTarget, GroupTarget, Broadcast

\* A chat message is saved with one of its address columns filled.
LEMMA SaveTaskTypes ==
  ASSUME NEW from \in UserId, NEW t \in Target, NEW m \in ServerMessage,
         NEW row \in SaveTask(from, t, m)
  PROVE  row \in MessageRow /\ Addressed(row)
<1>1. m \in ChatMessage /\ row = SavedRow(from, t, m)
  BY ChatMessages DEF SaveTask
<1>2. m.body \in Body /\ m.at \in Timestamp
  BY <1>1 DEF ChatMessage
<1>3. CASE t.kind = "user"
  BY <1>1, <1>2, <1>3 DEF SavedRow, MessageRow, Addressed, Target, UserTarget, GroupTarget, Broadcast
<1>4. CASE t.kind = "group"
  BY <1>1, <1>2, <1>4 DEF SavedRow, MessageRow, Addressed, Target, UserTarget, GroupTarget, Broadcast
<1>5. CASE t.kind = "broadcast"
  BY <1>1, <1>2, <1>5 DEF SavedRow, MessageRow, Addressed, Target, UserTarget, GroupTarget, Broadcast
<1> QED  BY <1>3, <1>4, <1>5 DEF Target, UserTarget, GroupTarget, Broadcast

LEMMA RouterTypes ==
  ASSUME TypeInv, RouterTask
  PROVE  TypeInv'
<1> DEFINE e == Head(rxq)
<1>1. ASSUME rxq # <<>>
      PROVE  e \in RouterEvent /\ Tail(rxq) \in Seq(RouterEvent)
  BY <1>1, TailTypes DEF TypeInv, TypeOK, RouterOK
<1>2. DbOK' /\ IsFiniteSet(messages)' /\ ConnOK' /\ ScriptsFit' /\ UsersKnown'
      /\ (clock \in Timestamp)' /\ (crashes \in 0 .. MaxCrashes)' /\ UNCHANGED messages
  <2>1. UNCHANGED <<dbVars, connVars, clock, crashes>>
    BY DEF RouterTask, RouterStep, OnUserConnected, OnUserDisconnected, OnUserJoinedGroup,
           OnRouteMessage, Deliver
  <2> QED  BY <2>1 DEF TypeInv, TypeOK, DbOK, ConnOK, ScriptsFit, UsersKnown, LoggedIn,
                       dbVars, connVars
<1>3. RouterOK' /\ ChanOK' /\ RowsAddressed'
  <2>1. CASE OnUserConnected
    <3>1. e \in RouterEvent /\ e.type = "UserConnected" /\ rxq' \in Seq(RouterEvent)
      BY <1>1, <2>1 DEF OnUserConnected, Take
    <3>2. e.user \in UserId /\ e.sender \in Conn /\ e.groups \subseteq GroupId
      BY <3>1 DEF RouterEvent
    <3>3. sessions' \in [UserId -> Conn \cup {NoConn}] /\ subs' \in [GroupId -> SUBSET UserId]
      BY <2>1, <3>2 DEF OnUserConnected, Subscribe, TypeInv, TypeOK, RouterOK
    <3>4. PICK order \in SetToSeqs(Online \ {e.user}) :
            fanout' = OnlineNews(e.user, e.sender, order)
      BY <2>1 DEF OnUserConnected
    <3>5. Presence(e.user, TRUE) \in ServerMessage
      BY <3>2, MessageTypes
    <3>6. order \in Seq(UserId) /\ SendAll(order, Presence(e.user, TRUE)) \in Seq(Delivery)
      BY <3>5, OnlineTypes
    <3>7. [i \in DOMAIN order |-> To(e.sender, Presence(order[i], TRUE))] \in Seq(Delivery)
      BY <3>2, <3>6, RosterTypes
    <3>8. fanout' \in Seq(Delivery)
      BY <3>4, <3>6, <3>7, ConcatTypes DEF OnlineNews
    <3> QED  BY <1>2, <2>1, <3>1, <3>3, <3>8
             DEF OnUserConnected, TypeInv, TypeOK, RouterOK, ChanOK, RowsAddressed, chanVars
  <2>2. CASE OnUserDisconnected
    <3>1. e \in RouterEvent /\ e.type = "UserDisconnected" /\ rxq' \in Seq(RouterEvent)
      BY <1>1, <2>2 DEF OnUserDisconnected, Take
    <3>2. e.user \in UserId
      BY <3>1 DEF RouterEvent
    <3>3. sessions' \in [UserId -> Conn \cup {NoConn}]
      BY <2>2, <3>2 DEF OnUserDisconnected, TypeInv, TypeOK, RouterOK
    <3>4. PICK order \in SetToSeqs(Online \ {e.user}) : fanout' = OfflineNews(e.user, order)
      BY <2>2 DEF OnUserDisconnected
    <3>5. Presence(e.user, FALSE) \in ServerMessage
      BY <3>2, MessageTypes
    <3>6. fanout' \in Seq(Delivery)
      BY <3>4, <3>5, OnlineTypes DEF OfflineNews
    <3> QED  BY <1>2, <2>2, <3>1, <3>3, <3>6
             DEF OnUserDisconnected, TypeInv, TypeOK, RouterOK, ChanOK, RowsAddressed, chanVars
  <2>3. CASE OnUserJoinedGroup
    <3>1. e \in RouterEvent /\ e.type = "UserJoinedGroup" /\ rxq' \in Seq(RouterEvent)
      BY <1>1, <2>3 DEF OnUserJoinedGroup, Take
    <3>2. subs' \in [GroupId -> SUBSET UserId]
      BY <2>3, <3>1 DEF OnUserJoinedGroup, JoinSubscription, Subscribe, RouterEvent, TypeInv,
                        TypeOK, RouterOK
    <3> QED  BY <1>2, <2>3, <3>1, <3>2
             DEF OnUserJoinedGroup, TypeInv, TypeOK, RouterOK, ChanOK, RowsAddressed, chanVars
  <2>4. CASE OnRouteMessage
    <3>1. e \in RouterEvent /\ e.type = "RouteMessage" /\ rxq' \in Seq(RouterEvent)
      BY <1>1, <2>4 DEF OnRouteMessage, Take
    <3>2. e.from \in UserId /\ e.target \in Target /\ e.message \in ServerMessage
      BY <3>1 DEF RouterEvent
    <3>3. fanout' \in Seq(Delivery)
      BY <2>4, <3>2, FanoutTypes DEF OnRouteMessage
    <3>4. saves' \subseteq MessageRow /\ RowsAddressed'
      BY <1>2, <2>4, <3>2, SaveTaskTypes
         DEF OnRouteMessage, TypeInv, TypeOK, RouterOK, RowsAddressed
    <3> QED  BY <2>4, <3>1, <3>3, <3>4
             DEF OnRouteMessage, TypeInv, TypeOK, RouterOK, ChanOK, chanVars
  <2>5. CASE Deliver
    <3>1. Head(fanout) \in Delivery /\ fanout' \in Seq(Delivery)
      BY <2>5, TailTypes DEF Deliver, TypeInv, TypeOK, RouterOK
    <3>2. chan' \in [Conn -> Seq(ServerMessage)]
      <4>1. Head(fanout).to \in Conn /\ Head(fanout).msg \in ServerMessage
        BY <3>1 DEF Delivery
      <4>2. chan \in [Conn -> Seq(ServerMessage)]
        BY DEF TypeInv, TypeOK, ChanOK
      <4>3. Append(chan[Head(fanout).to], Head(fanout).msg) \in Seq(ServerMessage)
        BY <4>1, <4>2, AppendTypes
      <4> QED  BY <2>5, <4>1, <4>2, <4>3 DEF Deliver
    <3> QED  BY <1>2, <2>5, <3>1, <3>2
             DEF Deliver, TypeInv, TypeOK, RouterOK, ChanOK, RowsAddressed
  <2> QED  BY <2>1, <2>2, <2>3, <2>4, <2>5 DEF RouterTask, RouterStep
<1> QED  BY <1>2, <1>3 DEF TypeInv, TypeOK

LEMMA SaveTypes ==
  ASSUME TypeInv, SaveTasks
  PROVE  TypeInv'
<1>1. PICK row \in saves : SaveMessage(row) /\ UNCHANGED <<connVars, clock, crashes>>
  BY DEF SaveTasks
<1>2. row \in MessageRow /\ Addressed(row)
  BY DEF TypeInv, TypeOK, RouterOK, RowsAddressed
<1>3. messages' \in {messages, messages \cup {row}} /\ UNCHANGED <<users, groups, members>>
  BY <1>1 DEF SaveMessage, InsertMessage, dbVars
<1>4. IsFiniteSet(messages)'
  BY <1>3, FS_AddElement DEF TypeInv
<1>5. DbOK' /\ RowsAddressed'
  BY <1>1, <1>2, <1>3 DEF SaveMessage, TypeInv, TypeOK, DbOK, RowsAddressed
<1>6. RouterOK' /\ ChanOK' /\ ConnOK' /\ ScriptsFit' /\ UsersKnown'
  BY <1>1 DEF SaveMessage, TypeInv, TypeOK, RouterOK, ChanOK, ConnOK, ScriptsFit, UsersKnown,
              LoggedIn, connVars, chanVars
<1> QED  BY <1>1, <1>4, <1>5, <1>6 DEF TypeInv, TypeOK

\* What the handler of a frame awaits first.
LEMMA HandlerTypes ==
  ASSUME NEW u \in UserId, NEW m \in ClientMessage, clock \in Timestamp
  PROVE  Handler(u, m) \in Seq(LoopAwait)
<1>1. CASE m.type \in {"Login", "Register"}
  BY <1>1, MessageTypes, AwaitTypes DEF Handler, ServerError
<1>2. CASE m.type = "SendMessage"
  <2>1. m.target \in Target /\ m.body \in Body
    BY <1>2 DEF ClientMessage, AuthMessage, CreateGroup
  <2>2. Outgoing(u, m) \in ServerMessage
    BY <2>1, MessageTypes DEF Outgoing
  <2>3. SendSteps(u, m) \in Seq(LoopAwait)
    BY <2>1, <2>2, EventTypes, AwaitTypes DEF SendSteps
  <2> QED  BY <1>2, <2>3 DEF Handler
<1>3. CASE m.type = "Sync"
  BY <1>3, AwaitTypes DEF Handler, ClientMessage, AuthMessage, CreateGroup
<1>4. CASE m.type = "InviteToGroup"
  BY <1>4, AwaitTypes DEF Handler, ClientMessage, AuthMessage, CreateGroup
<1>5. CASE m.type = "CreateGroup"
  BY <1>5, AwaitTypes DEF Handler
<1>6. CASE m.type \in {"FetchGroupMembers", "FetchGroupInfo"}
  <2>1. m.group \in GroupId
    BY <1>6 DEF ClientMessage, AuthMessage, CreateGroup
  <2>2. /\ <<QueryGroup("fetchMembers", m.group)>> \in Seq(LoopAwait)
        /\ <<QueryGroup("groupInfo", m.group)>> \in Seq(LoopAwait)
    BY <2>1, AwaitTypes
  <2> QED  BY <1>6, <2>2 DEF Handler
<1> QED  BY <1>1, <1>2, <1>3, <1>4, <1>5, <1>6 DEF ClientMessage, AuthMessage, CreateGroup

\* A frame read is recorded, and its handler is all the actor has to await.
LEMMA FrameTypes ==
  ASSUME TypeInv, NEW c \in Conn, UNCHANGED <<clock, crashes>>,
         Authenticate(c) \/ Request(c)
  PROVE  TypeInv'
<1>1. UNCHANGED <<me, wire, routerVars, chanVars, dbVars>>
  BY DEF Authenticate, FirstFrame, Request, HandleFrame
<1>2. RouterOK' /\ ChanOK' /\ DbOK' /\ RowsAddressed' /\ UNCHANGED messages
  BY <1>1 DEF TypeInv, TypeOK, RouterOK, ChanOK, DbOK, RowsAddressed, routerVars, chanVars, dbVars
<1>3. PICK m \in FirstFrames \cup Requests :
        (m \in FirstFrames /\ FirstFrame(c, m)) \/ (m \in Requests /\ HandleFrame(c, m))
  BY DEF Authenticate, Request
<1>4. m \in ClientMessage
  BY RequestAssumption
<1>5. heard' \in [Conn -> Seq(FirstFrames \cup Requests)]
  <2>1. heard' = [heard EXCEPT ![c] = Append(@, m)]
    BY <1>3 DEF FirstFrame, HandleFrame
  <2>2. heard \in [Conn -> Seq(FirstFrames \cup Requests)]
    BY DEF TypeInv, TypeOK, ConnOK
  <2>3. Append(heard[c], m) \in Seq(FirstFrames \cup Requests)
    BY <2>2, AppendTypes
  <2> QED  BY <2>1, <2>2, <2>3
<1>6. /\ phase' \in [Conn -> Phase]
      /\ script' \in [Conn -> Seq(Await)]
      /\ ScriptsFit' /\ UsersKnown'
  <2>1. CASE FirstFrame(c, m) /\ m.type \in {"Login", "Register"}
    <3>1. m.name \in Name /\ m.password \in Password
      BY <1>4, <2>1 DEF ClientMessage, AuthMessage, CreateGroup
    <3>2. PICK q \in {"login", "nameCheck"} :
            script' = [script EXCEPT ![c] = <<QueryAccount(q, m.name, m.password)>>]
      BY <2>1 DEF FirstFrame
    <3>3. <<QueryAccount(q, m.name, m.password)>> \in Seq(AwaitAt("authenticating"))
      BY <3>1, AwaitTypes DEF AwaitAt
    <3>4. phase[c] = "authenticating" /\ phase' = [phase EXCEPT ![c] = "authenticating"]
      BY <2>1 DEF FirstFrame, TypeInv, TypeOK, ConnOK
    <3>5. /\ phase' \in [Conn -> Phase]
          /\ script' \in [Conn -> Seq(Await)]
          /\ ScriptsFit'
      BY <3>2, <3>3, <3>4, ScriptSet DEF Phase
    <3> QED  BY <1>1, <3>4, <3>5 DEF TypeInv, TypeOK, ConnOK, UsersKnown, LoggedIn
  <2>2. CASE FirstFrame(c, m) /\ m.type \notin {"Login", "Register"}
    <3>1. <<ToClient(Error("FirstMessageNotAuth"))>> \in Seq(AwaitAt("rejecting"))
      BY MessageTypes, AwaitTypes DEF AwaitAt, ServerError
    <3>2. /\ script' = [script EXCEPT ![c] = <<ToClient(Error("FirstMessageNotAuth"))>>]
          /\ phase' = [phase EXCEPT ![c] = "rejecting"]
      BY <2>2 DEF FirstFrame
    <3>3. /\ phase' \in [Conn -> Phase]
          /\ script' \in [Conn -> Seq(Await)]
          /\ ScriptsFit'
      BY <3>1, <3>2, ScriptSet DEF Phase
    <3> QED  BY <1>1, <3>2, <3>3 DEF TypeInv, TypeOK, ConnOK, UsersKnown, LoggedIn
  <2>3. CASE HandleFrame(c, m)
    <3>1. phase[c] = "serving" /\ phase' = [phase EXCEPT ![c] = "serving"]
      BY <2>3 DEF HandleFrame, Idle, TypeInv, TypeOK, ConnOK
    <3>2. me[c] \in UserId /\ clock \in Timestamp
      BY <3>1 DEF TypeInv, TypeOK, UsersKnown, LoggedIn
    <3>3. Handler(me[c], m) \in Seq(AwaitAt("serving"))
      BY <1>4, <3>2, HandlerTypes DEF AwaitAt
    <3>4. /\ phase' \in [Conn -> Phase]
          /\ script' \in [Conn -> Seq(Await)]
          /\ ScriptsFit'
      BY <2>3, <3>1, <3>3, ScriptSet DEF HandleFrame, Phase
    <3> QED  BY <1>1, <3>1, <3>4 DEF TypeInv, TypeOK, ConnOK, UsersKnown, LoggedIn
  <2> QED  BY <1>3, <2>1, <2>2, <2>3
<1> QED  BY <1>1, <1>2, <1>5, <1>6 DEF TypeInv, TypeOK, ConnOK

\* A connection is accepted, or it ends.
LEMMA EndTypes ==
  ASSUME TypeInv, NEW c \in Conn, UNCHANGED <<clock, crashes>>,
         Accept(c) \/ Disconnect(c) \/ LoseWrite(c)
  PROVE  TypeInv'
<1>1. UNCHANGED <<me, wire, heard, routerVars, dbVars>>
  BY DEF Accept, Disconnect, HangUp, NoFirstFrame, LoseWrite, WriteFails
<1>2. RouterOK' /\ DbOK' /\ RowsAddressed' /\ UNCHANGED messages
  BY <1>1 DEF TypeInv, TypeOK, RouterOK, DbOK, RowsAddressed, routerVars, dbVars
<1>3. /\ phase' \in [Conn -> Phase]
      /\ script' \in [Conn -> Seq(Await)]
      /\ ScriptsFit' /\ UsersKnown' /\ ChanOK'
  <2>1. CASE Accept(c)
    <3>1. script[c] \in Seq(AwaitAt("fresh"))
      BY <2>1 DEF Accept, TypeInv, ScriptsFit
    <3>2. script[c] = <<>>
      BY <3>1 DEF AwaitAt
    <3>3. <<>> \in Seq(AwaitAt("authenticating")) /\ "authenticating" \in Phase
      BY DEF Phase
    <3>4. script' = [script EXCEPT ![c] = <<>>]
      BY <2>1, <3>2 DEF Accept, TypeInv, TypeOK, ConnOK
    <3>5. phase' \in [Conn -> Phase] /\ script' \in [Conn -> Seq(Await)] /\ ScriptsFit'
      BY <2>1, <3>3, <3>4, ScriptSet DEF Accept
    <3> QED  BY <2>1, <3>5 DEF Accept, TypeInv, TypeOK, ConnOK, ChanOK, UsersKnown, LoggedIn, chanVars
  <2>2. CASE Return(c)
    BY <1>1, <2>2, ReturnTypes
  <2>3. CASE LoggedIn(c) /\ Break(c)
    BY <1>1, <2>3, BreakTypes
  <2> QED  BY <2>1, <2>2, <2>3
           DEF Disconnect, HangUp, NoFirstFrame, LoseWrite, WriteFails, Idle, LoggedIn
<1> QED  BY <1>1, <1>2, <1>3 DEF TypeInv, TypeOK, ConnOK

LEMMA TickTypes ==
  ASSUME TypeInv, Tick
  PROVE  TypeInv'
<1>1. (clock \in Timestamp)'
  BY ClockAssumption DEF Tick, Timestamp, TypeInv, TypeOK
<1> QED  BY <1>1 DEF Tick, TypeInv, TypeOK, DbOK, RouterOK, ChanOK, ConnOK, ScriptsFit, UsersKnown,
                     LoggedIn, RowsAddressed, dbVars, routerVars, chanVars, connVars

\* A restart begins with empty queues, maps and scripts.
LEMMA CrashTypes ==
  ASSUME TypeInv, Crash
  PROVE  TypeInv'
<1>1. DbOK' /\ RowsAddressed' /\ UNCHANGED messages
  BY DEF Crash, TypeInv, TypeOK, DbOK, RowsAddressed, dbVars
<1>2. RouterOK' /\ ChanOK'
  BY DEF Crash, RouterOK, ChanOK
<1>3. ConnOK' /\ ScriptsFit' /\ UsersKnown'
  BY DEF Crash, TypeInv, TypeOK, ConnOK, ScriptsFit, UsersKnown, LoggedIn, Phase
<1>4. (crashes \in 0 .. MaxCrashes)'
  BY BoundAssumption DEF Crash, TypeInv, TypeOK
<1> QED  BY <1>1, <1>2, <1>3, <1>4 DEF Crash, TypeInv, TypeOK

-----------------------------------------------------------------------------
(* The specification.                                                      *)

LEMMA InitTypes == Init => TypeInv
<1> SUFFICES ASSUME Init PROVE TypeInv
  OBVIOUS
<1>1. DbOK
  <2>1. InitUsers \subseteq UserRow /\ InitGroups \subseteq GroupId
    BY InitialTables
  <2>2. InitMembers \subseteq GroupId \X UserId
    <3>1. {r.id : r \in InitUsers} \subseteq UserId
      BY <2>1 DEF UserRow
    <3> QED  BY <2>1, <3>1, InitialTables
  <2> QED  BY <2>1, <2>2 DEF Init, DbInit, DbOK
<1>2. RouterOK /\ ChanOK
  BY DEF Init, RouterInit, RouterOK, ChanOK
<1>3. ConnOK /\ ScriptsFit /\ UsersKnown
  BY DEF Init, ConnInit, ConnOK, ScriptsFit, UsersKnown, LoggedIn, Phase
<1>4. RowsAddressed /\ IsFiniteSet(messages)
  BY FS_EmptySet DEF Init, DbInit, RouterInit, RowsAddressed
<1>5. clock \in Timestamp /\ crashes \in 0 .. MaxCrashes
  BY ClockAssumption, BoundAssumption DEF Init, Timestamp
<1> QED  BY <1>1, <1>2, <1>3, <1>4, <1>5 DEF TypeInv, TypeOK

LEMMA NextTypes == TypeInv /\ [Next]_vars => TypeInv'
<1> SUFFICES ASSUME TypeInv, [Next]_vars PROVE TypeInv'
  OBVIOUS
<1>1. CASE RouterTask
  BY <1>1, RouterTypes
<1>2. CASE SaveTasks
  BY <1>2, SaveTypes
<1>3. ASSUME NEW c \in Conn, Actor(c) PROVE TypeInv'
  BY <1>3, ActorTypes
<1>4. ASSUME NEW c \in Conn, Client(c) PROVE TypeInv'
  BY <1>4, FrameTypes, EndTypes DEF Client
<1>5. CASE Tick
  BY <1>5, TickTypes
<1>6. CASE Crash
  BY <1>6, CrashTypes
<1>7. CASE UNCHANGED vars
  BY <1>7 DEF vars, TypeInv, TypeOK, DbOK, RouterOK, ChanOK, ConnOK, ScriptsFit, UsersKnown,
              LoggedIn, RowsAddressed, dbVars, routerVars, chanVars, connVars
<1> QED  BY <1>1, <1>2, <1>3, <1>4, <1>5, <1>6, <1>7 DEF Next

\* The inductive invariant holds in every reachable state.
THEOREM TypesHold == Spec => []TypeInv
BY InitTypes, NextTypes, PTL DEF Spec

\* Whatever clients, connections, groups and queue capacities there are, and
\* whatever fails or crashes, an actor never awaits a query or sends a message
\* built from a user, group or target that is not there: rows, events, channels,
\* scripts and the wire hold values of their types, and every stored row has a
\* target for sync_messages to rebuild.
THEOREM TypeCorrect == Spec => []TypeOK
<1>1. TypeInv => TypeOK
  BY DEF TypeInv
<1> QED  BY TypesHold, <1>1, PTL
===============================================================================
