------------------------------ MODULE HistoryProofs ------------------------------
(***************************************************************************)
(* What becomes of a chat message, for every value of the constants: it is *)
(* saved once, as it was sent, and history gives it back.                  *)
(***************************************************************************)
EXTENDS SessionProofs

-----------------------------------------------------------------------------
(* Messages and their history.                                             *)

\* The chat messages on their way to the router.
Chatting == {e \in InFlight : e.type = "RouteMessage" /\ Live(e.message)}

\* The rows of `messages`: stored, being saved, or still to be made of an event.
Rows == messages \cup saves \cup {SavedRow(e.from, e.target, e.message) : e \in Chatting}

\* One column of a row says where the message goes, and the others are NULL.
OneTarget(row) ==
  /\ row.toUser \in UserId => ~row.broadcast /\ row.toGroup = NoGroup
  /\ row.toGroup \in GroupId => ~row.broadcast

\* A row gives back what its sender sent.
RowsHonest ==
  \A row \in Rows :
    /\ OneTarget(row)
    /\ [from |-> row.sender, frame |-> SendMessage(RowTarget(row), row.body)] \in Accepted

\* A message is saved once.
OneRowPerBody == \A r, s \in Rows : r.body = s.body => r = s

\* Only chat messages and alerts go through the router, which adds its news.
RoutedKinds ==
  /\ \A e \in InFlight : e.type = "RouteMessage" =>
       e.message.type \in {"NewMessage", "AddedToGroup"}
  /\ \A i \in DOMAIN fanout : fanout[i].msg.type \in {"Presence", "NewMessage", "AddedToGroup"}

\* A batch that may be given to the user of c.
TrueBatch(c, batch) ==
  /\ me[c] # NoUser
  /\ \A i \in DOMAIN batch :
       /\ [from |-> batch[i].from, frame |-> SendMessage(batch[i].target, batch[i].body)] \in Accepted
       /\ \E row \in messages : batch[i] = RowMessage(row)
  /\ \A i, j \in DOMAIN batch :
       /\ (i # j /\ batch[i].body = batch[j].body) =>
            batch[i].from = me[c] /\ batch[i].target.kind = "group"
       /\ i < j => batch[i].at <= batch[j].at

TrueMessage(c) == {m \in ServerMessage : m.type = "SyncBatch" => TrueBatch(c, m.batch)}

TrueAwait(c) == {a \in Await : a.do \in {"toSelf", "toClient"} => a.msg \in TrueMessage(c)}

TruthTold ==
  \A c \in Conn :
    /\ wire[c] \in Seq(TrueMessage(c)) /\ chan[c] \in Seq(TrueMessage(c))
    /\ script[c] \in Seq(TrueAwait(c))

\* What history gives back was in the table when it was read, so the rows are
\* honest from the moment a message is on its way to the router.
HistoryInv ==
  /\ RowsHonest
  /\ OneRowPerBody
  /\ RoutedKinds
  /\ TruthTold

\* No row is stamped later than now, and the rows of two messages of one
\* connection are stamped in the order in which it sent them.
Earlier(c, k, l) ==
  \A r, s \in Rows :
    (r.body = heard[c][k].body /\ s.body = heard[c][l].body) => r.at <= s.at

StampInv ==
  /\ \A row \in Rows : row.at \in Nat /\ row.at <= clock
  /\ \A c \in Conn : \A k, l \in SentAt(c) : k < l => Earlier(c, k, l)

-----------------------------------------------------------------------------
(* What a step does to the sockets, the channels and the frames.           *)

\* One message may move on its way to the client of c, and one frame be read.
Carried(c) ==
  /\ UNCHANGED <<fanout, saves, messages>>
  /\ wire'[c] = wire[c] \/ WriteToClient(c)
  /\ chan'[c] = chan[c] \/ chan'[c] = <<>> \/ ReceiveRouted(c) \/ PostToSelf(c)
  /\ \/ heard'[c] = heard[c]
     \/ \E m \in FirstFrames : FirstFrame(c, m)
     \/ \E m \in Requests : FreshBody(m) /\ HandleFrame(c, m)

LEMMA CarriedByStep ==
  ASSUME TypeInv, NEW c \in Conn, Actor(c) \/ Client(c)
  PROVE  Carried(c)
<1> USE HasEntries DEF Entries, Carried, routerVars, chanVars, dbVars
<1>1. CASE LoginUser(c) \/ CheckName(c) \/ RegisterUser(c)
  BY <1>1 DEF LoginUser, CheckName, RegisterUser, Welcome, Reject, OnlyScript, InsertUser
<1>2. CASE FetchGroups(c) \/ FetchUsers(c)
  BY <1>2 DEF FetchGroups, FetchUsers, OnlyScript
<1>3. CASE PostToRouter(c) \/ PostToSelf(c)
  BY <1>3 DEF PostToRouter, PostToSelf, Return
<1>4. CASE WriteToClient(c) \/ ReceiveRouted(c)
  BY <1>4 DEF WriteToClient, ReceiveRouted, Return
<1>5. CASE Invite(c) \/ AlertInvited(c) \/ NewGroup(c) \/ AddCreator(c)
  BY <1>5 DEF Invite, AlertInvited, NewGroup, AddCreator, InsertMember, InsertGroup, OnlyScript
<1>6. CASE FetchMembers(c) \/ FetchInfo(c) \/ SyncMessages(c)
  BY <1>6 DEF FetchMembers, FetchInfo, SyncMessages, OnlyScript
<1>7. CASE Accept(c) \/ Disconnect(c) \/ LoseWrite(c)
  BY <1>7 DEF Accept, Disconnect, HangUp, NoFirstFrame, LoseWrite, WriteFails, Break, Return
<1>8. CASE Authenticate(c) \/ Request(c)
  <2>1. \/ \E m \in FirstFrames : FirstFrame(c, m)
        \/ \E m \in Requests : FreshBody(m) /\ HandleFrame(c, m)
    BY <1>8 DEF Authenticate, Request
  <2>2. UNCHANGED <<fanout, saves, messages, wire, chan>>
    BY <2>1 DEF FirstFrame, HandleFrame
  <2> QED  BY <2>1, <2>2
<1> QED  BY <1>1, <1>2, <1>3, <1>4, <1>5, <1>6, <1>7, <1>8 DEF Actor, ConnStep, Client

LEMMA AppendKeeps ==
  ASSUME NEW S, NEW s \in Seq(S), NEW e \in S, NEW i \in DOMAIN s
  PROVE  i \in DOMAIN Append(s, e) /\ Append(s, e)[i] = s[i]
OBVIOUS

-----------------------------------------------------------------------------
(* Accepted messages.                                                      *)

LEMMA WhatIsAccepted ==
  ASSUME NEW a
  PROVE  a \in Accepted <=>
           \E c \in Conn : \E i \in DOMAIN heard[c] :
             /\ me[c] # NoUser /\ Sends(heard[c][i])
             /\ a = [from |-> me[c], frame |-> heard[c][i]]
BY DEF Accepted, Range

\* A frame stays where it was heard, and a connection keeps its user.
LEMMA HeardStays ==
  ASSUME TypeInv, Founded, SessionInv, [Next]_vars, NEW c \in Conn
  PROVE  /\ me[c] # NoUser => me'[c] = me[c]
         /\ \A i \in DOMAIN heard[c] : i \in DOMAIN heard'[c] /\ heard'[c][i] = heard[c][i]
<1>1. ASSUME NEW d \in Conn, Actor(d) \/ Client(d)
      PROVE  /\ me[c] # NoUser => me'[c] = me[c]
             /\ \A i \in DOMAIN heard[c] : i \in DOMAIN heard'[c] /\ heard'[c][i] = heard[c][i]
  <2>1. CASE c # d
    BY <1>1, <2>1, OthersStand DEF Aside
  <2>2. CASE c = d
    <3>1. LifeStep(c) /\ Carried(c)
      BY <1>1, <2>2, LifeOfStep, CarriedByStep DEF SessionInv
    <3>2. me[c] # NoUser => me'[c] = me[c]
      BY <3>1 DEF SessionInv, NotYetKnown, LifeStep
    <3>3. heard[c] \in Seq(FirstFrames \cup Requests)
      BY HasEntries DEF Entries
    <3>4. \A i \in DOMAIN heard[c] : i \in DOMAIN heard'[c] /\ heard'[c][i] = heard[c][i]
      <4>1. \/ heard'[c] = heard[c]
            \/ \E m \in FirstFrames \cup Requests : heard'[c] = Append(heard[c], m)
        BY <3>1, HasEntries DEF Entries, Carried, FirstFrame, HandleFrame
      <4> QED  BY <3>3, <4>1, AppendKeeps
    <3> QED  BY <3>2, <3>4
  <2> QED  BY <2>1, <2>2
<1>2. CASE RouterTask \/ SaveTasks \/ Tick \/ Crash \/ UNCHANGED vars
  <2>1. UNCHANGED <<me, heard>>
    BY <1>2 DEF RouterTask, SaveTasks, Tick, Crash, vars, connVars
  <2> QED  BY <2>1
<1> QED  BY <1>1, <1>2 DEF Next

LEMMA AcceptedStays ==
  ASSUME TypeInv, Founded, SessionInv, [Next]_vars
  PROVE  Accepted \subseteq Accepted'
<1> SUFFICES ASSUME NEW a \in Accepted PROVE a \in Accepted'
  OBVIOUS
<1>1. PICK c \in Conn : \E i \in DOMAIN heard[c] :
        me[c] # NoUser /\ Sends(heard[c][i]) /\ a = [from |-> me[c], frame |-> heard[c][i]]
  BY WhatIsAccepted
<1>2. /\ me[c] # NoUser => me'[c] = me[c]
      /\ \A i \in DOMAIN heard[c] : i \in DOMAIN heard'[c] /\ heard'[c][i] = heard[c][i]
  BY HeardStays
<1> QED  BY <1>1, <1>2 DEF Accepted, Range

-----------------------------------------------------------------------------
(* Rows.                                                                   *)

\* The row of an event that routes a chat message.
RowOf(e) == SavedRow(e.from, e.target, e.message)

\* A step of an actor puts no message on its way but the one it accepts.
LEMMA ChattingOfStep ==
  ASSUME TypeInv, PostsFirst, NEW c \in Conn, NEW steps, StepShape(c, steps)
  PROVE  Chatting \subseteq Chatting' /\ \A e \in Chatting' \ Chatting : Chats(c, e)
<1>1. /\ InFlight \subseteq InFlight'
      /\ \A e \in InFlight' \ InFlight :
           steps # <<>> /\ steps[1].do = "toRouter" /\ e = steps[1].event
  BY FlightOfStep
<1>2. Chatting \subseteq Chatting'
  BY <1>1 DEF Chatting
<1>3. ASSUME NEW e \in Chatting', e \notin Chatting
      PROVE  Chats(c, e)
  <2>1. e \in InFlight' \ InFlight /\ e.type = "RouteMessage" /\ Live(e.message)
    BY <1>3 DEF Chatting
  <2>2. steps # <<>> /\ steps[1].do = "toRouter" /\ e = steps[1].event
    BY <1>1, <2>1
  <2>3. steps[1] \in NewAwait(c)
    BY <2>2 DEF StepShape
  <2> QED  BY <2>1, <2>2, <2>3 DEF NewAwait, Live
<1> QED  BY <1>2, <1>3

\* Nor does it make a row but that of this message.
LEMMA RowsOfStep ==
  ASSUME TypeInv, PostsFirst, NEW c \in Conn, NEW steps, StepShape(c, steps), Carried(c)
  PROVE  /\ Rows \subseteq Rows'
         /\ \A row \in Rows' \ Rows : \E e : Chats(c, e) /\ row = RowOf(e)
<1>1. UNCHANGED <<saves, messages>>
  BY DEF Carried
<1> QED  BY <1>1, ChattingOfStep DEF Rows, RowOf

\* Handling an event turns it into a task; a task that runs turns into a row.
LEMMA RowsOfRouter ==
  ASSUME TypeInv, RouterTask
  PROVE  Rows' = Rows
<1>1. UNCHANGED <<messages, script>>
  BY DEF RouterTask, RouterStep, OnUserConnected, OnUserDisconnected, OnUserJoinedGroup,
         OnRouteMessage, Deliver, dbVars, connVars
<1>2. CASE Deliver
  <2>1. InFlight' = InFlight /\ UNCHANGED saves
    BY <1>1, <1>2 DEF Deliver, InFlight, Posted, AboutToPost, Awaiting, Range
  <2> QED  BY <1>1, <2>1 DEF Rows, Chatting
<1>3. CASE OnUserConnected \/ OnUserDisconnected \/ OnUserJoinedGroup
  <2>1. Head(rxq).type # "RouteMessage" /\ UNCHANGED saves
    BY <1>3 DEF OnUserConnected, OnUserDisconnected, OnUserJoinedGroup, Take
  <2>2. InFlight' \subseteq InFlight /\ InFlight \subseteq InFlight' \cup {Head(rxq)}
    BY <1>1, <1>3, TakenEvent DEF OnUserConnected, OnUserDisconnected, OnUserJoinedGroup
  <2>3. Chatting' = Chatting
    BY <2>1, <2>2 DEF Chatting
  <2> QED  BY <1>1, <2>1, <2>3 DEF Rows
<1>4. CASE OnRouteMessage
  <2> DEFINE e == Head(rxq)
  <2>1. /\ e \in InFlight /\ InFlight' \subseteq InFlight /\ InFlight \subseteq InFlight' \cup {e}
        /\ e.type = "RouteMessage"
    BY <1>1, <1>4, TakenEvent DEF OnRouteMessage, Take
  <2>2. saves' = saves \cup SaveTask(e.from, e.target, e.message)
    BY <1>4 DEF OnRouteMessage
  <2> HIDE DEF e
  <2>3. CASE Live(e.message)
    <3>1. saves' = saves \cup {RowOf(e)}
      BY <2>2, <2>3 DEF SaveTask, RowOf, Live
    <3>2. e \in Chatting /\ Chatting' \subseteq Chatting /\ Chatting \subseteq Chatting' \cup {e}
      BY <2>1, <2>3 DEF Chatting
    <3> QED  BY <1>1, <3>1, <3>2 DEF Rows, RowOf
  <2>4. CASE ~Live(e.message)
    <3>1. saves' = saves
      BY <2>2, <2>4 DEF SaveTask, Live
    <3>2. Chatting' = Chatting
      BY <2>1, <2>4 DEF Chatting
    <3> QED  BY <1>1, <3>1, <3>2 DEF Rows
  <2> QED  BY <2>3, <2>4
<1> QED  BY <1>2, <1>3, <1>4 DEF RouterTask, RouterStep

LEMMA RowsOfSave ==
  ASSUME SaveTasks
  PROVE  /\ Rows' \subseteq Rows
         /\ \A row \in Rows \ Rows' :
              row \in saves /\ (MayFail("saveMessage") \/ ~SavedForeignKeys(row))
<1>1. Chatting' = Chatting
  BY DEF SaveTasks, SaveMessage, Chatting, InFlight, Posted, AboutToPost, Awaiting, Range, connVars
<1>2. PICK row \in saves :
        /\ saves' = saves \ {row}
        /\ \/ messages' = messages \cup {row}
           \/ messages' = messages /\ (MayFail("saveMessage") \/ ~SavedForeignKeys(row))
  BY DEF SaveTasks, SaveMessage, InsertMessage, dbVars
<1> QED  BY <1>1, <1>2 DEF Rows

\* What a sender writes in a row is what a reader gets out of it.
LEMMA TargetSurvives ==
  ASSUME NEW u \in UserId, NEW t \in Target, NEW m
  PROVE  OneTarget(SavedRow(u, t, m)) /\ RowTarget(SavedRow(u, t, m)) = t
<1> DEFINE row == SavedRow(u, t, m)
<1>1. /\ row.toUser = IF t.kind = "user" THEN t.user ELSE NoUser
      /\ row.toGroup = IF t.kind = "group" THEN t.group ELSE NoGroup
      /\ row.broadcast <=> t.kind = "broadcast"
  BY DEF SavedRow
<1> SUFFICES OneTarget(row) /\ RowTarget(row) = t
  OBVIOUS
<1> HIDE DEF row
<1>2. CASE t \in [kind : {"user"}, user : UserId]
  <2>1. t.kind = "user" /\ t.user \in UserId /\ t = UserTarget(t.user)
    BY <1>2 DEF UserTarget
  <2> QED  BY <1>1, <2>1, NullAssumption DEF OneTarget, RowTarget
<1>3. CASE t \in [kind : {"group"}, group : GroupId]
  <2>1. t.kind = "group" /\ t.group \in GroupId /\ t = GroupTarget(t.group)
    BY <1>3 DEF GroupTarget
  <2> QED  BY <1>1, <2>1, NullAssumption DEF OneTarget, RowTarget
<1>4. CASE t = Broadcast
  <2>1. t.kind = "broadcast"
    BY <1>4 DEF Broadcast
  <2> QED  BY <1>1, <1>4, <2>1, NullAssumption DEF OneTarget, RowTarget
<1> QED  BY <1>2, <1>3, <1>4 DEF Target

LEMMA WhatIsSentAsked ==
  ASSUME NEW m \in Requests, Sends(m)
  PROVE  m.target \in Target /\ m.body \in Body /\ m = SendMessage(m.target, m.body)
<1>1. m \in [type : {"SendMessage"}, target : Target, body : Body]
  BY RequestAssumption DEF ClientMessage, AuthMessage, CreateGroup, Sends
<1> QED  BY <1>1 DEF SendMessage

\* A fresh body has no row.
LEMMA RowsNotFresh ==
  ASSUME RowsHonest, NEW m, Sends(m), FreshBody(m), NEW row \in Rows
  PROVE  row.body # m.body
<1> DEFINE a == [from |-> row.sender, frame |-> SendMessage(RowTarget(row), row.body)]
<1>1. a \in Accepted
  BY DEF RowsHonest
<1>2. PICK d \in Conn : \E i \in DOMAIN heard[d] :
        Sends(heard[d][i]) /\ a = [from |-> me[d], frame |-> heard[d][i]]
  BY <1>1, WhatIsAccepted
<1>3. PICK i \in DOMAIN heard[d] :
        Sends(heard[d][i]) /\ heard[d][i] = SendMessage(RowTarget(row), row.body)
  BY <1>2
<1>4. <<d, i>> \in Heard("SendMessage")
  BY <1>3 DEF Heard, Sends
<1>5. heard[d][i].body # m.body
  BY <1>4 DEF FreshBody, Sends
<1> QED  BY <1>3, <1>5 DEF SendMessage

\* A row that is new is honest, and new for its body.
LEMMA NewRow ==
  ASSUME TypeInv, RowsHonest, NEW c \in Conn, NEW e, Chats(c, e)
  PROVE  /\ OneTarget(RowOf(e))
         /\ [from |-> RowOf(e).sender,
             frame |-> SendMessage(RowTarget(RowOf(e)), RowOf(e).body)] \in Accepted'
         /\ \A row \in Rows : row.body # RowOf(e).body
<1>1. PICK m \in Requests :
        /\ Sends(m) /\ FreshBody(m) /\ HandleFrame(c, m)
        /\ e = RouteMessage(me[c], m.target, Outgoing(me[c], m))
  BY DEF Chats
<1>2. m.target \in Target /\ m = SendMessage(m.target, m.body)
  BY <1>1, WhatIsSentAsked
<1>3. me[c] \in UserId /\ me[c] # NoUser
  BY <1>1, NullAssumption DEF HandleFrame, Idle, TypeInv, UsersKnown, LoggedIn
<1>4. RowOf(e) = SavedRow(me[c], m.target, Outgoing(me[c], m))
  BY <1>1 DEF RowOf, RouteMessage
<1>5. RowOf(e).sender = me[c] /\ RowOf(e).body = m.body
  BY <1>4 DEF SavedRow, Outgoing, NewMessage
<1>6. OneTarget(RowOf(e)) /\ RowTarget(RowOf(e)) = m.target
  BY <1>2, <1>3, <1>4, TargetSurvives
<1>7. [from |-> me[c], frame |-> m] \in Accepted'
  <2>1. heard[c] \in Seq(FirstFrames \cup Requests) /\ heard'[c] = Append(heard[c], m)
        /\ me'[c] = me[c]
    BY <1>1, HasEntries DEF Entries, HandleFrame
  <2>2. Len(heard[c]) + 1 \in DOMAIN heard'[c] /\ heard'[c][Len(heard[c]) + 1] = m
    BY <2>1
  <2> QED  BY <1>1, <1>3, <2>1, <2>2 DEF Accepted, Range
<1>8. \A row \in Rows : row.body # m.body
  BY <1>1, RowsNotFresh
<1> QED  BY <1>2, <1>5, <1>6, <1>7, <1>8

-----------------------------------------------------------------------------
(* Batches.                                                                *)

\* The history query gives true batches: the rows it joins and orders are
\* honest, and only the members of a group multiply the row of a message.
LEMMA BatchIsTrue ==
  ASSUME TypeInv, RowsHonest, OneRowPerBody, NEW c \in Conn, me[c] \in UserId,
         NEW since, NEW b \in HistoryBatches(me[c], since)
  PROVE  TrueBatch(c, b)
<1> DEFINE rows == HistoryRows(me[c], since)
<1>1. PICK s \in Ordered(rows) : b = [i \in DOMAIN s |-> RowMessage(s[i].row)]
  BY DEF HistoryBatches
<1>2. /\ \A i \in DOMAIN s : s[i] \in rows
      /\ \A i, j \in DOMAIN s : i # j => s[i] # s[j]
      /\ \A i, j \in DOMAIN s : i < j => s[i].row.at <= s[j].row.at
  BY DEF Ordered, SetToSeqs
<1>3. /\ DOMAIN b = DOMAIN s
      /\ \A i \in DOMAIN s : b[i] = RowMessage(s[i].row)
  BY <1>1
<1>4. \A i \in DOMAIN s : /\ b[i].from = s[i].row.sender /\ b[i].target = RowTarget(s[i].row)
                          /\ b[i].body = s[i].row.body /\ b[i].at = s[i].row.at
  BY <1>3 DEF RowMessage, NewMessage
<1>5. ASSUME NEW j \in rows
      PROVE  /\ j.row \in messages /\ j.row \in MessageRow /\ j.row \in Rows
             /\ j.member \in JoinedMembers(j.row)
             /\ j = [row |-> j.row, member |-> j.member]
             /\ \/ j.row.toUser = me[c] \/ j.row.broadcast
                \/ j.row.sender = me[c] \/ j.member = me[c]
  <2>1. j \in LeftJoin
    BY DEF HistoryRows
  <2>2. PICK row \in messages : j \in [row : {row}, member : JoinedMembers(row)]
    BY <2>1 DEF LeftJoin
  <2>3. j.row = row /\ j.member \in JoinedMembers(row) /\ j = [row |-> j.row, member |-> j.member]
    BY <2>2
  <2>4. row \in MessageRow /\ row \in Rows
    BY <2>2 DEF TypeInv, TypeOK, DbOK, Rows
  <2>5. \/ j.row.toUser = me[c] \/ j.row.broadcast
        \/ j.row.sender = me[c] \/ j.member = me[c]
    BY DEF HistoryRows
  <2> QED  BY <2>3, <2>4, <2>5
<1>6. ASSUME NEW i \in DOMAIN s
      PROVE  /\ [from |-> b[i].from, frame |-> SendMessage(b[i].target, b[i].body)] \in Accepted
             /\ \E row \in messages : b[i] = RowMessage(row)
  <2>1. s[i].row \in Rows /\ s[i].row \in messages /\ b[i] = RowMessage(s[i].row)
    BY <1>2, <1>3, <1>5
  <2> QED  BY <1>4, <2>1 DEF RowsHonest
<1>7. ASSUME NEW i \in DOMAIN s, NEW j \in DOMAIN s, i # j, b[i].body = b[j].body
      PROVE  b[i].from = me[c] /\ b[i].target.kind = "group"
  <2> DEFINE row == s[i].row
  <2>1. /\ row \in Rows /\ row \in messages /\ row \in MessageRow /\ s[j].row \in Rows
        /\ s[i].member \in JoinedMembers(row)
        /\ s[i] = [row |-> s[i].row, member |-> s[i].member]
        /\ s[j] = [row |-> s[j].row, member |-> s[j].member]
        /\ s[j].member \in JoinedMembers(s[j].row)
    BY <1>2, <1>5
  <2>2. s[j].row = row
    BY <1>4, <1>7, <2>1 DEF OneRowPerBody
  <2>3. s[i].member # s[j].member
    <3>1. s[i] # s[j]
      BY <1>2, <1>7
    <3> QED  BY <2>1, <2>2, <3>1
  <2>4. row.toGroup \in GroupId
    <3> SUFFICES ASSUME row.toGroup \notin GroupId PROVE FALSE
      OBVIOUS
    <3>1. \A u : <<row.toGroup, u>> \notin members
      BY DEF TypeInv, TypeOK, DbOK
    <3>2. JoinedMembers(row) = {NoUser}
      BY <3>1 DEF JoinedMembers
    <3> QED  BY <2>1, <2>2, <2>3, <3>2
  <2>5. row.toUser = NoUser /\ ~row.broadcast
    BY <2>1, <2>4, NullAssumption DEF RowsHonest, OneTarget, MessageRow
  <2>6. row.sender = me[c]
    <3>1. /\ row.sender = me[c] \/ s[i].member = me[c]
          /\ row.sender = me[c] \/ s[j].member = me[c]
      BY <1>2, <1>5, <2>2, <2>5, NullAssumption
    <3> QED  BY <2>3, <3>1
  <2>7. RowTarget(row) = GroupTarget(row.toGroup)
    BY <2>5 DEF RowTarget
  <2> QED  BY <1>4, <2>6, <2>7 DEF GroupTarget
<1>8. ASSUME NEW i \in DOMAIN s, NEW j \in DOMAIN s, i < j
      PROVE  b[i].at <= b[j].at
  BY <1>2, <1>4, <1>8
<1> QED  BY <1>3, <1>6, <1>7, <1>8, NullAssumption DEF TrueBatch

\* What was true of a batch stays true.
LEMMA TruthStays ==
  ASSUME NEW c \in Conn, Accepted \subseteq Accepted', messages \subseteq messages',
         me[c] # NoUser => me'[c] = me[c]
  PROVE  TrueMessage(c) \subseteq TrueMessage(c)' /\ TrueAwait(c) \subseteq TrueAwait(c)'
<1>1. ASSUME NEW b, TrueBatch(c, b)
      PROVE  TrueBatch(c, b)'
  <2>1. \A row : RowMessage(row)' = RowMessage(row)
    BY DEF RowMessage, NewMessage, RowTarget, UserTarget, GroupTarget, Broadcast
  <2> QED  BY <1>1, <2>1 DEF TrueBatch
<1> QED  BY <1>1 DEF TrueMessage, TrueAwait

\* The awaits a step adds bring true batches, and so does what it carries.
LEMMA TruthByActor ==
  ASSUME TypeInv, RowsHonest, OneRowPerBody, TruthTold,
         Accepted \subseteq Accepted', NEW c \in Conn, NEW steps, StepShape(c, steps), Carried(c),
         \A d \in Conn : me[d] # NoUser => me'[d] = me[d],
         \A d \in Conn \ {c} : Aside(d)
  PROVE  TruthTold'
<1> USE DEF TruthTold
<1>1. \A d \in Conn : TrueMessage(d) \subseteq TrueMessage(d)' /\ TrueAwait(d) \subseteq TrueAwait(d)'
  BY TruthStays DEF Carried
<1>2. NewAwait(c) \subseteq TrueAwait(c)'
  <2> SUFFICES ASSUME NEW a \in NewAwait(c), a.do \in {"toSelf", "toClient"},
                      a.msg.type = "SyncBatch"
               PROVE  a.msg \in TrueMessage(c)
    <3>1. ASSUME NEW a \in NewAwait(c), a.do \in {"toSelf", "toClient"},
                 a.msg.type # "SyncBatch"
          PROVE  a.msg \in TrueMessage(c)
      BY <3>1, AwaitFields DEF NewAwait, TrueMessage
    <3> QED  BY <1>1, <3>1 DEF NewAwait, TrueAwait
  <2>1. CASE a.do = "toSelf"
    <3>1. ReadsHistory(c, a.msg) /\ a.msg \in ServerMessage
      BY <2>1, AwaitFields DEF NewAwait, Relayed
    <3>2. PICK since : \E b \in HistoryBatches(me[c], since) : a.msg = SyncBatch(b)
      BY <3>1 DEF ReadsHistory
    <3>3. PICK b \in HistoryBatches(me[c], since) : a.msg = SyncBatch(b)
      BY <3>2
    <3>4. TrueBatch(c, b)
      BY <3>1, BatchIsTrue DEF ReadsHistory
    <3> QED  BY <3>1, <3>3, <3>4 DEF TrueMessage, SyncBatch
  <2>2. CASE a.do = "toClient"
    <3>1. ReceiveRouted(c) /\ a.msg = Head(chan[c])
      BY <2>2 DEF NewAwait, Relayed
    <3> QED  BY <3>1, TailTypes DEF ReceiveRouted
  <2> QED  BY <2>1, <2>2
<1>3. \A d \in Conn : script'[d] \in Seq(TrueAwait(d)')
  <2>1. steps \in Seq(TrueAwait(c)')
    BY <1>2, SeqSubset DEF StepShape
  <2>2. \A d \in Conn : script[d] \in Seq(TrueAwait(d)')
    BY <1>1, SeqSubset
  <2>3. script'[c] \in Seq(TrueAwait(c)')
    <3>1. CASE UNCHANGED script
      BY <2>2, <3>1
    <3>2. CASE script' = [script EXCEPT ![c] = steps]
      BY <2>1, <3>2, HasEntries DEF Entries
    <3>3. CASE script[c] # <<>> /\ Continue(c, steps)
      <4>1. script'[c] = steps \o Tail(script[c])
        BY <3>3, HasEntries DEF Entries, Continue
      <4> QED  BY <2>1, <2>2, <3>3, <4>1, TailTypes, ConcatTypes
    <3> QED  BY <3>1, <3>2, <3>3 DEF StepShape, Scripted
  <2> QED  BY <2>2, <2>3 DEF Aside
<1>4. Awaiting(c, "toClient") \/ Awaiting(c, "toSelf") => Head(script[c]).msg \in TrueMessage(c)'
  <2> SUFFICES ASSUME Awaiting(c, "toClient") \/ Awaiting(c, "toSelf")
               PROVE  Head(script[c]).msg \in TrueMessage(c)'
    OBVIOUS
  <2>1. Head(script[c]) \in TrueAwait(c) /\ Head(script[c]).do \in {"toSelf", "toClient"}
    BY TailTypes DEF Awaiting
  <2> QED  BY <1>1, <2>1 DEF TrueAwait
<1>5. \A d \in Conn : wire[d] \in Seq(TrueMessage(d)') /\ chan[d] \in Seq(TrueMessage(d)')
  BY <1>1, SeqSubset
<1>6. wire'[c] \in Seq(TrueMessage(c)')
  <2>1. \/ wire'[c] = wire[c]
        \/ Awaiting(c, "toClient") /\ wire'[c] = Append(wire[c], Head(script[c]).msg)
    BY HasEntries DEF Entries, Carried, WriteToClient
  <2> QED  BY <1>4, <1>5, <2>1, AppendTypes
<1>7. chan'[c] \in Seq(TrueMessage(c)')
  <2>1. chan[c] \in Seq(TrueMessage(c)') /\ <<>> \in Seq(TrueMessage(c)')
    BY <1>5
  <2>2. CASE chan'[c] = chan[c] \/ chan'[c] = <<>>
    BY <2>1, <2>2
  <2>3. CASE ReceiveRouted(c)
    <3>1. chan[c] # <<>> /\ chan'[c] = Tail(chan[c])
      BY <2>3, HasEntries DEF Entries, ReceiveRouted
    <3> QED  BY <2>1, <3>1, TailTypes
  <2>4. CASE PostToSelf(c)
    <3>1. Awaiting(c, "toSelf") /\ chan'[c] = Append(chan[c], Head(script[c]).msg)
      BY <2>4, HasEntries DEF Entries, PostToSelf
    <3> QED  BY <1>4, <2>1, <3>1, AppendTypes
  <2> QED  BY <2>2, <2>3, <2>4 DEF Carried
<1> QED  BY <1>3, <1>5, <1>6, <1>7 DEF Aside

LEMMA HistoryByActor ==
  ASSUME TypeInv, Founded, PostsFirst, SessionInv, HistoryInv, [Next]_vars,
         NEW c \in Conn, Actor(c) \/ Client(c)
  PROVE  HistoryInv'
<1> USE DEF HistoryInv
<1>1. PICK steps : StepShape(c, steps)
  BY ShapeOfStep
<1>2. Carried(c) /\ \A d \in Conn \ {c} : Aside(d)
  BY CarriedByStep, OthersStand
<1>3. /\ Accepted \subseteq Accepted'
      /\ \A d \in Conn : me[d] # NoUser => me'[d] = me[d]
  BY AcceptedStays, HeardStays
<1>4. \A row \in Rows' \ Rows : \E e : Chats(c, e) /\ row = RowOf(e)
  BY <1>1, <1>2, RowsOfStep
<1>5. RowsHonest'
  <2> SUFFICES ASSUME NEW row \in Rows'
               PROVE  /\ OneTarget(row)
                      /\ [from |-> row.sender,
                          frame |-> SendMessage(RowTarget(row), row.body)] \in Accepted'
    BY DEF RowsHonest
  <2>1. CASE row \in Rows
    BY <1>3, <2>1 DEF RowsHonest
  <2>2. CASE row \notin Rows
    BY <1>4, <2>2, NewRow
  <2> QED  BY <2>1, <2>2
<1>6. OneRowPerBody'
  <2> SUFFICES ASSUME NEW r \in Rows', NEW s \in Rows', r.body = s.body PROVE r = s
    BY DEF OneRowPerBody
  <2>1. CASE r \in Rows /\ s \in Rows
    BY <2>1 DEF OneRowPerBody
  <2>2. \A x, y \in Rows' : x \in Rows /\ y \notin Rows => x.body # y.body
    BY <1>4, NewRow
  <2>3. CASE r \notin Rows /\ s \notin Rows
    <3>1. PICK e, f : Chats(c, e) /\ r = RowOf(e) /\ Chats(c, f) /\ s = RowOf(f)
      BY <1>4, <2>3
    <3>2. PICK m \in Requests, n \in Requests :
            /\ HandleFrame(c, m) /\ e = RouteMessage(me[c], m.target, Outgoing(me[c], m))
            /\ HandleFrame(c, n) /\ f = RouteMessage(me[c], n.target, Outgoing(me[c], n))
      BY <3>1 DEF Chats
    <3>3. m = n
      <4>1. /\ heard[c] \in Seq(FirstFrames \cup Requests)
            /\ heard'[c] = Append(heard[c], m) /\ heard'[c] = Append(heard[c], n)
        BY <3>2, HasEntries DEF Entries, HandleFrame
      <4>2. /\ Append(heard[c], m)[Len(heard[c]) + 1] = m
            /\ Append(heard[c], n)[Len(heard[c]) + 1] = n
        BY <4>1, Appended
      <4> QED  BY <4>1, <4>2
    <3> QED  BY <3>1, <3>2, <3>3
  <2> QED  BY <2>1, <2>2, <2>3
<1>7. RoutedKinds'
  <2>1. fanout' = fanout
    BY <1>2 DEF Carried
  <2>2. ASSUME NEW e \in InFlight', e.type = "RouteMessage"
        PROVE  e.message.type \in {"NewMessage", "AddedToGroup"}
    <3>1. CASE e \in InFlight
      BY <2>2, <3>1 DEF RoutedKinds
    <3>2. CASE e \notin InFlight
      <4>1. steps # <<>> /\ steps[1].do = "toRouter" /\ e = steps[1].event
        BY <1>1, <3>2, FlightOfStep
      <4>2. steps[1] \in NewAwait(c)
        BY <1>1, <4>1 DEF StepShape
      <4>3. e.message.type = "AddedToGroup" \/ Chats(c, e)
        BY <2>2, <4>1, <4>2 DEF NewAwait
      <4>4. Chats(c, e) => e.message.type = "NewMessage"
        BY DEF Chats, RouteMessage, Outgoing, NewMessage
      <4> QED  BY <4>3, <4>4
    <3> QED  BY <3>1, <3>2
  <2> QED  BY <2>1, <2>2 DEF RoutedKinds
<1>8. TruthTold'
  BY <1>1, <1>2, <1>3, TruthByActor
<1> QED  BY <1>5, <1>6, <1>7, <1>8

\* The router turns an event into a task or a row into nothing new, and moves
\* its sends into the channels.
LEMMA HistoryByRouter ==
  ASSUME TypeInv, HistoryInv, RouterTask
  PROVE  HistoryInv'
<1> USE DEF HistoryInv
<1>1. UNCHANGED <<me, heard, wire, script>>
  BY QueueOfRouter
<1>2. Accepted' = Accepted
  BY <1>1 DEF Accepted, Range
<1>3. RowsHonest' /\ OneRowPerBody'
  BY <1>2, RowsOfRouter DEF RowsHonest, OneRowPerBody
<1>4. InFlight' \subseteq InFlight
  BY <1>1, QueueOfRouter DEF InFlight, Posted, AboutToPost, Awaiting, Range
<1>5. \A i \in DOMAIN fanout' : fanout'[i].msg.type \in {"Presence", "NewMessage", "AddedToGroup"}
  <2>1. CASE Deliver
    <3>1. fanout \in Seq(Delivery) /\ fanout # <<>> /\ fanout' = Tail(fanout)
      BY <2>1 DEF Deliver, TypeInv, TypeOK, RouterOK
    <3>2. \A i \in DOMAIN fanout' : i + 1 \in DOMAIN fanout /\ fanout'[i] = fanout[i + 1]
      BY <3>1
    <3> QED  BY <3>2 DEF RoutedKinds
  <2>2. CASE ~Deliver
    <3> SUFFICES ASSUME NEW i \in DOMAIN fanout'
                 PROVE  fanout'[i].msg.type \in {"Presence", "NewMessage", "AddedToGroup"}
      OBVIOUS
    <3>1. CASE fanout'[i].msg.type = "Presence"
      BY <3>1
    <3>2. CASE /\ rxq # <<>> /\ Head(rxq).type = "RouteMessage"
               /\ fanout'[i].msg = Head(rxq).message
      <4>1. Head(rxq) \in InFlight
        BY <2>2, <3>2, QueueOfRouter DEF InFlight
      <4> QED  BY <3>2, <4>1 DEF RoutedKinds
    <3> QED  BY <2>2, <3>1, <3>2, WhatIsSent
  <2> QED  BY <2>1, <2>2
<1>6. RoutedKinds'
  BY <1>4, <1>5 DEF RoutedKinds
<1>7. TruthTold'
  <2>1. \A c \in Conn : TrueMessage(c)' = TrueMessage(c) /\ TrueAwait(c)' = TrueAwait(c)
    <3>1. messages' = messages
      BY DEF RouterTask, RouterStep, OnUserConnected, OnUserDisconnected, OnUserJoinedGroup,
             OnRouteMessage, Deliver, dbVars
    <3> QED  BY <1>1, <1>2, <3>1 DEF TrueMessage, TrueAwait, TrueBatch
  <2>2. ASSUME NEW c \in Conn
        PROVE  chan'[c] \in Seq(TrueMessage(c))
    <3>1. chan'[c] = chan[c] \/ \E m \in TrueMessage(c) : chan'[c] = Append(chan[c], m)
      <4>1. CASE Deliver
        <5>1. fanout \in Seq(Delivery) /\ fanout # <<>>
          BY <4>1 DEF Deliver, TypeInv, TypeOK, RouterOK
        <5>2. Head(fanout) \in Delivery /\ Head(fanout) = fanout[1] /\ 1 \in DOMAIN fanout
          BY <5>1
        <5>3. Head(fanout).msg \in TrueMessage(c)
          BY <5>2 DEF RoutedKinds, TrueMessage, Delivery
        <5> QED  BY <4>1, <5>3, HasEntries DEF Entries, Deliver
      <4>2. CASE ~Deliver
        BY <4>2 DEF RouterTask, RouterStep, OnUserConnected, OnUserDisconnected,
                    OnUserJoinedGroup, OnRouteMessage, chanVars
      <4> QED  BY <4>1, <4>2
    <3> QED  BY <3>1, AppendTypes DEF TruthTold
  <2> QED  BY <1>1, <2>1, <2>2 DEF TruthTold
<1> QED  BY <1>3, <1>6, <1>7

LEMMA HistoryInit == Init => HistoryInv
<1> SUFFICES ASSUME Init PROVE HistoryInv
  OBVIOUS
<1> USE DEF Init, DbInit, RouterInit, ConnInit
<1>1. InFlight = {}
  BY DEF InFlight, Posted, AboutToPost, Awaiting, Range
<1>2. Rows = {}
  BY <1>1 DEF Rows, Chatting
<1> QED  BY <1>1, <1>2 DEF HistoryInv, RowsHonest, OneRowPerBody, RoutedKinds, TruthTold

LEMMA HistoryNext ==
  TypeInv /\ Founded /\ PostsFirst /\ SessionInv /\ HistoryInv /\ [Next]_vars => HistoryInv'
<1> SUFFICES ASSUME TypeInv, Founded, PostsFirst, SessionInv, HistoryInv, [Next]_vars
             PROVE  HistoryInv'
  OBVIOUS
<1> USE DEF HistoryInv
<1>1. CASE RouterTask
  BY <1>1, HistoryByRouter
<1>2. ASSUME NEW c \in Conn, Actor(c) \/ Client(c) PROVE HistoryInv'
  BY <1>2, HistoryByActor
\* Whatever else happens, the rows that are left and what was told stay true.
<1>3. ASSUME UNCHANGED <<me, heard, wire>>, Rows' \subseteq Rows, InFlight' \subseteq InFlight,
             messages \subseteq messages',
             UNCHANGED fanout \/ fanout' = <<>>,
             UNCHANGED <<chan, script>> \/ \A c \in Conn : chan'[c] = <<>> /\ script'[c] = <<>>
      PROVE  HistoryInv'
  <2>1. Accepted' = Accepted
    BY <1>3 DEF Accepted, Range
  <2>2. RowsHonest' /\ OneRowPerBody'
    BY <1>3, <2>1 DEF RowsHonest, OneRowPerBody
  <2>3. RoutedKinds'
    BY <1>3 DEF RoutedKinds
  <2>4. \A c \in Conn : TrueMessage(c) \subseteq TrueMessage(c)' /\ TrueAwait(c) \subseteq TrueAwait(c)'
    BY <1>3, <2>1, TruthStays
  <2>5. \A c \in Conn : /\ <<>> \in Seq(TrueMessage(c)') /\ <<>> \in Seq(TrueAwait(c)')
                        /\ wire[c] \in Seq(TrueMessage(c)') /\ chan[c] \in Seq(TrueMessage(c)')
                        /\ script[c] \in Seq(TrueAwait(c)')
    BY <2>4, SeqSubset DEF TruthTold
  <2>6. TruthTold'
    BY <1>3, <2>5 DEF TruthTold
  <2> QED  BY <2>2, <2>3, <2>6
<1>4. CASE Crash
  <2>1. InFlight' = {} /\ UNCHANGED <<me, heard, wire, messages>>
    BY <1>4 DEF Crash, InFlight, Posted, AboutToPost, Awaiting, Range, dbVars
  <2>2. Rows' \subseteq Rows
    BY <1>4, <2>1 DEF Rows, Chatting, Crash
  <2> QED  BY <1>3, <1>4, <2>1, <2>2 DEF Crash
<1>5. CASE SaveTasks
  <2>1. UNCHANGED <<me, heard, wire, script, chan, fanout, rxq>>
    BY <1>5 DEF SaveTasks, SaveMessage, connVars, chanVars
  <2>2. InFlight' = InFlight
    BY <2>1 DEF InFlight, Posted, AboutToPost, Awaiting, Range
  <2>3. messages \subseteq messages'
    BY <1>5 DEF SaveTasks, SaveMessage, InsertMessage, dbVars
  <2> QED  BY <1>3, <1>5, <2>1, <2>2, <2>3, RowsOfSave
<1>6. CASE Tick \/ UNCHANGED vars
  <2>1. UNCHANGED <<me, heard, wire, script, chan, fanout, rxq, saves, messages>>
    BY <1>6 DEF Tick, vars, connVars, chanVars, routerVars, dbVars
  <2>2. InFlight' = InFlight
    BY <2>1 DEF InFlight, Posted, AboutToPost, Awaiting, Range
  <2>3. Rows' = Rows
    BY <2>1, <2>2 DEF Rows, Chatting
  <2> QED  BY <1>3, <2>1, <2>2, <2>3
<1> QED  BY <1>1, <1>2, <1>4, <1>5, <1>6 DEF Next

\* Every batch on a wire is a true one.
LEMMA BatchesTrue ==
  ASSUME HistoryInv, NEW c \in Conn, NEW batch \in Batches(c)
  PROVE  TrueBatch(c, batch)
<1>1. PICK m \in Range(wire[c]) : m.type = "SyncBatch" /\ batch = m.batch
  BY DEF Batches
<1>2. m \in TrueMessage(c)
  BY DEF HistoryInv, TruthTold, Range
<1> QED  BY <1>1, <1>2 DEF TrueMessage

\* Every row is made of one accepted message, and only true batches are told.
THEOREM HistoryHolds == Spec => []HistoryInv
BY TypesHold, SubscriptionInit, FoundedNext, SessionInit, SessionNext, PostsFirstNext,
   HistoryInit, HistoryNext, BackedInit, PTL DEF Spec

\* Every message a batch gives back was accepted from the user it names, for
\* the target and with the payload it shows, through the event, the save task
\* and the columns of the table.
THEOREM HistoryIsFaithful == Spec => []HistoryFaithful
<1>1. HistoryInv => HistoryFaithful
  BY BatchesTrue DEF HistoryFaithful, TrueBatch
<1> QED  BY HistoryHolds, <1>1, PTL

\* A message appears twice in a batch only when its reader sent it to a group,
\* because no message has two rows and only members multiply a row in the join.
THEOREM OnlyOwnMessagesRepeat == Spec => []RepeatsOnlyOwnGroupMessages
<1>1. HistoryInv => RepeatsOnlyOwnGroupMessages
  BY BatchesTrue DEF RepeatsOnlyOwnGroupMessages, TrueBatch
<1> QED  BY HistoryHolds, <1>1, PTL

-----------------------------------------------------------------------------
(* The order of history.                                                   *)

LEMMA TimestampNat == \A t \in Timestamp : t \in Nat
BY ClockAssumption DEF Timestamp

\* Only an actor puts a message on its way, and no task, tick or crash makes a row.
LEMMA ChattingLeft ==
  ASSUME TypeInv, RouterTask \/ SaveTasks \/ Tick \/ Crash \/ UNCHANGED vars
  PROVE  Chatting' \subseteq Chatting
<1>1. CASE RouterTask
  <2>1. UNCHANGED script /\ Posted' \subseteq Posted
    BY <1>1, QueueOfRouter DEF Posted
  <2> QED  BY <2>1 DEF Chatting, InFlight, AboutToPost, Awaiting
<1>2. CASE Crash
  BY <1>2 DEF Crash, Chatting, InFlight, Posted, AboutToPost, Awaiting, Range
<1>3. CASE SaveTasks \/ Tick \/ UNCHANGED vars
  <2>1. UNCHANGED <<script, rxq>>
    BY <1>3 DEF SaveTasks, SaveMessage, Tick, vars, connVars, routerVars
  <2> QED  BY <2>1 DEF Chatting, InFlight, Posted, AboutToPost, Awaiting, Range
<1> QED  BY <1>1, <1>2, <1>3

LEMMA RowsLeft ==
  ASSUME TypeInv, RouterTask \/ SaveTasks \/ Tick \/ Crash \/ UNCHANGED vars
  PROVE  Rows' \subseteq Rows
<1>1. CASE RouterTask
  BY <1>1, RowsOfRouter
<1>2. CASE SaveTasks
  BY <1>2, RowsOfSave
<1>3. CASE Tick \/ Crash \/ UNCHANGED vars
  <2>1. saves' \subseteq saves /\ messages' = messages
    BY <1>3 DEF Tick, Crash, vars, routerVars, dbVars
  <2> QED  BY <1>3, <2>1, ChattingLeft DEF Rows
<1> QED  BY <1>1, <1>2, <1>3

\* The row a sender makes carries the second in which its frame was handled.
LEMMA StampOfRow ==
  ASSUME NEW c, NEW e, Chats(c, e)
  PROVE  \E m \in Requests :
           /\ Sends(m) /\ FreshBody(m) /\ HandleFrame(c, m)
           /\ RowOf(e).at = clock /\ RowOf(e).body = m.body
BY DEF Chats, RowOf, SavedRow, RouteMessage, Outgoing, NewMessage

\* A row of its own message is the only one that a new frame can bring.
LEMMA StampByActor ==
  ASSUME TypeInv, Founded, PostsFirst, IdentityInv, RowsHonest, StampInv,
         NEW c \in Conn, Actor(c) \/ Client(c)
  PROVE  StampInv'
<1>1. PICK steps : StepShape(c, steps)
  BY ShapeOfStep
<1>2. Carried(c) /\ \A d \in Conn \ {c} : Aside(d)
  BY CarriedByStep, OthersStand
<1>3. \A row \in Rows' \ Rows : \E e : Chats(c, e) /\ row = RowOf(e)
  BY <1>1, <1>2, RowsOfStep
<1>4. clock' = clock /\ clock \in Nat
  BY TimestampNat DEF Actor, Client, TypeInv, TypeOK
<1>5. heard[c] \in Seq(FirstFrames \cup Requests)
  BY HasEntries DEF Entries
<1>6. ASSUME NEW d \in Conn, NEW k \in SentAt(d), NEW l \in SentAt(d), k < l
      PROVE  Earlier(d, k, l)
  BY <1>6 DEF StampInv
<1>7. \A row \in Rows' : row \in Rows \/ row.at = clock
  BY <1>3, StampOfRow
<1>8. \A row \in Rows' : row.at \in Nat /\ row.at <= clock'
  BY <1>4, <1>7 DEF StampInv
<1>9. ASSUME NEW d \in Conn, NEW k \in SentAt(d)', NEW l \in SentAt(d)', k < l
      PROVE  Earlier(d, k, l)'
  <2> SUFFICES ASSUME NEW r \in Rows', NEW s \in Rows',
                      r.body = heard'[d][k].body, s.body = heard'[d][l].body
               PROVE  r.at <= s.at
    BY DEF Earlier
  <2>1. k \in DOMAIN heard'[d] /\ l \in DOMAIN heard'[d] /\ Sends(heard'[d][k]) /\ Sends(heard'[d][l])
    BY DEF SentAt
  <2>2. CASE s \notin Rows
    BY <1>4, <1>7, <1>8, <2>2
\* The earlier of the two frames was read before, so no new row has its body.
  <2>3. CASE s \in Rows /\ k \in SentAt(d) /\ heard'[d][k] = heard[d][k] /\ r \notin Rows
    <3>1. PICK m \in Requests : FreshBody(m) /\ Sends(m) /\ r.body = m.body
      BY <1>3, <2>3, StampOfRow
    <3>2. <<d, k>> \in Heard("SendMessage")
      BY <2>3 DEF SentAt, Sends, Heard
    <3>3. heard[d][k].body # m.body
      BY <3>1, <3>2 DEF FreshBody, Sends
    <3> QED  BY <2>3, <3>1, <3>3
  <2>4. CASE /\ s \in Rows /\ r \in Rows /\ k \in SentAt(d) /\ heard'[d][k] = heard[d][k]
             /\ l \in SentAt(d) /\ heard'[d][l] = heard[d][l]
    BY <1>6, <1>9, <2>4 DEF Earlier
\* The later of the two frames is the one just read: its body has no row yet.
  <2>5. CASE s \in Rows /\ ~(l \in SentAt(d) /\ heard'[d][l] = heard[d][l])
    <3>1. d = c /\ heard'[c] # heard[c]
      BY <1>2, <2>1, <2>5 DEF Aside, SentAt
    <3>2. ASSUME NEW m, FirstFrame(c, m)
          PROVE  FALSE
      <4>1. heard[c] = <<>>
        BY <3>2 DEF FirstFrame, IdentityInv, Asked
      <4>2. heard'[c] = Append(<<>>, m)
        BY <3>2, <4>1, HasEntries DEF FirstFrame, Entries
      <4>3. DOMAIN heard'[c] = {1}
        BY <4>2
      <4> QED  BY <1>9, <2>1, <3>1, <4>3
    <3>3. PICK m \in Requests : FreshBody(m) /\ HandleFrame(c, m)
      BY <1>2, <3>1, <3>2 DEF Carried
    <3>4. heard'[c] = Append(heard[c], m)
      BY <3>3, HasEntries DEF HandleFrame, Entries
    <3>5. heard'[c][l] = m
      BY <1>5, <2>1, <2>5, <3>1, <3>4 DEF SentAt
    <3> QED  BY <2>1, <2>5, <3>1, <3>3, <3>5, RowsNotFresh
  <2>6. (l \in SentAt(d) /\ heard'[d][l] = heard[d][l]) => (k \in SentAt(d) /\ heard'[d][k] = heard[d][k])
    <3>1. CASE d # c
      BY <1>2, <2>1, <3>1 DEF Aside, SentAt
    <3>2. CASE d = c
      <4>1. heard'[c] = heard[c] \/ \E m : heard'[c] = Append(heard[c], m)
        BY <1>2, HasEntries DEF Entries, Carried, FirstFrame, HandleFrame
      <4> QED  BY <1>5, <1>9, <2>1, <3>2, <4>1 DEF SentAt
    <3> QED  BY <3>1, <3>2
  <2> QED  BY <2>2, <2>3, <2>4, <2>5, <2>6
<1> QED  BY <1>8, <1>9 DEF StampInv

LEMMA StampInit == Init => StampInv
<1> SUFFICES ASSUME Init PROVE StampInv
  OBVIOUS
<1> USE DEF Init, DbInit, RouterInit, ConnInit
<1>1. Rows = {}
  BY DEF Rows, Chatting, InFlight, Posted, AboutToPost, Awaiting, Range
<1> QED  BY <1>1 DEF StampInv, Earlier

LEMMA StampNext ==
  TypeInv /\ Founded /\ PostsFirst /\ IdentityInv /\ HistoryInv /\ StampInv /\ [Next]_vars => StampInv'
<1> SUFFICES ASSUME TypeInv, Founded, PostsFirst, IdentityInv, HistoryInv, StampInv, [Next]_vars
             PROVE  StampInv'
  OBVIOUS
<1>1. ASSUME NEW c \in Conn, Actor(c) \/ Client(c) PROVE StampInv'
  BY <1>1, StampByActor DEF HistoryInv
<1>2. CASE RouterTask \/ SaveTasks \/ Tick \/ Crash \/ UNCHANGED vars
  <2>1. heard' = heard
    BY <1>2 DEF RouterTask, SaveTasks, Tick, Crash, vars, connVars
  <2>2. clock \in Nat /\ clock' \in Nat /\ clock <= clock'
    BY <1>2, TimestampNat DEF RouterTask, SaveTasks, Tick, Crash, vars, TypeInv, TypeOK
  <2>3. Rows' \subseteq Rows
    BY <1>2, RowsLeft
  <2> QED  BY <2>1, <2>2, <2>3 DEF StampInv, SentAt, Earlier
<1> QED  BY <1>1, <1>2 DEF Next

\* Two messages of one connection come back from history in the order in which
\* it sent them, unless they were sent in the same second: each is stamped by
\* the actor that read it, and neither the router's queue, the order in which
\* the save tasks run, nor the reader's query changes a stamp.
THEOREM HistoryKeepsSendOrder == Spec => []HistoryInSendOrder
<1>1. TypeInv /\ HistoryInv /\ StampInv => HistoryInSendOrder
  <2> SUFFICES ASSUME TypeInv, HistoryInv, StampInv,
                      NEW c \in Conn, NEW d \in Conn, NEW batch \in Batches(d),
                      NEW i \in DOMAIN batch, NEW j \in DOMAIN batch,
                      NEW k \in SentAt(c), NEW l \in SentAt(c), i < j, l < k,
                      batch[i].body = heard[c][k].body, batch[j].body = heard[c][l].body
               PROVE  batch[i].at = batch[j].at
    BY DEF HistoryInSendOrder
  <2>1. TrueBatch(d, batch)
    BY BatchesTrue
  <2>2. PICK r \in messages, s \in messages : batch[i] = RowMessage(r) /\ batch[j] = RowMessage(s)
    BY <2>1 DEF TrueBatch
  <2>3. /\ batch[i].at = r.at /\ batch[i].body = r.body
        /\ batch[j].at = s.at /\ batch[j].body = s.body
    BY <2>2 DEF RowMessage, NewMessage
  <2>4. r.at <= s.at
    BY <2>1, <2>3 DEF TrueBatch
  <2>5. r \in Rows /\ s \in Rows
    BY <2>2 DEF Rows
  <2>6. s.at <= r.at
    BY <2>3, <2>5 DEF StampInv, Earlier
  <2> QED  BY <2>3, <2>4, <2>5, <2>6 DEF StampInv
<1> QED  BY TypesHold, BackedInit, FoundedNext, SessionInit, SessionNext, PostsFirstNext,
            AccountsStayUnique, IdentityInit, IdentityNext, HistoryHolds, StampInit, StampNext,
            <1>1, PTL DEF Spec

-----------------------------------------------------------------------------
(* From the frame to the row.                                              *)

\* A message is accepted when its frame is handled, and at no other time.
LEMMA AcceptedByStep ==
  ASSUME TypeInv, SessionInv, IdentityInv, NEW c \in Conn, Actor(c) \/ Client(c),
         LifeStep(c), NEW a \in Accepted', a \notin Accepted
  PROVE  \E m \in Requests :
           Sends(m) /\ HandleFrame(c, m) /\ a = [from |-> me[c], frame |-> m]
<1>1. PICK d \in Conn : \E i \in DOMAIN heard'[d] :
        me'[d] # NoUser /\ Sends(heard'[d][i]) /\ a = [from |-> me'[d], frame |-> heard'[d][i]]
  BY DEF Accepted, Range
<1>2. PICK i \in DOMAIN heard'[d] :
        me'[d] # NoUser /\ Sends(heard'[d][i]) /\ a = [from |-> me'[d], frame |-> heard'[d][i]]
  BY <1>1
<1>3. ~(me'[d] = me[d] /\ i \in DOMAIN heard[d] /\ heard'[d][i] = heard[d][i])
  BY <1>2, WhatIsAccepted
<1>4. d = c
  BY <1>2, <1>3, OthersStand DEF Aside
<1>5. heard[c] \in Seq(FirstFrames \cup Requests)
  BY HasEntries DEF Entries
<1>6. CASE heard'[c] = heard[c]
  <2>1. phase[c] = "authenticating"
    BY <1>2, <1>3, <1>4, <1>6 DEF LifeStep
  <2>2. heard[c] = <<>> \/ \E q \in AuthAwait : heard[c] = <<FrameOf(q)>>
    BY <2>1 DEF IdentityInv, Asked
  <2>3. heard[c] = <<>> \/ \A j \in DOMAIN heard[c] : heard[c][j].type # "SendMessage"
    <3>1. \A q : FrameOf(q).type # "SendMessage"
      BY DEF FrameOf, Login, Register
    <3> QED  BY <2>2, <3>1
  <2> QED  BY <1>2, <1>4, <1>6, <2>3 DEF Sends
<1>7. ASSUME NEW m, FirstFrame(c, m)
      PROVE  FALSE
  BY <1>2, <1>4, <1>7 DEF FirstFrame, SessionInv, NotYetKnown
<1>8. ASSUME NEW m \in Requests, HandleFrame(c, m)
      PROVE  Sends(m) /\ a = [from |-> me[c], frame |-> m]
  <2>1. heard'[c] = Append(heard[c], m) /\ me'[c] = me[c]
    BY <1>5, <1>8, HasEntries DEF HandleFrame, Entries
  <2>2. /\ DOMAIN heard'[c] = 1 .. Len(heard[c]) + 1 /\ DOMAIN heard[c] = 1 .. Len(heard[c])
        /\ \A j \in DOMAIN heard[c] : heard'[c][j] = heard[c][j]
        /\ heard'[c][Len(heard[c]) + 1] = m
        /\ Len(heard[c]) \in Nat
    BY <1>5, <2>1, Appended
  <2>3. i = Len(heard[c]) + 1
    BY <1>2, <1>3, <1>4, <2>1, <2>2
  <2> QED  BY <1>2, <1>4, <2>1, <2>2, <2>3
<1> QED  BY <1>6, <1>7, <1>8, CarriedByStep DEF Carried

\* It is on its way to the router from then on.
LEMMA AcceptedHasRow ==
  ASSUME TypeInv, NEW c \in Conn, NEW m \in Requests, Sends(m), HandleFrame(c, m)
  PROVE  \E row \in Rows' : row.body = m.body
<1> DEFINE e == RouteMessage(me[c], m.target, Outgoing(me[c], m))
<1>1. script'[c] = <<ToRouter(e)>>
  BY HasEntries DEF Entries, HandleFrame, Handler, SendSteps, Sends
<1>2. e \in InFlight'
  <2>1. Awaiting(c, "toRouter")' /\ script'[c][1].event = e
    BY <1>1 DEF Awaiting, ToRouter
  <2> QED  BY <2>1 DEF InFlight, AboutToPost
<1>3. /\ e.type = "RouteMessage" /\ Live(e.message)
      /\ RowOf(e).body = m.body
  BY DEF RouteMessage, Outgoing, NewMessage, Live, RowOf, SavedRow
<1>4. RowOf(e) \in Rows'
  BY <1>2, <1>3 DEF Rows, Chatting, RowOf
<1> QED  BY <1>3, <1>4

\* A message that is a row, or the event of one, is kept.
LEMMA KeptIsRow == \A b : Kept(b) <=> \E row \in Rows : row.body = b
<1>1. \A e : SavedRow(e.from, e.target, e.message).body = e.message.body
  BY DEF SavedRow
<1> QED  BY <1>1 DEF Kept, Rows, Chatting

LEMMA OnlyFailures ==
  ASSUME TypeInv, Founded, PostsFirst, SessionInv, IdentityInv, [Next]_vars
  PROVE  [HandsOver]_vars
<1>1. \A b : Kept(b)' <=> \E row \in Rows' : row.body = b
  <2>1. \A e : SavedRow(e.from, e.target, e.message).body = e.message.body
    BY DEF SavedRow
  <2> QED  BY <2>1 DEF Kept, Rows, Chatting
<1> SUFFICES ASSUME NEW a \in Accepted',
                    ~(\E row \in Rows' : row.body = a.frame.body),
                    a \in Accepted => \E row \in Rows : row.body = a.frame.body
             PROVE  crashes' # crashes \/ SaveFails(a.frame.body)
  BY <1>1, KeptIsRow DEF HandsOver
<1>2. ASSUME NEW c \in Conn, Actor(c) \/ Client(c)
      PROVE  FALSE
  <2>1. PICK steps : StepShape(c, steps)
    BY <1>2, ShapeOfStep
  <2>2. LifeStep(c) /\ Carried(c)
    BY <1>2, LifeOfStep, CarriedByStep DEF SessionInv
  <2>3. Rows \subseteq Rows'
    BY <2>1, <2>2, RowsOfStep
  <2>4. a \notin Accepted
    BY <2>3
  <2>5. PICK m \in Requests :
          Sends(m) /\ HandleFrame(c, m) /\ a = [from |-> me[c], frame |-> m]
    BY <1>2, <2>2, <2>4, AcceptedByStep
  <2> QED  BY <2>5, AcceptedHasRow
<1>3. CASE RouterTask \/ SaveTasks \/ Tick \/ Crash \/ UNCHANGED vars
  <2>1. UNCHANGED <<me, heard>>
    BY <1>3 DEF RouterTask, SaveTasks, Tick, Crash, vars, connVars
  <2>2. a \in Accepted
    BY <2>1 DEF Accepted, Range
  <2>3. PICK row \in Rows : row.body = a.frame.body /\ row \notin Rows'
    BY <2>2
  <2>4. CASE RouterTask
    BY <2>3, <2>4, RowsOfRouter
  <2>5. CASE SaveTasks
    BY <2>3, <2>5, RowsOfSave DEF SaveFails, Rows
  <2>6. CASE Crash
    BY <2>6 DEF Crash, TypeInv, TypeOK
  <2>7. CASE Tick \/ UNCHANGED vars
    <3>1. UNCHANGED <<script, rxq, saves, messages>>
      BY <2>7 DEF Tick, vars, connVars, routerVars, dbVars
    <3>2. Rows' = Rows
      BY <3>1 DEF Rows, Chatting, InFlight, Posted, AboutToPost, Awaiting, Range
    <3> QED  BY <2>3, <3>2
  <2> QED  BY <1>3, <2>4, <2>5, <2>6, <2>7
<1> QED  BY <1>2, <1>3 DEF Next

\* Whatever fails and whoever leaves: a message a client sent is on its way to
\* the router, in a save task or in the table until the process dies or its
\* INSERT fails; no actor, queue, router or task drops it.
THEOREM OnlyFailuresLoseAMessage == Spec => OnlyFailuresLose
<1>1. TypeInv /\ Founded /\ PostsFirst /\ SessionInv /\ IdentityInv /\ [Next]_vars => [HandsOver]_vars
  BY OnlyFailures
<1> QED  BY TypesHold, BackedInit, FoundedNext, SessionInit, SessionNext, PostsFirstNext,
            AccountsStayUnique, IdentityInit, IdentityNext, <1>1, PTL DEF Spec, OnlyFailuresLose
===============================================================================
