------------------------------ MODULE OrderProofs ------------------------------
(***************************************************************************)
(* The order in which clients see messages and answers, for every value of *)
(* the constants.  A message that is posted stands in one line for each    *)
(* client: the router's queue, its sends, the channel, the hands of the    *)
(* actor, the wire.  Every step moves the lines forward and only a post    *)
(* makes them longer, at their end.  An answer stands in a line of its     *)
(* client only, which a request makes longer.                              *)
(***************************************************************************)
EXTENDS HistoryProofs

-----------------------------------------------------------------------------
(* The order of the messages.                                              *)

\* The message with body b is on its way to the client of d, or has arrived, at
\* place p: on the wire, in the hands of the actor, in its channel, among the
\* sends of the router, or in the router's queue, and how far behind in it.
Stands(d, p, b) ==
  \/ /\ p[1] = 1 /\ p[2] \in DOMAIN wire[d]
     /\ Live(wire[d][p[2]]) /\ wire[d][p[2]].body = b
  \/ /\ p = <<2, 1>> /\ Awaiting(d, "toClient")
     /\ Live(Head(script[d]).msg) /\ Head(script[d]).msg.body = b
  \/ /\ p[1] = 3 /\ p[2] \in DOMAIN chan[d]
     /\ Live(chan[d][p[2]]) /\ chan[d][p[2]].body = b
  \/ /\ p[1] = 4 /\ p[2] \in DOMAIN fanout /\ fanout[p[2]].to = d
     /\ Live(fanout[p[2]].msg) /\ fanout[p[2]].msg.body = b
  \/ /\ p[1] = 5 /\ p[2] \in DOMAIN rxq /\ rxq[p[2]].type = "RouteMessage"
     /\ Live(rxq[p[2]].message) /\ rxq[p[2]].message.body = b

Place == (1 .. 5) \X (Nat \ {0})

Lined(d, b) == \E p \in Place : Stands(d, p, b)

Ahead(d, a, b) == \E p, q \in Place : Nearer(p, q) /\ Stands(d, p, a) /\ Stands(d, q, b)

\* A chat message, or news of a user, is written only as what the channel
\* brought, so the only one in the hands of an actor is the first thing it awaits.
NotRouted == {x \in Await :
  x.do \in {"toSelf", "toClient"} => ~Live(x.msg) /\ x.msg.type # "Presence"}

HandsQuiet ==
  \A c \in Conn : script[c] # <<>> =>
    /\ Tail(script[c]) \in Seq(NotRouted)
    /\ Head(script[c]).do = "toSelf" => Head(script[c]) \in NotRouted

\* Who is not let in is not heard again.
OneFrame == \A c \in Conn : me[c] = NoUser => Len(heard[c]) <= 1

\* A body is sent once by all who are let in.
SentOnce ==
  \A c, d \in {e \in Conn : me[e] # NoUser} : \A i \in SentAt(c), j \in SentAt(d) :
    heard[c][i].body = heard[d][j].body => c = d /\ i = j

\* What is in line was sent.
LinesHeard ==
  \A d \in Conn, b \in Body : Lined(d, b) =>
    \E c \in Conn : \E i \in SentAt(c) : heard[c][i].body = b

\* The actor of c is about to post the message with body b.
Posting(c, b) ==
  /\ Awaiting(c, "toRouter")
  /\ LET e == Head(script[c]).event
     IN  e.type = "RouteMessage" /\ Live(e.message) /\ e.message.body = b

\* It is the last message its client sent, and in no line.
Unposted ==
  \A c \in Conn, b \in Body : Posting(c, b) =>
    /\ me[c] # NoUser
    /\ Len(heard[c]) \in SentAt(c) /\ heard[c][Len(heard[c])].body = b
    /\ \A d \in Conn : ~Lined(d, b)

\* The client of c sent a before b.
SentBefore(c, a, b) ==
  \E i, j \in SentAt(c) : i < j /\ heard[c][i].body = a /\ heard[c][j].body = b

\* The lines agree with each other, and with what every client sent.
LinesAgree ==
  \A c, d \in Conn, a, b \in Body :
    Ahead(c, a, b) => ~Ahead(d, b, a) /\ ~SentBefore(d, b, a)

\* The order on the wires is the order of the router's queue, from the moment
\* a message is posted.
OrderInv ==
  /\ HandsQuiet
  /\ OneFrame
  /\ SentOnce
  /\ LinesHeard
  /\ Unposted
  /\ LinesAgree

-----------------------------------------------------------------------------
(* Requests and replies.                                                   *)

\* What an actor awaits when it is about to give an answer.
Answering(a) ==
  a.do = "groupInfo" \/ (a.do \in {"toSelf", "toClient"} /\ IsAnswer(a.msg))

\* An answer for the client of c is at place p: on the wire; or, while the
\* actor is in its loop, in its hands, in its channel, or still to be made of
\* the request at hand.
Owes(c, p) ==
  \/ p[1] = 1 /\ p[2] \in AnsweredAt(c)
  \/ InLoop(c) /\ p[1] = 3 /\ p[2] \in DOMAIN chan[c] /\ IsAnswer(chan[c][p[2]])
  \/ /\ InLoop(c) /\ script[c] # <<>> /\ Answering(Head(script[c]))
     /\ p = IF Head(script[c]).do = "toClient" THEN <<2, 1>> ELSE <<4, 1>>

Owed(c) == {p \in Place : Owes(c, p)}

\* What comes of the await answers the request.
Meets(a, ask) ==
  IF a.do = "groupInfo" THEN ask.type = "FetchGroupInfo" /\ ask.group = a.group
                        ELSE Answers(a.msg, ask)

\* The answer at place p is one to the k-th frame.
Fits(c, p, k) ==
  CASE p[1] = 1 -> Answers(wire[c][p[2]], heard[c][k])
    [] p[1] = 3 -> Answers(chan[c][p[2]], heard[c][k])
    [] OTHER -> Meets(Head(script[c]), heard[c][k])

\* The answers are those to the first requests, in their order; in the loop,
\* those to all of them.
Paired(c) ==
  \E ask \in [Owed(c) -> AskedAt(c)] :
    /\ \A p \in Owed(c) : Fits(c, p, ask[p])
    /\ \A p, q \in Owed(c) : Nearer(p, q) => ask[p] < ask[q]
    /\ \A p \in Owed(c), k \in AskedAt(c) : k < ask[p] => \E q \in Owed(c) : ask[q] = k
    /\ InLoop(c) => \A k \in AskedAt(c) : \E p \in Owed(c) : ask[p] = k

\* A handler answers in the first thing it awaits, and nobody else answers.
NoAnswer == {a \in Await : ~Answering(a)}

AnswersFirst == \A c \in Conn : script[c] # <<>> => Tail(script[c]) \in Seq(NoAnswer)

NoAnswerYet == \A c \in Conn : me[c] = NoUser => \A i \in DOMAIN chan[c] : ~IsAnswer(chan[c][i])

\* The channel and the handlers keep the order of the requests.
ReplyInv ==
  /\ AnswersFirst
  /\ NoAnswerYet
  /\ \A c \in Conn : me[c] # NoUser => Paired(c)

-----------------------------------------------------------------------------
(* Lines.                                                                  *)

\* The line of d only moves forward.
Forward(d) ==
  \A a, b \in Body :
    /\ Lined(d, b)' => Lined(d, b)
    /\ Ahead(d, a, b)' => Ahead(d, a, b)

\* It does when each of its places comes from one before, in the same order.
LEMMA MovesForward ==
  ASSUME NEW d \in Conn, NEW g \in [Place -> Place],
         \A p \in Place, b \in Body : Stands(d, p, b)' => Stands(d, g[p], b),
         \A p, q \in Place : (/\ Nearer(p, q)
                              /\ \E a \in Body : Stands(d, p, a)'
                              /\ \E b \in Body : Stands(d, q, b)')
                               => Nearer(g[p], g[q])
  PROVE  Forward(d)
BY DEF Forward, Lined, Ahead

LEMMA StaysForward ==
  ASSUME NEW d \in Conn, \A p \in Place, b \in Body : Stands(d, p, b)' => Stands(d, p, b)
  PROVE  Forward(d)
BY DEF Forward, Lined, Ahead

\* The five parts of a line.
OnWire(d, i, b) == i \in DOMAIN wire[d] /\ Live(wire[d][i]) /\ wire[d][i].body = b

InHand(d, b) ==
  Awaiting(d, "toClient") /\ Live(Head(script[d]).msg) /\ Head(script[d]).msg.body = b

InChannel(d, i, b) == i \in DOMAIN chan[d] /\ Live(chan[d][i]) /\ chan[d][i].body = b

ToBeSent(d, i, b) ==
  /\ i \in DOMAIN fanout /\ fanout[i].to = d
  /\ Live(fanout[i].msg) /\ fanout[i].msg.body = b

Queued(i, b) ==
  /\ i \in DOMAIN rxq /\ rxq[i].type = "RouteMessage"
  /\ Live(rxq[i].message) /\ rxq[i].message.body = b

LEMMA Parts ==
  ASSUME NEW d \in Conn, NEW p \in Place, NEW b
  PROVE  /\ p[1] = 1 => (Stands(d, p, b) <=> OnWire(d, p[2], b))
         /\ p[1] = 2 => (Stands(d, p, b) <=> p = <<2, 1>> /\ InHand(d, b))
         /\ p[1] = 3 => (Stands(d, p, b) <=> InChannel(d, p[2], b))
         /\ p[1] = 4 => (Stands(d, p, b) <=> ToBeSent(d, p[2], b))
         /\ p[1] = 5 => (Stands(d, p, b) <=> Queued(p[2], b))
         /\ p[1] \in 1 .. 5 /\ p[2] \in Nat \ {0} /\ p = <<p[1], p[2]>>
         /\ p[1] = 1 => (Stands(d, p, b)' <=> OnWire(d, p[2], b)')
         /\ p[1] = 2 => (Stands(d, p, b)' <=> p = <<2, 1>> /\ InHand(d, b)')
         /\ p[1] = 3 => (Stands(d, p, b)' <=> InChannel(d, p[2], b)')
         /\ p[1] = 4 => (Stands(d, p, b)' <=> ToBeSent(d, p[2], b)')
         /\ p[1] = 5 => (Stands(d, p, b)' <=> Queued(p[2], b)')
BY DEF Stands, Place, OnWire, InHand, InChannel, ToBeSent, Queued

LEMMA PartAt ==
  ASSUME NEW d \in Conn, NEW b
  PROVE  /\ InHand(d, b) => Stands(d, <<2, 1>>, b)
         /\ \A i \in Nat : InChannel(d, i, b) => Stands(d, <<3, i>>, b)
         /\ \A i \in Nat : ToBeSent(d, i, b) => Stands(d, <<4, i>>, b)
         /\ \A i \in Nat : Queued(i, b) => Stands(d, <<5, i>>, b)
BY DEF Stands, InHand, InChannel, ToBeSent, Queued

-----------------------------------------------------------------------------
(* The actor.                                                              *)

\* A message written was in the hands of the actor, which then holds none.
LEMMA WriteMovesForward ==
  ASSUME TypeInv, HandsQuiet, NEW c \in Conn, WriteToClient(c)
  PROVE  Forward(c)
<1> DEFINE L == Len(wire[c])
           g == [p \in Place |-> IF p = <<1, L + 1>> THEN <<2, 1>> ELSE p]
<1>1. /\ wire[c] \in Seq(ServerMessage) /\ Awaiting(c, "toClient")
      /\ wire'[c] = Append(wire[c], Head(script[c]).msg)
      /\ UNCHANGED <<fanout, rxq>>
      /\ chan'[c] = chan[c] \/ chan'[c] = <<>>
      /\ script'[c] = Tail(script[c]) \/ script'[c] = <<>>
  <2>1. script'[c] = Tail(script[c]) \/ script'[c] = <<>>
    <3>1. Tail(script[c]) \in Seq(Await)
      BY TailTypes, HasEntries DEF Entries, WriteToClient, Awaiting
    <3>2. <<>> \o Tail(script[c]) = Tail(script[c])
      BY <3>1, ConcatEmpty
    <3> QED  BY <3>2, HasEntries DEF Entries, WriteToClient, Return, Continue
  <2> QED  BY <2>1, HasEntries DEF Entries, WriteToClient, Return, routerVars, chanVars
<1>2. \A b : ~InHand(c, b)'
  <2>1. script'[c] # <<>> => Head(script'[c]) \in NotRouted
    BY <1>1, TailTypes DEF HandsQuiet, Awaiting
  <2> QED  BY <2>1 DEF InHand, Awaiting, NotRouted
<1>3. /\ DOMAIN wire'[c] = 1 .. L + 1 /\ DOMAIN wire[c] = 1 .. L /\ L \in Nat
      /\ \A i \in 1 .. L : wire'[c][i] = wire[c][i]
      /\ wire'[c][L + 1] = Head(script[c]).msg
  BY <1>1, Appended
<1>4. \A i, b : OnWire(c, i, b)' => (i \in 1 .. L /\ OnWire(c, i, b)) \/ (i = L + 1 /\ InHand(c, b))
  BY <1>1, <1>3 DEF OnWire, InHand
<1>5. \A i, b : InChannel(c, i, b)' => InChannel(c, i, b)
  BY <1>1 DEF InChannel
<1>6. \A i, b : (ToBeSent(c, i, b)' => ToBeSent(c, i, b)) /\ (Queued(i, b)' => Queued(i, b))
  BY <1>1 DEF ToBeSent, Queued
<1>7. g \in [Place -> Place]
  BY DEF Place
<1>8. ASSUME NEW p \in Place, NEW b \in Body, Stands(c, p, b)'
      PROVE  /\ Stands(c, g[p], b)
             /\ \/ p[1] = 1 /\ p[2] \in 1 .. L /\ g[p] = p
                \/ p[1] = 1 /\ p[2] = L + 1 /\ g[p] = <<2, 1>>
                \/ p[1] \in 3 .. 5 /\ g[p] = p
  <2>1. CASE p = <<1, L + 1>>
    <3>1. p[1] = 1 /\ p[2] = L + 1 /\ OnWire(c, p[2], b)'
      BY <1>8, <2>1, Parts
    <3>2. InHand(c, b)
      BY <1>3, <1>4, <3>1
    <3> QED  BY <2>1, <3>1, <3>2, PartAt
  <2>2. CASE p # <<1, L + 1>>
    BY <1>2, <1>3, <1>4, <1>5, <1>6, <1>8, <2>2, Parts
  <2> QED  BY <2>1, <2>2
<1> HIDE DEF g
<1>9. ASSUME NEW p \in Place, NEW q \in Place, Nearer(p, q),
             NEW a \in Body, NEW b \in Body, Stands(c, p, a)', Stands(c, q, b)'
      PROVE  Nearer(g[p], g[q])
  BY <1>3, <1>8, <1>9, Parts DEF Nearer
<1> QED  BY <1>7, <1>8, <1>9, MovesForward

\* A message received was the first in the channel.
LEMMA ReceiveMovesForward ==
  ASSUME TypeInv, NEW c \in Conn, ReceiveRouted(c)
  PROVE  Forward(c)
<1> DEFINE g == [p \in Place |-> IF p = <<2, 1>> THEN <<3, 1>>
                                 ELSE IF p[1] = 3 THEN <<3, p[2] + 1>> ELSE p]
<1>1. /\ chan[c] \in Seq(ServerMessage) /\ chan[c] # <<>>
      /\ chan'[c] = Tail(chan[c]) /\ script'[c] = <<ToClient(Head(chan[c]))>>
      /\ UNCHANGED <<fanout, rxq, wire>>
  BY HasEntries DEF Entries, ReceiveRouted, routerVars
<1>2. \A i \in DOMAIN chan'[c] : i \in Nat \ {0} /\ i + 1 \in DOMAIN chan[c] /\ chan'[c][i] = chan[c][i + 1]
  BY <1>1
<1>3. Head(chan[c]) = chan[c][1] /\ 1 \in DOMAIN chan[c]
  BY <1>1
<1>4. \A b : InHand(c, b)' => InChannel(c, 1, b)
  BY <1>1, <1>3 DEF InHand, InChannel, ToClient
<1>5. \A i, b : InChannel(c, i, b)' => InChannel(c, i + 1, b)
  BY <1>2 DEF InChannel
<1>6. \A i, b : /\ ToBeSent(c, i, b)' => ToBeSent(c, i, b)
                /\ Queued(i, b)' => Queued(i, b)
                /\ OnWire(c, i, b)' => OnWire(c, i, b)
  BY <1>1 DEF ToBeSent, Queued, OnWire
<1>7. g \in [Place -> Place]
  BY DEF Place
<1>8. ASSUME NEW p \in Place, NEW b \in Body, Stands(c, p, b)'
      PROVE  /\ Stands(c, g[p], b)
             /\ \/ p[1] = 2 /\ p[2] = 1 /\ g[p] = <<3, 1>>
                \/ p[1] = 3 /\ g[p] = <<3, p[2] + 1>>
                \/ p[1] \in {1, 4, 5} /\ g[p] = p
  <2>1. CASE p[1] = 2
    <3>1. p = <<2, 1>> /\ InHand(c, b)'
      BY <1>8, <2>1, Parts
    <3> QED  BY <1>4, <3>1, PartAt
  <2>2. CASE p[1] = 3
    <3>1. g[p] = <<3, p[2] + 1>> /\ p[2] + 1 \in Nat
      BY <2>2, Parts
    <3>2. InChannel(c, p[2] + 1, b)
      BY <1>5, <1>8, <2>2, Parts
    <3> QED  BY <2>2, <3>1, <3>2, PartAt
  <2>3. CASE p[1] \in {1, 4, 5}
    BY <1>6, <1>8, <2>3, Parts
  <2> QED  BY <2>1, <2>2, <2>3, Parts
<1> HIDE DEF g
<1>9. ASSUME NEW p \in Place, NEW q \in Place, Nearer(p, q),
             NEW a \in Body, NEW b \in Body, Stands(c, p, a)', Stands(c, q, b)'
      PROVE  Nearer(g[p], g[q])
  BY <1>8, <1>9, Parts DEF Nearer
<1> QED  BY <1>7, <1>8, <1>9, MovesForward

\* No other step of an actor brings a message nearer, and none to another.
LEMMA OtherStepsStay ==
  ASSUME TypeInv, HandsQuiet, NEW c \in Conn, Carried(c), NEW d \in Conn, NEW i, NEW b,
         \/ d # c /\ Aside(d)
         \/ /\ d = c /\ ~WriteToClient(c) /\ ~ReceiveRouted(c)
            /\ script'[c] = script[c] \/ script'[c] \in Seq(NotRouted)
  PROVE  /\ OnWire(d, i, b)' => OnWire(d, i, b)
         /\ InHand(d, b)' => InHand(d, b)
         /\ InChannel(d, i, b)' => InChannel(d, i, b)
         /\ ToBeSent(d, i, b)' => ToBeSent(d, i, b)
<1>1. wire'[d] = wire[d] /\ fanout' = fanout
  BY DEF Carried, Aside
<1>2. InHand(d, b)' => InHand(d, b)
  <2>1. CASE script'[d] = script[d]
    BY <2>1 DEF InHand, Awaiting
  <2>2. CASE script'[d] \in Seq(NotRouted)
    <3>1. script'[d] # <<>> => Head(script'[d]) \in NotRouted
      BY <2>2, TailTypes
    <3> QED  BY <3>1 DEF InHand, Awaiting, NotRouted
  <2> QED  BY <2>1, <2>2 DEF Aside
<1>3. InChannel(d, i, b)' => InChannel(d, i, b)
  <2>1. CASE chan'[d] = chan[d] \/ chan'[d] = <<>>
    BY <2>1 DEF InChannel
  <2>2. CASE d = c /\ PostToSelf(c)
    <3>1. /\ chan[c] \in Seq(ServerMessage) /\ ~Live(Head(script[c]).msg)
          /\ chan'[c] = Append(chan[c], Head(script[c]).msg)
      BY <2>2, HasEntries DEF Entries, PostToSelf, Awaiting, HandsQuiet, NotRouted
    <3>2. /\ DOMAIN chan'[c] = 1 .. Len(chan[c]) + 1 /\ DOMAIN chan[c] = 1 .. Len(chan[c])
          /\ \A j \in DOMAIN chan[c] : chan'[c][j] = chan[c][j]
          /\ chan'[c][Len(chan[c]) + 1] = Head(script[c]).msg /\ Len(chan[c]) \in Nat
      BY <3>1, Appended
    <3> QED  BY <2>2, <3>1, <3>2 DEF InChannel
  <2> QED  BY <2>1, <2>2 DEF Carried, Aside
<1> QED  BY <1>1, <1>2, <1>3 DEF OnWire, ToBeSent

\* What an actor has to await never holds a chat message, but for the one that
\* its channel brings.
LEMMA ScriptStaysQuiet ==
  ASSUME TypeInv, HandsQuiet, NEW c \in Conn, NEW steps, StepShape(c, steps)
  PROVE  \/ ReceiveRouted(c)
         \/ script'[c] = script[c]
         \/ script'[c] \in Seq(NotRouted)
<1> SUFFICES ASSUME ~ReceiveRouted(c)
             PROVE  script'[c] = script[c] \/ script'[c] \in Seq(NotRouted)
  OBVIOUS
<1>1. NewAwait(c) \subseteq NotRouted
  <2> SUFFICES ASSUME NEW a \in NewAwait(c) PROVE a \in NotRouted
    OBVIOUS
  <2>1. a.do = "toSelf" /\ a.msg.type \in Relayed => a.msg.type = "SyncBatch"
    <3>1. \A x : SyncBatch(x).type = "SyncBatch"
      BY DEF SyncBatch
    <3> QED  BY <3>1 DEF NewAwait, ReadsHistory
  <2> QED  BY <2>1 DEF NewAwait, NotRouted, Live, Relayed
<1>2. steps \in Seq(NotRouted)
  BY <1>1, SeqSubset DEF StepShape
<1>3. CASE script' = [script EXCEPT ![c] = steps]
  BY <1>2, <1>3, HasEntries DEF Entries
<1>4. CASE script[c] # <<>> /\ Continue(c, steps)
  <2>1. script'[c] = steps \o Tail(script[c])
    BY <1>4, HasEntries DEF Entries, Continue
  <2> QED  BY <1>2, <1>4, <2>1, ConcatTypes DEF HandsQuiet
<1> QED  BY <1>3, <1>4 DEF StepShape, Scripted

LEMMA HandsStayQuiet ==
  ASSUME TypeInv, HandsQuiet, NEW c \in Conn, NEW steps, StepShape(c, steps),
         \A d \in Conn \ {c} : Aside(d)
  PROVE  HandsQuiet'
<1>1. ASSUME NEW d \in Conn, script'[d] # <<>>
      PROVE  /\ Tail(script'[d]) \in Seq(NotRouted)
             /\ Head(script'[d]).do = "toSelf" => Head(script'[d]) \in NotRouted
  <2>1. CASE script'[d] = script[d]
    BY <1>1, <2>1 DEF HandsQuiet
  <2>2. CASE script'[d] \in Seq(NotRouted)
    BY <1>1, <2>2, TailTypes
  <2>3. CASE d = c /\ ReceiveRouted(c)
    <3>1. script'[c] = <<ToClient(Head(chan[c]))>>
      BY <2>3, HasEntries DEF Entries, ReceiveRouted
    <3>2. Tail(script'[c]) = <<>> /\ <<>> \in Seq(NotRouted)
      BY <3>1
    <3> QED  BY <2>3, <3>1, <3>2 DEF ToClient
  <2> QED  BY <2>1, <2>2, <2>3, ScriptStaysQuiet DEF Aside
<1> QED  BY <1>1 DEF HandsQuiet

-----------------------------------------------------------------------------
(* The router.                                                             *)

\* A session belongs to one user.
LEMMA SessionsApart ==
  ASSUME SessionInv, NEW u \in Online, NEW v \in Online, sessions[u] = sessions[v]
  PROVE  u = v
BY DEF SessionInv, OwnSessions

LEMMA OneSend ==
  ASSUME TypeInv, NEW u, NEW m \in ServerMessage
  PROVE  /\ SendTo(u, m) \in Seq(Delivery) /\ Len(SendTo(u, m)) \in {0, 1}
         /\ \A i \in DOMAIN SendTo(u, m) : u \in Online /\ SendTo(u, m)[i].to = sessions[u]
<1>1. CASE u \in Online
  <2>1. To(sessions[u], m) \in Delivery /\ To(sessions[u], m).to = sessions[u]
    BY <1>1 DEF To, Delivery, Online, TypeInv, TypeOK, RouterOK
  <2> QED  BY <1>1, <2>1 DEF SendTo
<1>2. CASE u \notin Online
  BY <1>2 DEF SendTo
<1> QED  BY <1>1, <1>2

\* The message of an event is sent once to a connection.
LEMMA SentApart ==
  ASSUME TypeInv, SessionInv, NEW from \in UserId, NEW t \in Target, NEW m \in ServerMessage,
         NEW f \in Fanouts(from, t, m), NEW i \in DOMAIN f, NEW j \in DOMAIN f, f[i].to = f[j].to
  PROVE  i = j
<1>1. CASE t.kind = "user"
  <2> DEFINE back == IF from # t.user THEN SendTo(from, m) ELSE <<>>
  <2>1. f = SendTo(t.user, m) \o back
    BY <1>1 DEF Fanouts, PrivateSends
  <2>2. /\ SendTo(t.user, m) \in Seq(Delivery) /\ Len(SendTo(t.user, m)) \in {0, 1}
        /\ \A k \in DOMAIN SendTo(t.user, m) :
             t.user \in Online /\ SendTo(t.user, m)[k].to = sessions[t.user]
    BY OneSend
  <2>3. /\ back \in Seq(Delivery) /\ Len(back) \in {0, 1}
        /\ \A k \in DOMAIN back :
             from # t.user /\ from \in Online /\ back[k].to = sessions[from]
    BY OneSend
  <2> HIDE DEF back
  <2>4. /\ DOMAIN f = 1 .. Len(SendTo(t.user, m)) + Len(back)
        /\ \A k \in DOMAIN f : f[k] = IF k <= Len(SendTo(t.user, m)) THEN SendTo(t.user, m)[k]
                                      ELSE back[k - Len(SendTo(t.user, m))]
    BY <2>1, <2>2, <2>3
  <2>5. ~(t.user \in Online /\ from \in Online /\ from # t.user /\ sessions[t.user] = sessions[from])
    BY SessionsApart
  <2> QED  BY <2>2, <2>3, <2>4, <2>5
<1>2. ASSUME NEW S \in SUBSET Online, NEW order \in SetToSeqs(S), f = SendAll(order, m)
      PROVE  i = j
  <2>1. /\ \A k \in DOMAIN order : order[k] \in S
        /\ \A k, l \in DOMAIN order : order[k] = order[l] => k = l
    BY DEF SetToSeqs
  <2>2. f[i].to = sessions[order[i]] /\ f[j].to = sessions[order[j]]
        /\ i \in DOMAIN order /\ j \in DOMAIN order
    BY <1>2 DEF SendAll, To
  <2> QED  BY <2>1, <2>2, SessionsApart
<1>3. Subscribers(t.group) \in SUBSET Online /\ Online \in SUBSET Online
  BY DEF Subscribers
<1> QED  BY <1>1, <1>2, <1>3 DEF Fanouts, Target, UserTarget, GroupTarget, Broadcast

\* A message delivered was the first to be sent.
LEMMA DeliverMovesForward ==
  ASSUME TypeInv, Deliver, UNCHANGED connVars, NEW d \in Conn
  PROVE  Forward(d)
<1> DEFINE L == Len(chan[d])
           g == [p \in Place |-> IF p[1] = 4 THEN <<4, p[2] + 1>>
                                 ELSE IF p = <<3, L + 1>> THEN <<4, 1>> ELSE p]
<1>1. /\ fanout \in Seq(Delivery) /\ fanout # <<>> /\ fanout' = Tail(fanout)
      /\ chan[d] \in Seq(ServerMessage)
      /\ \/ chan'[d] = chan[d]
         \/ Head(fanout).to = d /\ chan'[d] = Append(chan[d], Head(fanout).msg)
      /\ UNCHANGED <<wire, script, rxq>>
  BY HasEntries DEF Entries, Deliver, TypeInv, TypeOK, RouterOK, connVars
<1>2. /\ \A i \in DOMAIN fanout' :
           i \in Nat \ {0} /\ i + 1 \in DOMAIN fanout /\ fanout'[i] = fanout[i + 1]
      /\ Head(fanout) = fanout[1] /\ 1 \in DOMAIN fanout
  BY <1>1
<1>3. \A m : /\ DOMAIN Append(chan[d], m) = 1 .. L + 1 /\ DOMAIN chan[d] = 1 .. L /\ L \in Nat
             /\ \A i \in 1 .. L : Append(chan[d], m)[i] = chan[d][i]
             /\ Append(chan[d], m)[L + 1] = m
  BY <1>1, Appended
<1>4. \A i, b : InChannel(d, i, b)' =>
        (i \in 1 .. L /\ InChannel(d, i, b)) \/ (i = L + 1 /\ ToBeSent(d, 1, b))
  BY <1>1, <1>2, <1>3 DEF InChannel, ToBeSent
<1>5. \A i, b : ToBeSent(d, i, b)' => ToBeSent(d, i + 1, b)
  BY <1>2 DEF ToBeSent
<1>6. \A i, b : /\ OnWire(d, i, b)' => OnWire(d, i, b)
                /\ InHand(d, b)' => InHand(d, b)
                /\ Queued(i, b)' => Queued(i, b)
  BY <1>1 DEF OnWire, InHand, Awaiting, Queued
<1>7. g \in [Place -> Place]
  BY DEF Place
<1>8. ASSUME NEW p \in Place, NEW b \in Body, Stands(d, p, b)'
      PROVE  /\ Stands(d, g[p], b)
             /\ \/ p[1] = 4 /\ g[p] = <<4, p[2] + 1>>
                \/ p[1] = 3 /\ p[2] = L + 1 /\ g[p] = <<4, 1>>
                \/ p[1] = 3 /\ p[2] \in 1 .. L /\ g[p] = p
                \/ p[1] \in {1, 2, 5} /\ g[p] = p
  <2>1. CASE p[1] = 4
    <3>1. g[p] = <<4, p[2] + 1>> /\ p[2] + 1 \in Nat
      BY <2>1, Parts
    <3>2. ToBeSent(d, p[2] + 1, b)
      BY <1>5, <1>8, <2>1, Parts
    <3> QED  BY <2>1, <3>1, <3>2, PartAt
  <2>2. CASE p = <<3, L + 1>>
    <3>1. p[1] = 3 /\ p[2] = L + 1 /\ InChannel(d, p[2], b)'
      BY <1>8, <2>2, Parts
    <3>2. ToBeSent(d, 1, b)
      BY <1>3, <1>4, <3>1
    <3>3. g[p] = <<4, 1>>
      BY <2>2, <3>1
    <3> QED  BY <3>1, <3>2, <3>3, PartAt
  <2>3. CASE p[1] = 3 /\ p # <<3, L + 1>>
    BY <1>4, <1>8, <2>3, Parts
  <2>4. CASE p[1] \in {1, 2, 5}
    BY <1>6, <1>8, <2>4, Parts
  <2> QED  BY <2>1, <2>2, <2>3, <2>4, Parts
<1> HIDE DEF g
<1>9. ASSUME NEW p \in Place, NEW q \in Place, Nearer(p, q),
             NEW a \in Body, NEW b \in Body, Stands(d, p, a)', Stands(d, q, b)'
      PROVE  Nearer(g[p], g[q])
  BY <1>3, <1>8, <1>9, Parts DEF Nearer
<1> QED  BY <1>7, <1>8, <1>9, MovesForward

\* The sends of an event take its place at the head of the queue.
LEMMA TakeMovesForward ==
  ASSUME TypeInv, SessionInv, RouterTask, ~Deliver, NEW d \in Conn
  PROVE  Forward(d)
<1> DEFINE g == [p \in Place |-> IF p[1] = 5 THEN <<5, p[2] + 1>>
                                 ELSE IF p[1] = 4 THEN <<5, 1>> ELSE p]
<1>1. /\ UNCHANGED <<wire, script, chan>>
      /\ rxq \in Seq(RouterEvent) /\ rxq # <<>> /\ rxq' = Tail(rxq)
  <2>1. UNCHANGED <<wire, script, chan>>
    BY QueueOfRouter DEF RouterTask, RouterStep, OnUserConnected, OnUserDisconnected,
                         OnUserJoinedGroup, OnRouteMessage, chanVars
  <2> QED  BY <2>1, QueueOfRouter DEF TypeInv, TypeOK, RouterOK
<1>2. /\ \A i \in DOMAIN rxq' :
           i \in Nat \ {0} /\ i + 1 \in DOMAIN rxq /\ rxq'[i] = rxq[i + 1]
      /\ Head(rxq) = rxq[1] /\ 1 \in DOMAIN rxq /\ rxq[1] \in RouterEvent
  BY <1>1
<1>3. \A i, b : Queued(i, b)' => Queued(i + 1, b)
  BY <1>2 DEF Queued
<1>4. \A i, b : ToBeSent(d, i, b)' => Queued(1, b) /\ Head(rxq).type = "RouteMessage"
  <2> SUFFICES ASSUME NEW i, NEW b, ToBeSent(d, i, b)'
               PROVE  Queued(1, b) /\ Head(rxq).type = "RouteMessage"
    OBVIOUS
  <2>1. i \in DOMAIN fanout' /\ Live(fanout'[i].msg) /\ fanout'[i].msg.body = b
    BY DEF ToBeSent
  <2>2. rxq # <<>> /\ Head(rxq).type = "RouteMessage" /\ fanout'[i].msg = Head(rxq).message
    BY <2>1, WhatIsSent DEF Live
  <2> QED  BY <1>2, <2>1, <2>2 DEF Queued
<1>5. \A i, j, a, b : ToBeSent(d, i, a)' /\ ToBeSent(d, j, b)' => i = j
  <2> SUFFICES ASSUME NEW i, NEW j, NEW a, NEW b, ToBeSent(d, i, a)', ToBeSent(d, j, b)'
               PROVE  i = j
    OBVIOUS
  <2>1. OnRouteMessage
    BY <1>4 DEF RouterTask, RouterStep, OnUserConnected, OnUserDisconnected, OnUserJoinedGroup, Take
  <2>2. fanout' \in Fanouts(Head(rxq).from, Head(rxq).target, Head(rxq).message)
    BY <2>1 DEF OnRouteMessage
  <2>3. /\ Head(rxq).from \in UserId /\ Head(rxq).target \in Target
        /\ Head(rxq).message \in ServerMessage
    BY <1>2, <1>4 DEF RouterEvent
  <2>4. /\ i \in DOMAIN fanout' /\ fanout'[i].to = d
        /\ j \in DOMAIN fanout' /\ fanout'[j].to = d
    BY DEF ToBeSent
  <2> QED  BY <2>2, <2>3, <2>4, SentApart
<1>6. \A i, b : /\ OnWire(d, i, b)' => OnWire(d, i, b)
                /\ InHand(d, b)' => InHand(d, b)
                /\ InChannel(d, i, b)' => InChannel(d, i, b)
  BY <1>1 DEF OnWire, InHand, Awaiting, InChannel
<1>7. g \in [Place -> Place]
  BY DEF Place
<1>8. ASSUME NEW p \in Place, NEW b \in Body, Stands(d, p, b)'
      PROVE  /\ Stands(d, g[p], b)
             /\ \/ p[1] = 5 /\ g[p] = <<5, p[2] + 1>>
                \/ p[1] = 4 /\ ToBeSent(d, p[2], b)' /\ g[p] = <<5, 1>>
                \/ p[1] \in {1, 2, 3} /\ g[p] = p
  <2>1. CASE p[1] = 5
    <3>1. g[p] = <<5, p[2] + 1>> /\ p[2] + 1 \in Nat
      BY <2>1, Parts
    <3>2. Queued(p[2] + 1, b)
      BY <1>3, <1>8, <2>1, Parts
    <3> QED  BY <2>1, <3>1, <3>2, PartAt
  <2>2. CASE p[1] = 4
    <3>1. ToBeSent(d, p[2], b)'
      BY <1>8, <2>2, Parts
    <3>2. Queued(1, b)
      BY <1>4, <3>1
    <3> QED  BY <2>2, <3>1, <3>2, PartAt
  <2>3. CASE p[1] \in {1, 2, 3}
    BY <1>6, <1>8, <2>3, Parts
  <2> QED  BY <2>1, <2>2, <2>3, Parts
<1> HIDE DEF g
<1>9. ASSUME NEW p \in Place, NEW q \in Place, Nearer(p, q),
             NEW a \in Body, NEW b \in Body, Stands(d, p, a)', Stands(d, q, b)'
      PROVE  Nearer(g[p], g[q])
  <2>1. ~(p[1] = 4 /\ q[1] = 4)
    <3> SUFFICES ASSUME p[1] = 4, q[1] = 4 PROVE FALSE
      OBVIOUS
    <3>1. p[2] = q[2]
      BY <1>5, <1>8, <1>9
    <3> QED  BY <1>9, <3>1, Parts DEF Nearer
  <2> QED  BY <1>8, <1>9, <2>1, Parts DEF Nearer
<1> QED  BY <1>7, <1>8, <1>9, MovesForward

-----------------------------------------------------------------------------
(* Posts.                                                                  *)

\* A step of an actor moves the lines forward, but for the message it posts,
\* which comes last in every line.
LEMMA LinesOfStep ==
  ASSUME TypeInv, PostsFirst, HandsQuiet, NEW c \in Conn, NEW steps, StepShape(c, steps),
         Carried(c), \A e \in Conn \ {c} : Aside(e), NEW d \in Conn
  PROVE  \/ Forward(d)
         \/ /\ ~Awaiting(c, "toRouter")'
            /\ \A a, b \in Body :
                 /\ Lined(d, b)' => Lined(d, b) \/ Posting(c, b)
                 /\ Ahead(d, a, b)' => Ahead(d, a, b) \/ (Posting(c, b) /\ Lined(d, a))
<1>1. CASE d = c /\ (WriteToClient(c) \/ ReceiveRouted(c))
  BY <1>1, WriteMovesForward, ReceiveMovesForward
<1>2. CASE ~(d = c /\ (WriteToClient(c) \/ ReceiveRouted(c)))
  <2>1. \A i, b : /\ OnWire(d, i, b)' => OnWire(d, i, b)
                  /\ InHand(d, b)' => InHand(d, b)
                  /\ InChannel(d, i, b)' => InChannel(d, i, b)
                  /\ ToBeSent(d, i, b)' => ToBeSent(d, i, b)
    BY <1>2, OtherStepsStay, ScriptStaysQuiet
  <2>2. CASE UNCHANGED rxq
    <3>1. \A i, b : Queued(i, b)' => Queued(i, b)
      BY <2>2 DEF Queued
    <3>2. \A p \in Place, b \in Body : Stands(d, p, b)' => Stands(d, p, b)
      BY <2>1, <3>1, Parts
    <3> QED  BY <3>2, StaysForward
  <2>3. CASE /\ Awaiting(c, "toRouter") /\ steps = <<>> /\ Scripted(c, steps)
             /\ rxq' = Append(rxq, Head(script[c]).event)
    <3> DEFINE L == Len(rxq)
    <3>1. /\ DOMAIN rxq' = 1 .. L + 1 /\ DOMAIN rxq = 1 .. L /\ L \in Nat
          /\ \A i \in 1 .. L : rxq'[i] = rxq[i]
          /\ rxq'[L + 1] = Head(script[c]).event
      BY <2>3, Appended DEF TypeInv, TypeOK, RouterOK
    <3>2. \A i, b : Queued(i, b)' => (i \in 1 .. L /\ Queued(i, b)) \/ (i = L + 1 /\ Posting(c, b))
      BY <2>3, <3>1 DEF Queued, Posting
    <3> HIDE DEF L
    <3>3. \A p \in Place, b \in Body : Stands(d, p, b)' =>
            \/ Stands(d, p, b) /\ (p[1] = 5 => p[2] \in 1 .. L)
            \/ p[1] = 5 /\ p[2] = L + 1 /\ Posting(c, b)
      BY <2>1, <3>2, Parts
    <3>4. ~Awaiting(c, "toRouter")'
      <4>1. steps \in Seq(Await)
        BY <2>3
      <4> QED  BY <2>3, <4>1, ScriptAfter
    <3>5. ASSUME NEW a \in Body, NEW b \in Body, Ahead(d, a, b)'
          PROVE  Ahead(d, a, b) \/ (Posting(c, b) /\ Lined(d, a))
      <4>1. PICK p \in Place, q \in Place : Nearer(p, q) /\ Stands(d, p, a)' /\ Stands(d, q, b)'
        BY <3>5 DEF Ahead
      <4>2. ~(p[1] = 5 /\ p[2] = L + 1)
        <5>1. q[1] = 5 => q[2] \in 1 .. L + 1
          BY <3>1, <3>3, <4>1
        <5> QED  BY <3>1, <4>1, <5>1, Parts DEF Nearer
      <4>3. Stands(d, p, a)
        BY <3>3, <4>1, <4>2
      <4> QED  BY <3>3, <4>1, <4>3 DEF Ahead, Lined
    <3>6. \A b \in Body : Lined(d, b)' => Lined(d, b) \/ Posting(c, b)
      BY <3>3 DEF Lined
    <3> QED  BY <3>4, <3>5, <3>6
  <2> QED  BY <2>2, <2>3 DEF StepShape
<1> QED  BY <1>1, <1>2

-----------------------------------------------------------------------------
(* Frames.                                                                 *)

\* Who is heard again was let in, and what it sends is new.
LEMMA HeardByStep ==
  ASSUME TypeInv, SessionInv, IdentityInv, NEW c \in Conn, LifeStep(c), Carried(c)
  PROVE  \/ heard'[c] = heard[c] /\ (me'[c] = me[c] \/ SentAt(c) = {})
         \/ Len(heard'[c]) = 1 /\ me'[c] = NoUser
         \/ \E m \in Requests :
              /\ FreshBody(m) /\ HandleFrame(c, m) /\ heard'[c] = Append(heard[c], m)
              /\ me[c] # NoUser /\ me'[c] = me[c]
<1>1. heard[c] \in Seq(FirstFrames \cup Requests)
  BY HasEntries DEF Entries
<1>2. CASE heard'[c] = heard[c]
  <2>1. CASE me'[c] # me[c]
    <3>1. phase[c] = "authenticating"
      BY <2>1 DEF LifeStep
    <3>2. heard[c] = <<>> \/ \E q \in AuthAwait : heard[c] = <<FrameOf(q)>>
      BY <3>1 DEF IdentityInv, Asked
    <3>3. \A q : FrameOf(q).type # "SendMessage"
      BY DEF FrameOf, Login, Register
    <3>4. \A i \in DOMAIN heard[c] : heard[c][i].type # "SendMessage"
      BY <3>2, <3>3
    <3> QED  BY <1>2, <3>4 DEF SentAt, Sends
  <2> QED  BY <1>2, <2>1
<1>3. ASSUME NEW m \in FirstFrames, FirstFrame(c, m)
      PROVE  Len(heard'[c]) = 1 /\ me'[c] = NoUser
  <2>1. heard[c] = <<>>
    BY <1>3 DEF FirstFrame, IdentityInv, Asked
  <2>2. heard'[c] = Append(heard[c], m) /\ me'[c] = me[c] /\ me[c] = NoUser
    BY <1>1, <1>3, HasEntries DEF Entries, FirstFrame, SessionInv, NotYetKnown
  <2> QED  BY <2>1, <2>2
<1>4. ASSUME NEW m \in Requests, HandleFrame(c, m)
      PROVE  heard'[c] = Append(heard[c], m) /\ me[c] # NoUser /\ me'[c] = me[c]
  BY <1>4, NullAssumption, HasEntries
     DEF Entries, HandleFrame, Idle, TypeInv, UsersKnown, LoggedIn
<1> QED  BY <1>2, <1>3, <1>4 DEF Carried

\* A body that is fresh was not sent.
LEMMA FreshMeansNew ==
  ASSUME NEW m, Sends(m), FreshBody(m), NEW c \in Conn, NEW i \in SentAt(c)
  PROVE  heard[c][i].body # m.body
<1>1. <<c, i>> \in Heard("SendMessage")
  BY DEF SentAt, Heard, Sends
<1> QED  BY <1>1 DEF FreshBody, Sends

-----------------------------------------------------------------------------
(* The invariant.                                                          *)

\* What a step of c does to the frames that were sent: they stay, and one may
\* come after them.
LEMMA SentByStep ==
  ASSUME TypeInv, Founded, SessionInv, IdentityInv, [Next]_vars,
         NEW c \in Conn, LifeStep(c), Carried(c), \A e \in Conn \ {c} : Aside(e),
         NEW d \in Conn, NEW i \in SentAt(d)', me'[d] # NoUser
  PROVE  \/ me[d] # NoUser /\ i \in SentAt(d) /\ heard'[d][i] = heard[d][i]
         \/ /\ d = c /\ me[c] # NoUser /\ i = Len(heard[c]) + 1 /\ i = Len(heard'[c])
            /\ Sends(heard'[c][i]) /\ FreshBody(heard'[c][i]) /\ HandleFrame(c, heard'[c][i])
<1>1. i \in DOMAIN heard'[d] /\ Sends(heard'[d][i])
  BY DEF SentAt
<1>2. CASE heard'[d] = heard[d] /\ (me'[d] = me[d] \/ SentAt(d) = {})
  BY <1>1, <1>2 DEF SentAt
<1>3. CASE d = c /\ Len(heard'[c]) = 1 /\ me'[c] = NoUser
  BY <1>3
<1>4. ASSUME d = c,
             NEW m \in Requests, FreshBody(m), HandleFrame(c, m),
             heard'[c] = Append(heard[c], m), me[c] # NoUser, me'[c] = me[c]
      PROVE  \/ me[d] # NoUser /\ i \in SentAt(d) /\ heard'[d][i] = heard[d][i]
             \/ /\ d = c /\ me[c] # NoUser /\ i = Len(heard[c]) + 1 /\ i = Len(heard'[c])
                /\ Sends(heard'[c][i]) /\ FreshBody(heard'[c][i]) /\ HandleFrame(c, heard'[c][i])
  <2>1. heard[c] \in Seq(FirstFrames \cup Requests)
    BY HasEntries DEF Entries
  <2>2. /\ DOMAIN heard'[c] = 1 .. Len(heard[c]) + 1 /\ DOMAIN heard[c] = 1 .. Len(heard[c])
        /\ \A j \in DOMAIN heard[c] : heard'[c][j] = heard[c][j]
        /\ heard'[c][Len(heard[c]) + 1] = m /\ Len(heard'[c]) = Len(heard[c]) + 1
        /\ Len(heard[c]) \in Nat
    BY <1>4, <2>1, Appended
  <2>3. CASE i \in DOMAIN heard[c]
    BY <1>1, <1>4, <2>2, <2>3 DEF SentAt
  <2>4. CASE i = Len(heard[c]) + 1
    BY <1>1, <1>4, <2>2, <2>4
  <2> QED  BY <1>1, <1>4, <2>2, <2>3, <2>4
<1> QED  BY <1>2, <1>3, <1>4, HeardByStep DEF Aside

LEMMA SentStays ==
  ASSUME TypeInv, Founded, SessionInv, [Next]_vars, NEW d \in Conn, NEW i \in SentAt(d)
  PROVE  i \in SentAt(d)' /\ heard'[d][i] = heard[d][i] /\ (me[d] # NoUser => me'[d] = me[d])
BY HeardStays DEF SentAt

LEMMA FramesByActor ==
  ASSUME TypeInv, Founded, SessionInv, IdentityInv, OneFrame, SentOnce, [Next]_vars,
         NEW c \in Conn, LifeStep(c), Carried(c), \A e \in Conn \ {c} : Aside(e)
  PROVE  OneFrame' /\ SentOnce'
<1>1. OneFrame'
  <2> SUFFICES ASSUME NEW d \in Conn, me'[d] = NoUser PROVE Len(heard'[d]) <= 1
    BY DEF OneFrame
  <2>1. CASE heard'[d] = heard[d]
    <3>1. me[d] = NoUser
      BY HeardStays
    <3> QED  BY <2>1, <3>1 DEF OneFrame
  <2>2. CASE heard'[d] # heard[d]
    <3>1. d = c
      BY <2>2 DEF Aside
    <3>2. Len(heard'[c]) = 1
      BY <2>2, <3>1, HeardByStep
    <3> QED  BY <3>1, <3>2
  <2> QED  BY <2>1, <2>2
<1>2. SentOnce'
  <2> SUFFICES ASSUME NEW d \in Conn, NEW e \in Conn, me'[d] # NoUser, me'[e] # NoUser,
                      NEW i \in SentAt(d)', NEW j \in SentAt(e)',
                      heard'[d][i].body = heard'[e][j].body
               PROVE  d = e /\ i = j
    BY DEF SentOnce
  <2>1. CASE i \in SentAt(d) /\ heard'[d][i] = heard[d][i] /\ me[d] # NoUser
    <3>1. CASE j \in SentAt(e) /\ heard'[e][j] = heard[e][j] /\ me[e] # NoUser
      BY <2>1, <3>1 DEF SentOnce
    <3>2. CASE Sends(heard'[e][j]) /\ FreshBody(heard'[e][j])
      BY <2>1, <3>2, FreshMeansNew
    <3> QED  BY <3>1, <3>2, SentByStep
  <2>2. CASE /\ d = c /\ i = Len(heard[c]) + 1
             /\ Sends(heard'[c][i]) /\ FreshBody(heard'[c][i])
    <3>1. CASE j \in SentAt(e) /\ heard'[e][j] = heard[e][j]
      BY <2>2, <3>1, FreshMeansNew
    <3>2. CASE e = c /\ j = Len(heard[c]) + 1
      BY <2>2, <3>2
    <3> QED  BY <3>1, <3>2, SentByStep
  <2> QED  BY <2>1, <2>2, SentByStep
<1> QED  BY <1>1, <1>2

\* The event that an actor is about to post.
LEMMA PostingAfter ==
  ASSUME TypeInv, PostsFirst, NEW c \in Conn, NEW steps, StepShape(c, steps), Carried(c),
         NEW b, Posting(c, b)'
  PROVE  \/ Posting(c, b) /\ script'[c] = script[c] /\ heard'[c] = heard[c]
         \/ /\ ~Awaiting(c, "toRouter")
            /\ \E m \in Requests : /\ Sends(m) /\ FreshBody(m) /\ HandleFrame(c, m)
                                   /\ m.body = b
<1>1. Awaiting(c, "toRouter")' /\ Live(Head(script'[c]).event.message)
      /\ Head(script'[c]).event.type = "RouteMessage" /\ Head(script'[c]).event.message.body = b
  BY DEF Posting
<1>2. CASE Awaiting(c, "toRouter") /\ script'[c] = script[c]
  <2>1. Posting(c, b)
    BY <1>1, <1>2 DEF Posting
  <2>2. ~\E m : FirstFrame(c, m) \/ HandleFrame(c, m)
    BY <1>2 DEF Awaiting, FirstFrame, HandleFrame, Idle
  <2> QED  BY <1>2, <2>1, <2>2 DEF Carried
<1>3. CASE steps # <<>> /\ Head(script'[c]) = steps[1] /\ steps[1] \in NewAwait(c)
  <2>1. Chats(c, Head(script'[c]).event)
    BY <1>1, <1>3 DEF NewAwait, Awaiting, Live
  <2>2. PICK m \in Requests :
          /\ Sends(m) /\ FreshBody(m) /\ HandleFrame(c, m)
          /\ Head(script'[c]).event = RouteMessage(me[c], m.target, Outgoing(me[c], m))
    BY <2>1 DEF Chats
  <2>3. m.body = b
    BY <1>1, <2>2 DEF RouteMessage, Outgoing, NewMessage
  <2>4. ~Awaiting(c, "toRouter")
    BY <2>2 DEF HandleFrame, Idle, Awaiting
  <2> QED  BY <2>2, <2>3, <2>4
<1> QED  BY <1>1, <1>2, <1>3, HeadAfter

LEMMA OrderByActor ==
  ASSUME TypeInv, Founded, PostsFirst, SessionInv, IdentityInv, OrderInv, [Next]_vars,
         NEW c \in Conn, Actor(c) \/ Client(c)
  PROVE  OrderInv'
<1> USE DEF OrderInv
<1>1. PICK steps : StepShape(c, steps)
  BY ShapeOfStep
<1>2. /\ LifeStep(c) /\ Carried(c) /\ \A d \in Conn \ {c} : Aside(d)
      /\ \A d \in Conn : me[d] # NoUser => me'[d] = me[d]
  BY LifeOfStep, CarriedByStep, OthersStand, HeardStays DEF SessionInv
<1>3. \A d \in Conn, a, b \in Body :
        /\ Lined(d, b)' => Lined(d, b) \/ (Posting(c, b) /\ ~Awaiting(c, "toRouter")')
        /\ Ahead(d, a, b)' => Ahead(d, a, b) \/ (Posting(c, b) /\ Lined(d, a))
  BY <1>1, <1>2, LinesOfStep DEF Forward
<1>4. HandsQuiet' /\ OneFrame' /\ SentOnce'
  BY <1>1, <1>2, HandsStayQuiet, FramesByActor
\* Nothing that is fresh is in a line or before anything in one.
<1>5. \A m, d : (Sends(m) /\ FreshBody(m) /\ d \in Conn /\ m.body \in Body) => ~Lined(d, m.body)
  BY FreshMeansNew DEF LinesHeard
<1>6. \A d \in Conn, a, b \in Body : Ahead(d, a, b) => Lined(d, a) /\ Lined(d, b)
  BY DEF Ahead, Lined
<1>7. LinesHeard'
  <2> SUFFICES ASSUME NEW d \in Conn, NEW b \in Body, Lined(d, b)'
               PROVE  \E e \in Conn : \E i \in SentAt(e)' : heard'[e][i].body = b
    BY DEF LinesHeard
  <2>1. PICK e \in Conn : \E i \in SentAt(e) : heard[e][i].body = b
    BY <1>3 DEF LinesHeard, Unposted
  <2> QED  BY <2>1, SentStays
<1>8. Unposted'
  <2> SUFFICES ASSUME NEW d \in Conn, NEW b \in Body, Posting(d, b)'
               PROVE  /\ me'[d] # NoUser
                      /\ Len(heard'[d]) \in SentAt(d)' /\ heard'[d][Len(heard'[d])].body = b
                      /\ \A e \in Conn : ~Lined(e, b)'
    BY DEF Unposted
  <2>1. CASE Posting(d, b) /\ script'[d] = script[d] /\ heard'[d] = heard[d]
    <3>1. /\ me'[d] # NoUser
          /\ Len(heard'[d]) \in SentAt(d)' /\ heard'[d][Len(heard'[d])].body = b
      BY <1>2, <2>1 DEF Unposted, SentAt
    <3>2. ~(Posting(c, b) /\ ~Awaiting(c, "toRouter")')
      <4> SUFFICES ASSUME Posting(c, b), ~Awaiting(c, "toRouter")' PROVE FALSE
        OBVIOUS
      <4>1. c = d
        BY <2>1 DEF Unposted, SentOnce
      <4> QED  BY <4>1 DEF Posting
    <3> QED  BY <1>3, <2>1, <3>1, <3>2 DEF Unposted
  <2>2. CASE d = c /\ ~Awaiting(c, "toRouter")
             /\ \E m \in Requests : Sends(m) /\ FreshBody(m) /\ HandleFrame(c, m) /\ m.body = b
    <3>1. PICK m \in Requests : Sends(m) /\ FreshBody(m) /\ HandleFrame(c, m) /\ m.body = b
      BY <2>2
    <3>2. \A e \in Conn : ~Lined(e, b)'
      BY <1>3, <1>5, <2>2, <3>1 DEF Posting
    <3>3. heard'[c] = Append(heard[c], m) /\ heard[c] \in Seq(FirstFrames \cup Requests)
      BY <3>1, HasEntries DEF Entries, HandleFrame
    <3>4. Len(heard'[c]) \in DOMAIN heard'[c] /\ heard'[c][Len(heard'[c])] = m
      BY <3>3, Appended
    <3>5. me'[c] # NoUser
      BY <3>1, NullAssumption DEF HandleFrame, Idle, TypeInv, UsersKnown, LoggedIn
    <3> QED  BY <2>2, <3>1, <3>2, <3>4, <3>5 DEF SentAt
  <2>3. d # c => script'[d] = script[d] /\ heard'[d] = heard[d]
    BY <1>2 DEF Aside
  <2>4. d # c => Posting(d, b)
    BY <2>3 DEF Posting, Awaiting
  <2>5. d = c => \/ Posting(c, b) /\ script'[c] = script[c] /\ heard'[c] = heard[c]
                 \/ /\ ~Awaiting(c, "toRouter")
                    /\ \E m \in Requests : Sends(m) /\ FreshBody(m) /\ HandleFrame(c, m) /\ m.body = b
    BY <1>1, <1>2, PostingAfter
  <2> QED  BY <2>1, <2>2, <2>3, <2>4, <2>5
<1>9. LinesAgree'
  <2> SUFFICES ASSUME NEW d \in Conn, NEW e \in Conn, NEW a \in Body, NEW b \in Body, Ahead(d, a, b)'
               PROVE  ~Ahead(e, b, a)' /\ ~SentBefore(e, b, a)'
    BY DEF LinesAgree
  <2>1. ~Ahead(e, b, a)'
    <3> SUFFICES ASSUME Ahead(e, b, a)' PROVE FALSE
      OBVIOUS
    <3>1. Ahead(d, a, b) \/ (Posting(c, b) /\ Lined(d, a))
      BY <1>3
    <3>2. Ahead(e, b, a) \/ (Posting(c, a) /\ Lined(e, b))
      BY <1>3
    <3> QED  BY <1>6, <3>1, <3>2 DEF LinesAgree, Unposted
  <2>2. ~SentBefore(e, b, a)'
    <3> SUFFICES ASSUME NEW i \in SentAt(e)', NEW j \in SentAt(e)', i < j,
                        heard'[e][i].body = b, heard'[e][j].body = a
                 PROVE  FALSE
      BY DEF SentBefore
    <3>1. heard'[e] \in Seq(FirstFrames \cup Requests) /\ heard[c] \in Seq(FirstFrames \cup Requests)
      BY NextTypes, HasEntries DEF Entries, TypeInv, TypeOK, ConnOK
    <3>2. i \in 1 .. Len(heard'[e]) /\ j \in 1 .. Len(heard'[e]) /\ Len(heard'[e]) \in Nat
      BY <3>1 DEF SentAt
    <3>3. me'[e] # NoUser
      BY <1>4, <3>2 DEF OneFrame
    <3>4. CASE /\ me[e] # NoUser
               /\ i \in SentAt(e) /\ heard'[e][i] = heard[e][i]
               /\ j \in SentAt(e) /\ heard'[e][j] = heard[e][j]
      <4>1. SentBefore(e, b, a)
        BY <3>4 DEF SentBefore
      <4>2. Posting(c, b)
        BY <1>3, <4>1 DEF LinesAgree
      <4>3. e = c /\ i = Len(heard[c])
        BY <3>4, <4>2 DEF Unposted, SentOnce
      <4>4. j \in 1 .. Len(heard[c])
        BY <3>1, <3>4, <4>3 DEF SentAt
      <4> QED  BY <3>2, <4>3, <4>4
    <3>5. CASE /\ e = c /\ Sends(heard'[c][j]) /\ FreshBody(heard'[c][j])
               /\ HandleFrame(c, heard'[c][j])
      <4>1. ~Posting(c, b)
        BY <3>5 DEF Posting, HandleFrame, Idle, Awaiting
      <4>2. Lined(d, a)
        BY <1>3, <1>6, <4>1
      <4> QED  BY <1>5, <3>5, <4>2
    <3>6. i # Len(heard'[e])
      BY <3>2
    <3> QED  BY <1>2, <3>3, <3>4, <3>5, <3>6, SentByStep
  <2> QED  BY <2>1, <2>2
<1> QED  BY <1>4, <1>7, <1>8, <1>9

\* Where nothing is posted or heard, the lines can only move forward.
LEMMA OrderByOthers ==
  ASSUME OrderInv, UNCHANGED <<me, heard>>, \A d \in Conn : Forward(d),
         UNCHANGED script \/ \A c \in Conn : script'[c] = <<>>
  PROVE  OrderInv'
<1> USE DEF OrderInv, Forward
<1>1. HandsQuiet'
  BY DEF HandsQuiet
<1>2. OneFrame' /\ SentOnce' /\ LinesHeard'
  BY DEF OneFrame, SentOnce, SentAt, LinesHeard
<1>3. \A c \in Conn, b \in Body : Posting(c, b)' => Posting(c, b)
  BY DEF Posting, Awaiting
<1>4. Unposted'
  BY <1>3 DEF Unposted, SentAt
<1>5. LinesAgree'
  BY DEF LinesAgree, SentBefore, SentAt
<1> QED  BY <1>1, <1>2, <1>4, <1>5

LEMMA OrderNext ==
  /\ TypeInv /\ Founded /\ PostsFirst /\ SessionInv /\ IdentityInv /\ OrderInv /\ [Next]_vars
  => OrderInv'
<1> SUFFICES ASSUME TypeInv, Founded, PostsFirst, SessionInv, IdentityInv, OrderInv, [Next]_vars
             PROVE  OrderInv'
  OBVIOUS
<1>1. ASSUME NEW c \in Conn, Actor(c) \/ Client(c) PROVE OrderInv'
  BY <1>1, OrderByActor
<1>2. CASE RouterTask
  <2>1. UNCHANGED <<me, heard, script>>
    BY <1>2, QueueOfRouter
  <2>2. \A d \in Conn : Forward(d)
    BY <1>2, DeliverMovesForward, TakeMovesForward DEF RouterTask
  <2> QED  BY <2>1, <2>2, OrderByOthers
<1>3. CASE SaveTasks \/ Tick \/ Crash \/ UNCHANGED vars
  <2>1. /\ UNCHANGED <<me, heard, wire>>
        /\ \/ UNCHANGED <<script, chan, fanout, rxq>>
           \/ /\ \A c \in Conn : script'[c] = <<>> /\ chan'[c] = <<>>
              /\ fanout' = <<>> /\ rxq' = <<>>
    BY <1>3 DEF SaveTasks, SaveMessage, Tick, Crash, vars, routerVars, connVars, chanVars
  <2>2. ASSUME NEW d \in Conn PROVE Forward(d)
    <3>1. \A i, b : /\ OnWire(d, i, b)' => OnWire(d, i, b)
                    /\ InHand(d, b)' => InHand(d, b)
                    /\ InChannel(d, i, b)' => InChannel(d, i, b)
                    /\ ToBeSent(d, i, b)' => ToBeSent(d, i, b)
                    /\ Queued(i, b)' => Queued(i, b)
      BY <2>1 DEF OnWire, InHand, Awaiting, InChannel, ToBeSent, Queued
    <3>2. \A p \in Place, b \in Body : Stands(d, p, b)' => Stands(d, p, b)
      BY <3>1, Parts
    <3> QED  BY <3>2, StaysForward
  <2> QED  BY <2>1, <2>2, OrderByOthers
<1> QED  BY <1>1, <1>2, <1>3 DEF Next

LEMMA OrderInit == Init => OrderInv
<1> SUFFICES ASSUME Init PROVE OrderInv
  OBVIOUS
<1> USE DEF Init, ConnInit, RouterInit
<1>1. \A d \in Conn, b \in Body : ~Lined(d, b)
  BY DEF Lined, Stands, Awaiting
<1>2. \A d \in Conn, a, b \in Body : ~Ahead(d, a, b)
  BY <1>1 DEF Ahead, Lined
<1>3. \A c \in Conn : SentAt(c) = {} /\ Len(heard[c]) = 0
  BY DEF SentAt
<1> QED  BY <1>1, <1>2, <1>3
         DEF OrderInv, HandsQuiet, OneFrame, SentOnce, LinesHeard, Unposted, Posting, Awaiting,
             LinesAgree

\* What came to c live in one order stands in its line in that order.
LEMMA SeenIsAhead ==
  ASSUME NEW c \in Conn, NEW i \in LiveAt(c), NEW j \in LiveAt(c), i < j,
         wire[c] \in Seq(ServerMessage)
  PROVE  /\ wire[c][i].body \in Body
         /\ Ahead(c, wire[c][i].body, wire[c][j].body)
<1>1. i \in DOMAIN wire[c] /\ j \in DOMAIN wire[c] /\ Live(wire[c][i]) /\ Live(wire[c][j])
  BY DEF LiveAt
<1>2. <<1, i>> \in Place /\ <<1, j>> \in Place /\ Nearer(<<1, i>>, <<1, j>>)
  BY <1>1 DEF Place, Nearer
<1>3. Stands(c, <<1, i>>, wire[c][i].body) /\ Stands(c, <<1, j>>, wire[c][j].body)
  BY <1>1 DEF Stands
<1>4. wire[c][i] \in ChatMessage
  BY <1>1, ChatMessages DEF Live
<1> QED  BY <1>2, <1>3, <1>4 DEF Ahead, ChatMessage

\* The lines are consistent in every reachable state.
THEOREM OrderHolds == Spec => []OrderInv
BY TypesHold, BackedInit, SubscriptionInit, FoundedNext, SessionInit, SessionNext,
   PostsFirstNext, AccountsStayUnique, IdentityInit, IdentityNext, OrderInit, OrderNext, PTL DEF Spec

\* No client is sent the same message twice as it happens: a message never
\* stands in two places of a line.
THEOREM LiveOnce == Spec => []ExactlyOnceLive
<1>1. TypeInv /\ OrderInv => ExactlyOnceLive
  <2> SUFFICES ASSUME TypeInv, OrderInv, NEW c \in Conn, NEW i \in LiveAt(c), NEW j \in LiveAt(c),
                      wire[c][i].body = wire[c][j].body, i # j
               PROVE  FALSE
    BY DEF ExactlyOnceLive
  <2>1. wire[c] \in Seq(ServerMessage) /\ i \in Nat /\ j \in Nat
    BY HasEntries DEF Entries, LiveAt
  <2>2. i < j \/ j < i
    BY <2>1
  <2> QED  BY <2>1, <2>2, SeenIsAhead DEF OrderInv, LinesAgree
<1> QED  BY TypesHold, OrderHolds, <1>1, PTL

\* Any two clients see what they both see live in one order, the order in which
\* the router took the messages.
THEOREM OrderAgreed == Spec => []AgreedOrder
<1>1. TypeInv /\ OrderInv => AgreedOrder
  <2> SUFFICES ASSUME TypeInv, OrderInv, NEW c \in Conn, NEW d \in Conn,
                      NEW i \in LiveAt(c), NEW j \in LiveAt(c), i < j,
                      SeenBefore(d, wire[c][j].body, wire[c][i].body)
               PROVE  FALSE
    BY DEF AgreedOrder
  <2>1. wire[c] \in Seq(ServerMessage) /\ wire[d] \in Seq(ServerMessage)
    BY HasEntries DEF Entries
  <2>2. wire[c][i].body \in Body /\ Ahead(c, wire[c][i].body, wire[c][j].body)
    BY <2>1, SeenIsAhead
  <2>3. wire[c][j].body \in Body /\ Ahead(d, wire[c][j].body, wire[c][i].body)
    BY <2>1, SeenIsAhead DEF SeenBefore
  <2> QED  BY <2>2, <2>3 DEF OrderInv, LinesAgree
<1> QED  BY TypesHold, OrderHolds, <1>1, PTL

\* No client sees two messages of one connection in the reverse of the order in
\* which they were sent: the actor posts the first before it reads the second.
THEOREM SendersKeepOrder == Spec => []SenderOrder
<1>1. TypeInv /\ OrderInv => SenderOrder
  <2> SUFFICES ASSUME TypeInv, OrderInv, NEW c \in Conn, NEW d \in Conn,
                      NEW i \in SentAt(c), NEW j \in SentAt(c), i < j,
                      SeenBefore(d, heard[c][j].body, heard[c][i].body)
               PROVE  FALSE
    BY DEF SenderOrder
  <2>1. wire[d] \in Seq(ServerMessage)
    BY HasEntries DEF Entries
  <2>2. PICK k \in LiveAt(d), l \in LiveAt(d) :
          k < l /\ wire[d][k].body = heard[c][j].body /\ wire[d][l].body = heard[c][i].body
    BY DEF SeenBefore
  <2>3. heard[c][j].body \in Body /\ Ahead(d, heard[c][j].body, heard[c][i].body)
    BY <2>1, <2>2, SeenIsAhead
  <2>4. wire[d][l].body \in Body
    BY <2>1, HasEntries, ChatMessages DEF Entries, LiveAt, Live, ChatMessage
  <2>5. SentBefore(c, heard[c][i].body, heard[c][j].body)
    BY DEF SentBefore
  <2> QED  BY <2>2, <2>3, <2>4, <2>5 DEF OrderInv, LinesAgree
<1> QED  BY TypesHold, OrderHolds, <1>1, PTL

-----------------------------------------------------------------------------
(* Answers.  What a client is owed stands in a line of its own: the wire,  *)
(* the hands of the actor, its channel, and the request at hand.           *)

LEMMA OwedParts ==
  ASSUME NEW c \in Conn, NEW p \in Place
  PROVE  /\ p[1] = 1 => (p \in Owed(c) <=> p[2] \in AnsweredAt(c))
         /\ p[1] = 3 => (p \in Owed(c) <=> InLoop(c) /\ p[2] \in DOMAIN chan[c] /\ IsAnswer(chan[c][p[2]]))
         /\ p[1] = 2 => (p \in Owed(c) <=>
              /\ InLoop(c) /\ script[c] # <<>> /\ Answering(Head(script[c]))
              /\ p = <<2, 1>> /\ Head(script[c]).do = "toClient")
         /\ p[1] = 4 => (p \in Owed(c) <=>
              /\ InLoop(c) /\ script[c] # <<>> /\ Answering(Head(script[c]))
              /\ p = <<4, 1>> /\ Head(script[c]).do # "toClient")
         /\ p[1] = 5 => p \notin Owed(c)
         /\ p[1] \in 1 .. 5 /\ p[2] \in Nat \ {0} /\ p = <<p[1], p[2]>>
<1>1. p[1] \in 1 .. 5 /\ p[2] \in Nat \ {0} /\ p = <<p[1], p[2]>>
  BY DEF Place
<1>2. p \in Owed(c) <=> Owes(c, p)
  BY DEF Owed
<1>3. <<2, 1>>[1] = 2 /\ <<4, 1>>[1] = 4
  OBVIOUS
<1> QED  BY <1>1, <1>2, <1>3 DEF Owes

\* The same of the next state.
LEMMA OwedNext ==
  ASSUME NEW c \in Conn, NEW p \in Place
  PROVE  /\ p[1] = 1 => (p \in Owed(c)' <=> p[2] \in AnsweredAt(c)')
         /\ p[1] = 3 => (p \in Owed(c)' <=> (InLoop(c)' /\ p[2] \in DOMAIN chan'[c] /\ IsAnswer(chan'[c][p[2]])))
         /\ p[1] = 2 => (p \in Owed(c)' <=>
              /\ InLoop(c)' /\ script'[c] # <<>> /\ Answering(Head(script'[c]))
              /\ p = <<2, 1>> /\ Head(script'[c]).do = "toClient")
         /\ p[1] = 4 => (p \in Owed(c)' <=>
              /\ InLoop(c)' /\ script'[c] # <<>> /\ Answering(Head(script'[c]))
              /\ p = <<4, 1>> /\ Head(script'[c]).do # "toClient")
         /\ p[1] = 5 => p \notin Owed(c)'
         /\ p[1] \in 1 .. 5 /\ p[2] \in Nat \ {0} /\ p = <<p[1], p[2]>>
<1>1. p[1] \in 1 .. 5 /\ p[2] \in Nat \ {0} /\ p = <<p[1], p[2]>>
  BY DEF Place
<1>2. p \in Owed(c)' <=> Owes(c, p)'
  BY DEF Owed, Place
<1>3. <<2, 1>>[1] = 2 /\ <<4, 1>>[1] = 4
  OBVIOUS
<1> QED  BY <1>1, <1>2, <1>3 DEF Owes

LEMMA PlacesOrdered ==
  ASSUME NEW p \in Place, NEW q \in Place
  PROVE  Nearer(p, q) \/ p = q \/ Nearer(q, p)
BY DEF Place, Nearer

\* The pairing is kept when what is owed moves along its line and only the end
\* of the line is lost, when the loop is left.
LEMMA PairingMoves ==
  ASSUME NEW c \in Conn, Paired(c), heard[c] \in Seq(FirstFrames \cup Requests),
         AskedAt(c)' = AskedAt(c),
         NEW g \in [Owed(c)' -> Owed(c)],
         \A p \in Owed(c)', k \in AskedAt(c) : Fits(c, g[p], k) => Fits(c, p, k)',
         \A p, q \in Owed(c)' : Nearer(p, q) => Nearer(g[p], g[q]),
         \A p \in Owed(c)', q \in Owed(c) : Nearer(q, g[p]) => \E r \in Owed(c)' : g[r] = q,
         InLoop(c)' => InLoop(c) /\ \A q \in Owed(c) : \E r \in Owed(c)' : g[r] = q
  PROVE  Paired(c)'
<1>1. PICK f \in [Owed(c) -> AskedAt(c)] :
        /\ \A p \in Owed(c) : Fits(c, p, f[p])
        /\ \A p, q \in Owed(c) : Nearer(p, q) => f[p] < f[q]
        /\ \A p \in Owed(c), k \in AskedAt(c) : k < f[p] => \E q \in Owed(c) : f[q] = k
        /\ InLoop(c) => \A k \in AskedAt(c) : \E p \in Owed(c) : f[p] = k
  BY DEF Paired
<1>2. PICK h \in [Owed(c)' -> AskedAt(c)'] : \A p \in Owed(c)' : h[p] = f[g[p]]
  <2>1. [p \in Owed(c)' |-> f[g[p]]] \in [Owed(c)' -> AskedAt(c)']
    OBVIOUS
  <2> QED  BY <2>1
<1>3. ASSUME NEW p \in Owed(c)' PROVE Fits(c, p, h[p])'
  <2>1. Fits(c, g[p], f[g[p]]) /\ f[g[p]] \in AskedAt(c)
    BY <1>1
  <2>2. Fits(c, p, f[g[p]])'
    BY <2>1
  <2> QED  BY <1>2, <2>2
<1>4. \A p, q \in Owed(c)' : Nearer(p, q) => h[p] < h[q]
  BY <1>1, <1>2
<1>5. ASSUME NEW p \in Owed(c)', NEW k \in AskedAt(c), k < h[p]
      PROVE  \E q \in Owed(c)' : h[q] = k
  <2>1. PICK q \in Owed(c) : f[q] = k
    BY <1>1, <1>2, <1>5
  <2>2. Nearer(q, g[p])
    <3>1. q \in Place /\ g[p] \in Place
      BY DEF Owed
    <3>2. f[q] \in Nat /\ f[g[p]] \in Nat /\ f[q] < f[g[p]]
      <4>1. AskedAt(c) \subseteq Nat
        BY DEF AskedAt
      <4> QED  BY <1>2, <1>5, <2>1, <4>1
    <3> QED  BY <1>1, <3>1, <3>2, PlacesOrdered
  <2> QED  BY <1>2, <2>1, <2>2
<1>6. ASSUME InLoop(c)', NEW k \in AskedAt(c)
      PROVE  \E q \in Owed(c)' : h[q] = k
  BY <1>1, <1>2, <1>6
<1>7. /\ \A p \in Owed(c)' : Fits(c, p, h[p])'
      /\ \A p, q \in Owed(c)' : Nearer(p, q) => h[p] < h[q]
      /\ \A p \in Owed(c)', k \in AskedAt(c)' : k < h[p] => \E q \in Owed(c)' : h[q] = k
      /\ InLoop(c)' => \A k \in AskedAt(c)' : \E p \in Owed(c)' : h[p] = k
  BY <1>3, <1>4, <1>5, <1>6
<1>8. Paired(c)' <=>
        \E ask \in [Owed(c)' -> AskedAt(c)'] :
          /\ \A p \in Owed(c)' : Fits(c, p, ask[p])'
          /\ \A p, q \in Owed(c)' : Nearer(p, q) => ask[p] < ask[q]
          /\ \A p \in Owed(c)', k \in AskedAt(c)' : k < ask[p] => \E q \in Owed(c)' : ask[q] = k
          /\ InLoop(c)' => \A k \in AskedAt(c)' : \E p \in Owed(c)' : ask[p] = k
  BY DEF Paired, Nearer
<1> QED  BY <1>2, <1>7, <1>8

\* Where every answer stays in its place.
LEMMA PairingStays ==
  ASSUME NEW c \in Conn, Paired(c), heard[c] \in Seq(FirstFrames \cup Requests),
         AskedAt(c)' = AskedAt(c), Owed(c)' \subseteq Owed(c),
         \A p \in Owed(c)', k \in AskedAt(c) : Fits(c, p, k) => Fits(c, p, k)',
         \A p \in Owed(c)', q \in Owed(c) : Nearer(q, p) => q \in Owed(c)',
         InLoop(c)' => InLoop(c) /\ Owed(c) \subseteq Owed(c)'
  PROVE  Paired(c)'
<1> DEFINE g == [p \in Owed(c)' |-> p]
<1>1. g \in [Owed(c)' -> Owed(c)] /\ \A p \in Owed(c)' : g[p] = p
  OBVIOUS
<1> HIDE DEF g
<1> QED  BY <1>1, PairingMoves

\* Who is owed nothing and has asked nothing.
LEMMA PairingStarts ==
  ASSUME NEW c \in Conn, Owed(c)' = {}, AskedAt(c)' = {}
  PROVE  Paired(c)'
<1>1. PICK f : f \in [Owed(c)' -> AskedAt(c)']
  <2>1. [p \in Owed(c)' |-> 0] \in [Owed(c)' -> AskedAt(c)']
    OBVIOUS
  <2> QED  BY <2>1
<1>2. Paired(c)' <=>
        \E ask \in [Owed(c)' -> AskedAt(c)'] :
          /\ \A p \in Owed(c)' : Fits(c, p, ask[p])'
          /\ \A p, q \in Owed(c)' : Nearer(p, q) => ask[p] < ask[q]
          /\ \A p \in Owed(c)', k \in AskedAt(c)' : k < ask[p] => \E q \in Owed(c)' : ask[q] = k
          /\ InLoop(c)' => \A k \in AskedAt(c)' : \E p \in Owed(c)' : ask[p] = k
  BY DEF Paired, Nearer
<1> QED  BY <1>1, <1>2

-----------------------------------------------------------------------------
(* What a step makes of the answers.                                       *)

\* The step goes on in a handler that neither gives nor holds an answer.
Quiet(c) ==
  /\ wire'[c] = wire[c] /\ heard'[c] = heard[c] /\ chan'[c] = chan[c]
  /\ InLoop(c)' <=> InLoop(c)
  /\ \/ script'[c] = script[c]
     \/ /\ script[c] = <<>> \/ ~Answering(Head(script[c]))
        /\ script'[c] \in Seq(NoAnswer)

\* The step ends the loop of c, or its greeting.
Ends(c) == ~InLoop(c)' /\ wire'[c] = wire[c] /\ heard'[c] = heard[c]

LEMMA NoAnswers ==
  /\ \A a \in Await : a.do \notin {"groupInfo", "toSelf", "toClient"} => a \in NoAnswer
  /\ \A a \in Await : a.do \in {"toSelf", "toClient"} /\ ~IsAnswer(a.msg) => a \in NoAnswer
  /\ \A a \in NoAnswer : ~Answering(a)
BY DEF NoAnswer, Answering

LEMMA GoesOnQuietly ==
  ASSUME TypeInv, AnswersFirst, NEW c \in Conn, script[c] # <<>>, ~Answering(Head(script[c])),
         NEW steps \in Seq(NoAnswer), Continue(c, steps),
         UNCHANGED <<phase, wire, heard>>, chan' = chan
  PROVE  Quiet(c)
<1>1. script'[c] = steps \o Tail(script[c])
  BY HasEntries DEF Entries, Continue
<1>2. script'[c] \in Seq(NoAnswer)
  BY <1>1, ConcatTypes DEF AnswersFirst
<1> QED  BY <1>2 DEF Quiet, InLoop

\* Before the loop, nobody answers.
LEMMA QuietGreeting ==
  ASSUME TypeInv, AnswersFirst, NEW c \in Conn, FetchGroups(c) \/ FetchUsers(c)
  PROVE  Quiet(c)
<1>1. /\ script[c] # <<>> /\ ~Answering(Head(script[c])) /\ me[c] \in UserId
      /\ UNCHANGED <<phase, wire, heard>> /\ chan' = chan
  BY WhoAwaits DEF FetchGroups, FetchUsers, Awaiting, OnlyScript, chanVars, Answering
<1>2. Query("fetchUsers") \in NoAnswer
  BY AwaitTypes, NoAnswers DEF Query, LoopAwait
<1>3. CASE FetchGroups(c)
  <2>1. PICK gs \in SUBSET GroupId : Continue(c, Greeting(me[c], gs, c))
    BY <1>3, TableQueries DEF FetchGroups
  <2>2. ToRouter(UserConnected(me[c], gs, c)) \in NoAnswer
    BY <1>1, EventTypes, AwaitTypes, NoAnswers DEF ToRouter, LoopAwait
  <2>3. ToClient(AuthSuccess(me[c])) \in NoAnswer /\ ToClient(GroupsList(gs)) \in NoAnswer
    BY <1>1, MessageTypes, AwaitTypes, NoAnswers
       DEF ToClient, LoopAwait, AuthSuccess, GroupsList, IsAnswer
  <2>4. Greeting(me[c], gs, c) \in Seq(NoAnswer)
    BY <1>2, <2>2, <2>3 DEF Greeting
  <2> QED  BY <1>1, <2>1, <2>4, GoesOnQuietly
<1>4. CASE FetchUsers(c)
  <2>1. PICK us \in SUBSET UserId : Continue(c, <<ToClient(UsersList(us))>>)
    BY <1>4, TableQueries DEF FetchUsers
  <2>2. ToClient(UsersList(us)) \in NoAnswer
    BY MessageTypes, AwaitTypes, NoAnswers DEF ToClient, LoopAwait, UsersList, IsAnswer
  <2>3. <<ToClient(UsersList(us))>> \in Seq(NoAnswer)
    BY <2>2
  <2> QED  BY <1>1, <2>1, <2>3, GoesOnQuietly
<1> QED  BY <1>3, <1>4

\* A handler that does not ask for a group's details gives no answer.
LEMMA QuietHandlers ==
  ASSUME TypeInv, AnswersFirst, NEW c \in Conn,
         \/ Invite(c) \/ AlertInvited(c) \/ NewGroup(c) \/ AddCreator(c)
         \/ FetchMembers(c) \/ SyncMessages(c)
  PROVE  Quiet(c)
<1> DEFINE q == Head(script[c])
<1>1. /\ script[c] # <<>> /\ ~Answering(q) /\ me[c] \in UserId
      /\ UNCHANGED <<phase, wire, heard>> /\ chan' = chan
      /\ q \in Await
  BY WhoAwaits DEF Invite, AlertInvited, NewGroup, AddCreator, FetchMembers, SyncMessages,
                   Awaiting, OnlyScript, chanVars, Answering
<1>2. <<>> \in Seq(NoAnswer)
  OBVIOUS
<1>3. ASSUME NEW steps \in Seq(NoAnswer), Continue(c, steps) PROVE Quiet(c)
  BY <1>1, <1>3, GoesOnQuietly
<1>4. CASE Invite(c)
  <2>1. q.group \in GroupId /\ q.user \in UserId
    BY <1>1, <1>4, AwaitFields DEF Invite, Awaiting
  <2>2. /\ ToRouter(UserJoinedGroup(q.user, q.group)) \in NoAnswer
        /\ QueryMember("groupName", q.group, q.user) \in NoAnswer
    BY <2>1, EventTypes, AwaitTypes, NoAnswers DEF ToRouter, QueryMember, LoopAwait
  <2>3. JoinedSteps(q.group, q.user) \in Seq(NoAnswer)
    BY <2>2 DEF JoinedSteps
  <2> QED  BY <1>2, <1>3, <1>4, <2>3 DEF Invite
<1>5. CASE AlertInvited(c)
  <2>1. q.group \in GroupId /\ q.user \in UserId
    BY <1>1, <1>5, AwaitFields DEF AlertInvited, Awaiting
  <2> DEFINE e == RouteMessage(me[c], UserTarget(q.user), AddedToGroup(q.group))
  <2>2. e \in RouterEvent
    BY <1>1, <2>1, EventTypes, TargetTypes, MessageTypes
  <2> HIDE DEF e
  <2>3. ToRouter(e) \in NoAnswer
    BY <2>2, AwaitTypes, NoAnswers DEF ToRouter, LoopAwait
  <2>4. <<ToRouter(e)>> \in Seq(NoAnswer)
    BY <2>3
  <2> QED  BY <1>2, <1>3, <1>5, <2>4 DEF AlertInvited, e
<1>6. CASE NewGroup(c)
  <2>1. \A g \in GroupId : <<QueryGroup("insertCreator", g)>> \in Seq(NoAnswer)
    <3>1. \A g \in GroupId : QueryGroup("insertCreator", g) \in NoAnswer
      BY AwaitTypes, NoAnswers DEF QueryGroup, LoopAwait
    <3> QED  BY <3>1
  <2> QED  BY <1>2, <1>3, <1>6, <2>1 DEF NewGroup
<1>7. CASE AddCreator(c)
  <2>1. q.group \in GroupId
    BY <1>1, <1>7, AwaitFields DEF AddCreator, Awaiting
  <2>2. ToRouter(UserJoinedGroup(me[c], q.group)) \in NoAnswer
    BY <1>1, <2>1, EventTypes, AwaitTypes, NoAnswers DEF ToRouter, LoopAwait
  <2>3. ToSelf(GroupCreated(q.group)) \in NoAnswer
    BY <2>1, MessageTypes, AwaitTypes, NoAnswers DEF ToSelf, LoopAwait, GroupCreated, IsAnswer
  <2>4. CreatedSteps(me[c], q.group) \in Seq(NoAnswer)
    BY <2>2, <2>3 DEF CreatedSteps
  <2> QED  BY <1>3, <1>7, <2>4 DEF AddCreator
<1>8. CASE FetchMembers(c)
  <2>1. q.group \in GroupId
    BY <1>1, <1>8, AwaitFields DEF FetchMembers, Awaiting
  <2>2. ToSelf(GroupMembersList(q.group, MembersOf(q.group))) \in NoAnswer
    BY <2>1, TableQueries, MessageTypes, AwaitTypes, NoAnswers
       DEF ToSelf, LoopAwait, GroupMembersList, IsAnswer
  <2>3. <<ToSelf(GroupMembersList(q.group, MembersOf(q.group)))>> \in Seq(NoAnswer)
    BY <2>2
  <2> QED  BY <1>2, <1>3, <1>8, <2>3 DEF FetchMembers
<1>9. CASE SyncMessages(c)
  <2>1. ASSUME NEW b \in HistoryBatches(me[c], q.since)
        PROVE  <<ToSelf(SyncBatch(b))>> \in Seq(NoAnswer)
    <3>1. SyncBatch(b) \in ServerMessage
      BY BatchTypes, MessageTypes
    <3>2. ToSelf(SyncBatch(b)) \in NoAnswer
      BY <3>1, AwaitTypes, NoAnswers DEF ToSelf, LoopAwait, SyncBatch, IsAnswer
    <3> QED  BY <3>2
  <2> QED  BY <1>2, <1>3, <1>9, <2>1 DEF SyncMessages
<1> QED  BY <1>4, <1>5, <1>6, <1>7, <1>8, <1>9

LEMMA QuietPost ==
  ASSUME TypeInv, AnswersFirst, NEW c \in Conn, PostToRouter(c)
  PROVE  Quiet(c) \/ (Ends(c) /\ script'[c] = <<>>)
<1>1. script[c] # <<>> /\ ~Answering(Head(script[c])) /\ UNCHANGED <<wire, heard>>
  BY DEF PostToRouter, Awaiting, Answering
<1>2. <<>> \in Seq(NoAnswer)
  OBVIOUS
<1>3. CASE Return(c)
  BY <1>1, <1>3, HasEntries DEF Entries, Return, Ends, InLoop
<1>4. CASE Continue(c, <<>>) /\ UNCHANGED <<phase, chanVars>>
  BY <1>1, <1>2, <1>4, GoesOnQuietly DEF chanVars
<1> QED  BY <1>3, <1>4 DEF PostToRouter

\* An actor that is not logged in has one thing to await.
LEMMA AccountAwaits ==
  ASSUME TypeInv, AnswersFirst, NEW c \in Conn,
         \/ LoginUser(c) \/ CheckName(c) \/ RegisterUser(c)
         \/ Accept(c) \/ Authenticate(c) \/ Disconnect(c) \/ LoseWrite(c)
  PROVE  /\ script'[c] # <<>> => Tail(script'[c]) \in Seq(NoAnswer)
         /\ me[c] # NoUser /\ NotYetKnown => Ends(c)
<1> USE HasEntries DEF Entries
<1>1. <<>> \in Seq(NoAnswer) /\ \A a : Tail(<<a>>) = <<>>
  OBVIOUS
<1>2. CASE LoginUser(c) \/ RegisterUser(c)
  <2>1. script[c] # <<>> /\ phase[c] = "authenticating"
    BY <1>2, WhoAwaits DEF LoginUser, RegisterUser, Awaiting
  <2>2. \E a : script'[c] = <<a>>
    BY <1>2 DEF LoginUser, RegisterUser, Welcome, Reject
  <2> QED  BY <1>1, <2>1, <2>2 DEF NotYetKnown
<1>3. CASE CheckName(c)
  <2>1. script[c] # <<>> /\ phase[c] = "authenticating" /\ Head(script[c]) \in Await
        /\ Head(script[c]).do = "nameCheck"
    BY <1>3, WhoAwaits DEF CheckName, Awaiting
  <2>2. CASE Reject(c, "UsernameTaken")
    BY <1>1, <2>1, <2>2 DEF NotYetKnown, Reject
  <2>3. CASE Continue(c, <<QueryAccount("insertUser", Head(script[c]).name, Head(script[c]).password)>>)
             /\ OnlyScript
    <3>1. QueryAccount("insertUser", Head(script[c]).name, Head(script[c]).password) \in NoAnswer
      BY <2>1, AwaitFields, AwaitTypes, NoAnswers DEF QueryAccount, AuthAwait, Await
    <3>2. <<QueryAccount("insertUser", Head(script[c]).name, Head(script[c]).password)>>
            \in Seq(NoAnswer)
      BY <3>1
    <3>3. ~Answering(Head(script[c]))
      BY <2>1 DEF Answering
    <3>4. script'[c] = <<QueryAccount("insertUser", Head(script[c]).name, Head(script[c]).password)>>
                         \o Tail(script[c])
      BY <2>3 DEF Continue
    <3>5. script'[c] \in Seq(NoAnswer)
      BY <2>1, <3>2, <3>4, ConcatTypes DEF AnswersFirst
    <3> QED  BY <2>1, <3>5, TailTypes DEF NotYetKnown
  <2> QED  BY <1>3, <2>2, <2>3 DEF CheckName
<1>4. CASE Accept(c)
  BY <1>4 DEF Accept, NotYetKnown, AnswersFirst
<1>5. CASE Authenticate(c)
  <2>1. phase[c] = "authenticating" /\ \E a : script'[c] = <<a>>
    BY <1>5 DEF Authenticate, FirstFrame
  <2> QED  BY <1>1, <2>1 DEF NotYetKnown
<1>6. CASE Disconnect(c)
  <2>1. CASE HangUp(c)
    BY <1>1, <2>1 DEF HangUp, Break, Ends, InLoop
  <2>2. CASE NoFirstFrame(c)
    BY <1>1, <2>2 DEF NoFirstFrame, Return, NotYetKnown
  <2> QED  BY <1>6, <2>1, <2>2 DEF Disconnect
<1>7. CASE LoseWrite(c)
  BY <1>1, <1>7 DEF LoseWrite, WriteFails, Break, Return, Ends, InLoop
<1> QED  BY <1>2, <1>3, <1>4, <1>5, <1>6, <1>7

\* A frame is handled by one await, an answer if it asks for one.
LEMMA HandlerAnswers ==
  ASSUME NEW u \in UserId, NEW m \in ClientMessage, clock \in Timestamp
  PROVE  \E a \in Await : /\ Handler(u, m) = <<a>> /\ a.do # "toClient"
                          /\ IF Asks(m) THEN Answering(a) /\ Meets(a, m) ELSE a \in NoAnswer
<1>1. Handler(u, m) \in Seq(Await)
  BY HandlerTypes, SeqSubset DEF LoopAwait
<1>2. PICK a : Handler(u, m) = <<a>>
  BY DEF Handler, SendSteps, ClientMessage, AuthMessage, CreateGroup
<1>3. a \in Await
  BY <1>1, <1>2
<1>4. CASE m.type \in {"Login", "Register"}
  <2>1. a = ToSelf(Error("AlreadyAuthenticated"))
    BY <1>2, <1>4 DEF Handler
  <2> QED  BY <1>2, <1>3, <1>4, <2>1 DEF ToSelf, Error, Asks, Answering, IsAnswer, Meets, Answers
<1>5. CASE m.type = "FetchGroupInfo"
  <2>1. a = QueryGroup("groupInfo", m.group)
    BY <1>2, <1>5 DEF Handler
  <2> QED  BY <1>2, <1>3, <1>5, <2>1 DEF QueryGroup, Asks, Answering, Meets
<1>6. CASE m.type \notin {"Login", "Register", "FetchGroupInfo"}
  <2>1. a.do \notin {"groupInfo", "toSelf", "toClient"}
    BY <1>2, <1>6 DEF Handler, SendSteps, ClientMessage, AuthMessage, CreateGroup, ToRouter,
                      Query, QueryGroup, QueryMember, QuerySince
  <2> QED  BY <1>2, <1>3, <1>6, <2>1, NoAnswers DEF Asks
<1> QED  BY <1>4, <1>5, <1>6

-----------------------------------------------------------------------------
(* The steps of an answer.                                                 *)

\* An answer that is written was in the hands of the actor.
LEMMA WrittenAnswer ==
  ASSUME TypeInv, AnswersFirst, NEW c \in Conn, WriteToClient(c), InLoop(c), Paired(c)
  PROVE  Paired(c)' /\ script'[c] \in Seq(NoAnswer)
<1> DEFINE L == Len(wire[c])
           g == [p \in Owed(c)' |-> IF p = <<1, L + 1>> THEN <<2, 1>> ELSE p]
           a == Head(script[c])
<1>1. /\ wire[c] \in Seq(ServerMessage) /\ script[c] # <<>> /\ a.do = "toClient"
      /\ wire'[c] = Append(wire[c], a.msg) /\ heard'[c] = heard[c] /\ chan'[c] = chan[c]
      /\ heard[c] \in Seq(FirstFrames \cup Requests)
      /\ Continue(c, <<>>) /\ InLoop(c)'
  BY HasEntries DEF Entries, WriteToClient, Awaiting, InLoop, chanVars
<1>2. script'[c] \in Seq(NoAnswer)
  <2>1. <<>> \in Seq(NoAnswer) /\ Tail(script[c]) \in Seq(NoAnswer)
    BY <1>1 DEF AnswersFirst
  <2>2. script'[c] = <<>> \o Tail(script[c])
    BY <1>1, HasEntries DEF Entries, Continue
  <2> QED  BY <2>1, <2>2, ConcatTypes
<1>3. ~(script'[c] # <<>> /\ Answering(Head(script'[c])))
  BY <1>2, TailTypes, NoAnswers
<1>4. /\ DOMAIN wire'[c] = 1 .. L + 1 /\ DOMAIN wire[c] = 1 .. L /\ L \in Nat
      /\ \A i \in 1 .. L : wire'[c][i] = wire[c][i]
      /\ wire'[c][L + 1] = a.msg
  BY <1>1, Appended
<1> HIDE DEF L
<1>5. /\ AskedAt(c)' = AskedAt(c)
      /\ \A i : i \in AnsweredAt(c)' <=> i \in AnsweredAt(c) \/ (i = L + 1 /\ IsAnswer(a.msg))
      /\ L + 1 \notin AnsweredAt(c)
  BY <1>1, <1>4 DEF AskedAt, AnsweredAt
<1>6. Answering(a) <=> IsAnswer(a.msg)
  BY <1>1 DEF Answering
<1>7. <<2, 1>> \in Place /\ <<2, 1>>[1] = 2 /\ \A p \in Place : p \in Owed(c) => p # <<1, L + 1>>
  BY <1>5, OwedParts DEF Place
<1>8. ASSUME NEW p \in Owed(c)'
      PROVE  \/ p[1] = 1 /\ p[2] = L + 1 /\ g[p] = <<2, 1>> /\ <<2, 1>> \in Owed(c)
                /\ IsAnswer(a.msg)
             \/ p[1] = 1 /\ p[2] \in 1 .. L /\ g[p] = p /\ p \in Owed(c)
             \/ p[1] = 3 /\ g[p] = p /\ p \in Owed(c)
  <2>1. p \in Place
    BY DEF Owed
  <2>2. CASE p = <<1, L + 1>>
    BY <1>1, <1>5, <1>6, <1>7, <1>8, <2>1, <2>2, OwedParts, OwedNext
  <2>3. CASE p # <<1, L + 1>>
    <3>1. CASE p[1] = 1
      BY <1>4, <1>5, <1>8, <2>1, <2>3, <3>1, OwedParts, OwedNext DEF AnsweredAt
    <3>2. CASE p[1] = 3
      BY <1>1, <1>8, <2>1, <2>3, <3>2, OwedParts, OwedNext
    <3>3. p[1] \notin {2, 4, 5}
      BY <1>3, <1>8, <2>1, OwedNext
    <3> QED  BY <2>1, <3>1, <3>2, <3>3, OwedParts
  <2> QED  BY <2>2, <2>3
<1>9. g \in [Owed(c)' -> Owed(c)]
  BY <1>8
<1>10. ASSUME NEW q \in Owed(c)
       PROVE  \E r \in Owed(c)' : g[r] = q
  <2>1. q \in Place
    BY DEF Owed
  <2>2. CASE q[1] = 2
    <3>1. q = <<2, 1>> /\ IsAnswer(a.msg)
      BY <1>6, <1>10, <2>1, <2>2, OwedParts
    <3>2. <<1, L + 1>> \in Place /\ <<1, L + 1>>[1] = 1 /\ <<1, L + 1>>[2] = L + 1
      BY <1>4 DEF Place
    <3>3. <<1, L + 1>> \in Owed(c)'
      BY <1>5, <3>1, <3>2, OwedNext
    <3> QED  BY <3>1, <3>3
  <2>3. CASE q[1] # 2
    <3>1. q \in Owed(c)'
      BY <1>1, <1>5, <1>10, <2>1, <2>3, OwedParts, OwedNext
    <3> QED  BY <1>7, <1>10, <2>1, <3>1
  <2> QED  BY <2>2, <2>3
<1> HIDE DEF g
<1>11. ASSUME NEW p \in Owed(c)', NEW k \in AskedAt(c), Fits(c, g[p], k)
       PROVE  Fits(c, p, k)'
  BY <1>1, <1>4, <1>8, <1>11 DEF Fits, Meets
<1>12. ASSUME NEW p \in Owed(c)', NEW q \in Owed(c)', Nearer(p, q)
       PROVE  Nearer(g[p], g[q])
  BY <1>4, <1>8, <1>12 DEF Nearer
<1> QED  BY <1>1, <1>2, <1>5, <1>9, <1>10, <1>11, <1>12, PairingMoves

\* An answer in the hands of the actor was the first in its channel.
LEMMA ReceivedAnswer ==
  ASSUME TypeInv, NEW c \in Conn, ReceiveRouted(c), Paired(c)
  PROVE  Paired(c)' /\ Tail(script'[c]) = <<>>
<1> DEFINE g == [p \in Owed(c)' |-> IF p[1] = 2 THEN <<3, 1>>
                                    ELSE IF p[1] = 3 THEN <<3, p[2] + 1>> ELSE p]
           m == Head(chan[c])
<1>1. /\ chan[c] \in Seq(ServerMessage) /\ chan[c] # <<>> /\ script[c] = <<>>
      /\ chan'[c] = Tail(chan[c]) /\ script'[c] = <<ToClient(m)>>
      /\ wire'[c] = wire[c] /\ heard'[c] = heard[c] /\ heard[c] \in Seq(FirstFrames \cup Requests)
      /\ InLoop(c) /\ InLoop(c)'
  BY HasEntries DEF Entries, ReceiveRouted, Idle, InLoop
<1>2. /\ \A i \in Nat \ {0} : /\ i \in DOMAIN chan'[c] <=> i + 1 \in DOMAIN chan[c]
                              /\ i \in DOMAIN chan'[c] => chan'[c][i] = chan[c][i + 1]
      /\ m = chan[c][1] /\ 1 \in DOMAIN chan[c]
  BY <1>1
<1>3. script'[c] # <<>> /\ Head(script'[c]) = ToClient(m) /\ Tail(script'[c]) = <<>>
  BY <1>1
<1>4. ToClient(m).do = "toClient" /\ ToClient(m).msg = m /\ (Answering(ToClient(m)) <=> IsAnswer(m))
  BY DEF ToClient, Answering
<1>5. AskedAt(c)' = AskedAt(c) /\ AnsweredAt(c)' = AnsweredAt(c)
  BY <1>1 DEF AskedAt, AnsweredAt
<1> HIDE DEF m
<1>6. ASSUME NEW p \in Owed(c)'
      PROVE  \/ p[1] = 1 /\ g[p] = p /\ p \in Owed(c)
             \/ p = <<2, 1>> /\ g[p] = <<3, 1>> /\ <<3, 1>> \in Owed(c)
             \/ /\ p[1] = 3 /\ p[2] \in Nat \ {0} /\ p[2] \in DOMAIN chan'[c]
                /\ g[p] = <<3, p[2] + 1>> /\ <<3, p[2] + 1>> \in Owed(c)
  <2>1. p \in Place /\ p[2] \in Nat \ {0}
    BY OwedParts DEF Owed
  <2>2. <<3, 1>> \in Place /\ <<3, 1>>[1] = 3 /\ <<3, 1>>[2] = 1
    BY DEF Place
  <2>3. <<3, p[2] + 1>> \in Place /\ <<3, p[2] + 1>>[1] = 3 /\ <<3, p[2] + 1>>[2] = p[2] + 1
    BY <2>1 DEF Place
  <2>4. CASE p[1] = 1
    BY <1>5, <1>6, <2>1, <2>4, OwedParts, OwedNext
  <2>5. CASE p[1] = 2
    BY <1>1, <1>2, <1>3, <1>4, <1>6, <2>1, <2>2, <2>5, OwedParts, OwedNext
  <2>6. CASE p[1] = 3
    <3>1. p[2] \in DOMAIN chan'[c] /\ IsAnswer(chan'[c][p[2]])
      BY <1>6, <2>1, <2>6, OwedNext
    <3>2. p[2] + 1 \in DOMAIN chan[c] /\ IsAnswer(chan[c][p[2] + 1])
      BY <1>2, <2>1, <3>1
    <3>3. <<3, p[2] + 1>> \in Owed(c)
      BY <1>1, <2>3, <3>2, OwedParts
    <3> QED  BY <1>6, <2>1, <2>6, <3>1, <3>3
  <2>7. CASE p[1] \in {4, 5}
    BY <1>3, <1>4, <1>6, <2>1, <2>7, OwedNext
  <2> QED  BY <2>1, <2>4, <2>5, <2>6, <2>7, OwedParts
<1>7. g \in [Owed(c)' -> Owed(c)]
  BY <1>6
<1>8. ASSUME NEW q \in Owed(c)
      PROVE  \E r \in Owed(c)' : g[r] = q
  <2>1. q \in Place /\ q[2] \in Nat \ {0} /\ q = <<q[1], q[2]>> /\ q[1] \in {1, 3}
    BY <1>1, OwedParts DEF Owed
  <2>2. CASE q[1] = 1
    BY <1>5, <1>8, <2>1, <2>2, OwedParts, OwedNext
  <2>3. CASE q[1] = 3 /\ q[2] = 1
    <3>1. IsAnswer(m)
      BY <1>2, <1>8, <2>1, <2>3, OwedParts
    <3>2. <<2, 1>> \in Place /\ <<2, 1>>[1] = 2
      BY DEF Place
    <3>3. <<2, 1>> \in Owed(c)'
      BY <1>1, <1>3, <1>4, <3>1, <3>2, OwedNext
    <3> QED  BY <2>1, <2>3, <3>2, <3>3
  <2>4. CASE q[1] = 3 /\ q[2] # 1
    <3> DEFINE r == <<3, q[2] - 1>>
    <3>1. r \in Place /\ r[1] = 3 /\ r[2] = q[2] - 1 /\ q[2] - 1 \in Nat \ {0}
      BY <2>1, <2>4 DEF Place
    <3>2. q[2] \in DOMAIN chan[c] /\ IsAnswer(chan[c][q[2]]) /\ q[2] = (q[2] - 1) + 1
      BY <1>8, <2>1, <2>4, OwedParts
    <3>3. q[2] - 1 \in DOMAIN chan'[c] /\ IsAnswer(chan'[c][q[2] - 1])
      BY <1>2, <3>1, <3>2
    <3>4. r \in Owed(c)'
      BY <1>1, <3>1, <3>3, OwedNext
    <3> QED  BY <2>1, <2>4, <3>1, <3>4
  <2> QED  BY <2>1, <2>2, <2>3, <2>4
<1> HIDE DEF g
<1>9. ASSUME NEW p \in Owed(c)'
      PROVE  \/ p[1] = 1 /\ g[p] = p
             \/ p[1] = 2 /\ p[2] = 1 /\ g[p][1] = 3 /\ g[p][2] = 1
             \/ /\ p[1] = 3 /\ p[2] \in Nat \ {0} /\ p[2] \in DOMAIN chan'[c]
                /\ g[p][1] = 3 /\ g[p][2] = p[2] + 1
  <2>1. \/ p[1] = 1 /\ g[p] = p
        \/ p = <<2, 1>> /\ g[p] = <<3, 1>>
        \/ /\ p[1] = 3 /\ p[2] \in Nat \ {0} /\ p[2] \in DOMAIN chan'[c]
           /\ g[p] = <<3, p[2] + 1>>
    BY <1>6, <1>9
  <2>2. CASE p = <<2, 1>> /\ g[p] = <<3, 1>>
    <3>1. p[1] = 2 /\ p[2] = 1
      BY <2>2
    <3> QED  BY <2>2, <3>1
  <2> QED  BY <2>1, <2>2
<1>10. ASSUME NEW p \in Owed(c)', NEW k \in AskedAt(c), Fits(c, g[p], k)
       PROVE  Fits(c, p, k)'
  <2>1. CASE p[1] = 1
    BY <1>1, <1>9, <1>10, <2>1 DEF Fits
  <2>2. CASE p[1] = 2
    BY <1>1, <1>2, <1>3, <1>4, <1>9, <1>10, <2>2 DEF Fits, Meets
  <2>3. CASE p[1] = 3
    <3>1. chan'[c][p[2]] = chan[c][g[p][2]]
      BY <1>2, <1>9, <2>3
    <3> QED  BY <1>1, <1>9, <1>10, <2>3, <3>1 DEF Fits
  <2> QED  BY <1>9, <2>1, <2>2, <2>3
<1>11. ASSUME NEW p \in Owed(c)', NEW q \in Owed(c)', Nearer(p, q)
       PROVE  Nearer(g[p], g[q])
  BY <1>9, <1>11 DEF Nearer
<1> QED  BY <1>1, <1>3, <1>5, <1>7, <1>8, <1>10, <1>11, PairingMoves

\* An answer in the channel was given by the handler of the last request.
LEMMA PostedAnswer ==
  ASSUME TypeInv, AnswersFirst, NEW c \in Conn, PostToSelf(c), InLoop(c), Paired(c)
  PROVE  Paired(c)' /\ script'[c] \in Seq(NoAnswer)
<1> DEFINE L == Len(chan[c])
           g == [p \in Owed(c)' |-> IF p = <<3, L + 1>> THEN <<4, 1>> ELSE p]
           a == Head(script[c])
<1>1. /\ chan[c] \in Seq(ServerMessage) /\ script[c] # <<>> /\ a.do = "toSelf"
      /\ chan'[c] = Append(chan[c], a.msg) /\ heard'[c] = heard[c] /\ wire'[c] = wire[c]
      /\ heard[c] \in Seq(FirstFrames \cup Requests)
      /\ Continue(c, <<>>) /\ InLoop(c)'
  BY HasEntries DEF Entries, PostToSelf, Awaiting, InLoop
<1>2. script'[c] \in Seq(NoAnswer)
  <2>1. <<>> \in Seq(NoAnswer) /\ Tail(script[c]) \in Seq(NoAnswer)
    BY <1>1 DEF AnswersFirst
  <2>2. script'[c] = <<>> \o Tail(script[c])
    BY <1>1, HasEntries DEF Entries, Continue
  <2> QED  BY <2>1, <2>2, ConcatTypes
<1>3. ~(script'[c] # <<>> /\ Answering(Head(script'[c])))
  BY <1>2, TailTypes, NoAnswers
<1>4. /\ DOMAIN chan'[c] = 1 .. L + 1 /\ DOMAIN chan[c] = 1 .. L /\ L \in Nat
      /\ \A i \in 1 .. L : chan'[c][i] = chan[c][i]
      /\ chan'[c][L + 1] = a.msg
  BY <1>1, Appended
<1> HIDE DEF L
<1>5. AskedAt(c)' = AskedAt(c) /\ AnsweredAt(c)' = AnsweredAt(c)
  BY <1>1 DEF AskedAt, AnsweredAt
<1>6. Answering(a) <=> IsAnswer(a.msg)
  BY <1>1 DEF Answering
<1>7. /\ <<4, 1>> \in Place /\ <<4, 1>>[1] = 4
      /\ <<3, L + 1>> \in Place /\ <<3, L + 1>>[1] = 3 /\ <<3, L + 1>>[2] = L + 1
  BY <1>4 DEF Place
<1>8. ASSUME NEW p \in Owed(c)'
      PROVE  \/ p[1] = 3 /\ p[2] = L + 1 /\ g[p] = <<4, 1>> /\ <<4, 1>> \in Owed(c)
             \/ p[1] = 3 /\ p[2] \in 1 .. L /\ g[p] = p /\ p \in Owed(c)
             \/ p[1] = 1 /\ g[p] = p /\ p \in Owed(c)
  <2>1. p \in Place
    BY DEF Owed
  <2>2. CASE p = <<3, L + 1>>
    <3>1. IsAnswer(a.msg)
      BY <1>4, <1>7, <1>8, <2>2, OwedNext
    <3>2. <<4, 1>> \in Owed(c)
      BY <1>1, <1>6, <1>7, <3>1, OwedParts
    <3> QED  BY <1>7, <1>8, <2>2, <3>2
  <2>3. CASE p # <<3, L + 1>>
    <3>1. CASE p[1] = 3
      <4>1. p[2] \in 1 .. L /\ IsAnswer(chan'[c][p[2]])
        BY <1>4, <1>8, <2>1, <2>3, <3>1, OwedNext
      <4>2. p \in Owed(c)
        BY <1>1, <1>4, <2>1, <3>1, <4>1, OwedParts
      <4> QED  BY <1>8, <2>3, <3>1, <4>1, <4>2
    <3>2. CASE p[1] = 1
      BY <1>5, <1>8, <2>1, <2>3, <3>2, OwedParts, OwedNext
    <3>3. p[1] \notin {2, 4, 5}
      BY <1>3, <1>8, <2>1, OwedNext
    <3> QED  BY <2>1, <3>1, <3>2, <3>3, OwedParts
  <2> QED  BY <2>2, <2>3
<1>9. g \in [Owed(c)' -> Owed(c)]
  BY <1>8
<1>10. ASSUME NEW q \in Owed(c)
       PROVE  \E r \in Owed(c)' : g[r] = q
  <2>1. q \in Place
    BY DEF Owed
  <2>2. CASE q[1] = 4
    <3>1. q = <<4, 1>> /\ IsAnswer(a.msg)
      BY <1>6, <1>10, <2>1, <2>2, OwedParts
    <3>2. L + 1 \in DOMAIN chan'[c] /\ IsAnswer(chan'[c][L + 1])
      BY <1>4, <3>1
    <3>3. <<3, L + 1>> \in Owed(c)'
      BY <1>1, <1>7, <3>2, OwedNext
    <3> QED  BY <3>1, <3>3
  <2>3. CASE q[1] = 3
    <3>1. q[2] \in 1 .. L /\ IsAnswer(chan[c][q[2]])
      BY <1>4, <1>10, <2>1, <2>3, OwedParts
    <3>2. q[2] \in DOMAIN chan'[c] /\ IsAnswer(chan'[c][q[2]])
      BY <1>4, <3>1
    <3>3. q \in Owed(c)' /\ q # <<3, L + 1>>
      BY <1>1, <1>4, <1>7, <2>1, <2>3, <3>1, <3>2, OwedNext
    <3> QED  BY <3>3
  <2>4. CASE q[1] = 1
    <3>1. q \in Owed(c)' /\ q # <<3, L + 1>>
      BY <1>5, <1>7, <1>10, <2>1, <2>4, OwedParts, OwedNext
    <3> QED  BY <3>1
  <2>5. q[1] \notin {2, 5}
    BY <1>1, <1>10, <2>1, OwedParts
  <2> QED  BY <2>1, <2>2, <2>3, <2>4, <2>5, OwedParts
<1> HIDE DEF g
<1>11. ASSUME NEW p \in Owed(c)', NEW k \in AskedAt(c), Fits(c, g[p], k)
       PROVE  Fits(c, p, k)'
  BY <1>1, <1>4, <1>8, <1>11 DEF Fits, Meets
<1>12. ASSUME NEW p \in Owed(c)', NEW q \in Owed(c)', Nearer(p, q)
       PROVE  Nearer(g[p], g[q])
  BY <1>4, <1>8, <1>12 DEF Nearer
<1> QED  BY <1>1, <1>2, <1>5, <1>9, <1>10, <1>11, <1>12, PairingMoves

LEMMA ConsParts ==
  ASSUME NEW S, NEW t \in Seq(S), NEW a
  PROVE  <<a>> \o t # <<>> /\ Head(<<a>> \o t) = a /\ Tail(<<a>> \o t) = t
<1>1. t \in Seq(S \cup {a}) /\ <<a>> \in Seq(S \cup {a})
  OBVIOUS
<1>2. <<a>> \o t \in Seq(S \cup {a}) /\ Len(<<a>> \o t) = 1 + Len(t)
      /\ \A i \in 1 .. Len(t) : (<<a>> \o t)[i + 1] = t[i]
      /\ (<<a>> \o t)[1] = a
  BY <1>1
<1>3. Tail(<<a>> \o t) \in Seq(S \cup {a}) /\ Len(Tail(<<a>> \o t)) = Len(t)
      /\ \A i \in 1 .. Len(t) : Tail(<<a>> \o t)[i] = t[i]
  BY <1>2
<1> QED  BY <1>1, <1>2, <1>3, SameSeq

\* What the query of a group finds is the answer to the request at hand.
LEMMA FoundAnswer ==
  ASSUME TypeInv, AnswersFirst, NEW c \in Conn, FetchInfo(c), Paired(c)
  PROVE  Paired(c)' /\ Tail(script'[c]) \in Seq(NoAnswer)
<1> DEFINE q == Head(script[c])
<1>1. /\ script[c] # <<>> /\ q.do = "groupInfo" /\ q \in Await
      /\ wire'[c] = wire[c] /\ heard'[c] = heard[c] /\ chan'[c] = chan[c]
      /\ InLoop(c)' <=> InLoop(c)
      /\ heard[c] \in Seq(FirstFrames \cup Requests)
  BY WhoAwaits, HasEntries DEF Entries, FetchInfo, Awaiting, OnlyScript, chanVars, InLoop
<1>2. PICK m : /\ m \in {GroupInfo(q.group), Error("GroupNotFound"), Error("InternalError")}
               /\ Continue(c, <<ToSelf(m)>>)
  BY DEF FetchInfo
<1>3. script'[c] = <<ToSelf(m)>> \o Tail(script[c]) /\ Tail(script[c]) \in Seq(NoAnswer)
  BY <1>1, <1>2, HasEntries DEF Entries, Continue, AnswersFirst
<1>4. script'[c] # <<>> /\ Head(script'[c]) = ToSelf(m) /\ Tail(script'[c]) = Tail(script[c])
  BY <1>3, ConsParts
<1>5. ToSelf(m).do = "toSelf" /\ ToSelf(m).msg = m /\ Answering(ToSelf(m)) /\ Answering(q)
  BY <1>1, <1>2 DEF ToSelf, GroupInfo, Error, Answering, IsAnswer
<1>6. AskedAt(c)' = AskedAt(c) /\ AnsweredAt(c)' = AnsweredAt(c)
  BY <1>1 DEF AskedAt, AnsweredAt
<1>7. ASSUME NEW p \in Place PROVE p \in Owed(c)' <=> p \in Owed(c)
  <2>1. CASE p[1] = 1
    BY <1>6, <2>1, OwedParts, OwedNext
  <2>2. CASE p[1] \in {2, 3, 5}
    BY <1>1, <1>4, <1>5, <2>2, OwedParts, OwedNext
  <2>3. CASE p[1] = 4
    BY <1>1, <1>4, <1>5, <2>3, OwedParts, OwedNext
  <2> QED  BY <2>1, <2>2, <2>3, OwedParts
<1>8. Owed(c)' \subseteq Place /\ Owed(c) \subseteq Place
  BY DEF Owed, Place
<1>9. ASSUME NEW p \in Place, p \in Owed(c), NEW k \in AskedAt(c), Fits(c, p, k)
      PROVE  Fits(c, p, k)'
  <2>1. CASE p[1] \in {1, 3}
    BY <1>1, <1>9, <2>1 DEF Fits
  <2>2. CASE p[1] = 4
    <3>1. Meets(q, heard[c][k])
      BY <1>9, <2>2 DEF Fits
    <3>2. Meets(ToSelf(m), heard[c][k])
      BY <1>1, <1>2, <1>5, <3>1 DEF Meets, Answers
    <3>3. Meets(Head(script'[c]), heard'[c][k])
      BY <1>1, <1>4, <3>2
    <3> QED  BY <2>2, <3>3 DEF Fits, Meets
  <2> QED  BY <1>1, <1>9, <2>1, <2>2, OwedParts
<1> QED  BY <1>1, <1>3, <1>4, <1>6, <1>7, <1>8, <1>9, PairingStays

\* Where the wire, the frames and what the actor holds stay, so does the pairing.
LEMMA QuietPairing ==
  ASSUME TypeInv, NEW c \in Conn, Quiet(c), Paired(c)
  PROVE  Paired(c)'
<1>1. AskedAt(c)' = AskedAt(c) /\ AnsweredAt(c)' = AnsweredAt(c)
      /\ heard[c] \in Seq(FirstFrames \cup Requests)
  BY HasEntries DEF Entries, Quiet, AskedAt, AnsweredAt
<1>2. \/ script'[c] = script[c]
      \/ /\ ~(script[c] # <<>> /\ Answering(Head(script[c])))
         /\ ~(script'[c] # <<>> /\ Answering(Head(script'[c])))
  BY TailTypes, NoAnswers DEF Quiet
<1>3. ASSUME NEW p \in Place PROVE p \in Owed(c)' <=> p \in Owed(c)
  <2>1. CASE p[1] \in {1, 3, 5}
    BY <1>1, <2>1, OwedParts, OwedNext DEF Quiet
  <2>2. CASE p[1] \in {2, 4}
    BY <1>2, <2>2, OwedParts, OwedNext DEF Quiet
  <2> QED  BY <2>1, <2>2, OwedParts
<1>4. Owed(c)' \subseteq Place /\ Owed(c) \subseteq Place
  BY DEF Owed, Place
<1>5. ASSUME NEW p \in Place, p \in Owed(c), NEW k \in AskedAt(c), Fits(c, p, k)
      PROVE  Fits(c, p, k)'
  <2>1. CASE p[1] \in {1, 3}
    BY <1>5, <2>1 DEF Fits, Quiet
  <2>2. CASE p[1] \in {2, 4}
    <3>1. script'[c] = script[c]
      BY <1>2, <1>5, <2>2, OwedParts
    <3> QED  BY <1>5, <2>2, <3>1 DEF Fits, Quiet, Meets
  <2> QED  BY <1>5, <2>1, <2>2, OwedParts
<1> QED  BY <1>1, <1>3, <1>4, <1>5, PairingStays DEF Quiet

\* When the loop is left, what is on the wire stays there and the rest is lost.
LEMMA EndPairing ==
  ASSUME TypeInv, NEW c \in Conn, Ends(c), Paired(c)
  PROVE  Paired(c)'
<1>1. AskedAt(c)' = AskedAt(c) /\ AnsweredAt(c)' = AnsweredAt(c)
      /\ heard[c] \in Seq(FirstFrames \cup Requests)
  BY HasEntries DEF Entries, Ends, AskedAt, AnsweredAt
<1>2. Owed(c)' \subseteq Place /\ Owed(c) \subseteq Place
  BY DEF Owed, Place
<1>3. ASSUME NEW p \in Owed(c)' PROVE p[1] = 1 /\ p[2] \in Nat /\ p \in Owed(c)
  BY <1>1, <1>2, <1>3, OwedParts, OwedNext DEF Ends
<1>4. ASSUME NEW p \in Owed(c)', NEW q \in Owed(c), Nearer(q, p) PROVE q \in Owed(c)'
  <2>1. q[1] = 1
    BY <1>2, <1>3, <1>4, OwedParts DEF Nearer
  <2> QED  BY <1>1, <1>2, <1>4, <2>1, OwedParts, OwedNext
<1>5. ASSUME NEW p \in Place, p[1] = 1, NEW k \in AskedAt(c), Fits(c, p, k)
      PROVE  Fits(c, p, k)'
  BY <1>5 DEF Fits, Ends
<1> QED  BY <1>1, <1>2, <1>3, <1>4, <1>5, PairingStays DEF Ends

\* A frame that asks is answered by the handler it starts, after all the
\* answers that are owed already.
LEMMA AskedAnswer ==
  ASSUME TypeInv, IdentityInv, NEW c \in Conn, NEW m \in Requests, HandleFrame(c, m), Paired(c)
  PROVE  Paired(c)' /\ Tail(script'[c]) \in Seq(NoAnswer)
<1> DEFINE L == Len(heard[c])
<1>1. /\ heard[c] \in Seq(FirstFrames \cup Requests) /\ heard'[c] = Append(heard[c], m)
      /\ script[c] = <<>> /\ script'[c] = Handler(me[c], m)
      /\ wire'[c] = wire[c] /\ chan'[c] = chan[c] /\ InLoop(c) /\ InLoop(c)'
      /\ me[c] \in UserId /\ clock \in Timestamp /\ m \in ClientMessage
  BY HasEntries, RequestAssumption
     DEF Entries, HandleFrame, Idle, InLoop, chanVars, TypeInv, TypeOK, UsersKnown, LoggedIn
<1>2. PICK a \in Await : /\ Handler(me[c], m) = <<a>> /\ a.do # "toClient"
                         /\ IF Asks(m) THEN Answering(a) /\ Meets(a, m) ELSE a \in NoAnswer
  BY <1>1, HandlerAnswers
<1>3. script'[c] # <<>> /\ Head(script'[c]) = a /\ Tail(script'[c]) \in Seq(NoAnswer)
  <2>1. <<>> \in Seq(NoAnswer)
    OBVIOUS
  <2> QED  BY <1>1, <1>2, <2>1
<1>4. /\ DOMAIN heard'[c] = 1 .. L + 1 /\ DOMAIN heard[c] = 1 .. L /\ L \in Nat /\ L > 0
      /\ \A k \in 1 .. L : heard'[c][k] = heard[c][k]
      /\ heard'[c][L + 1] = m
  <2>1. heard[c] # <<>>
    BY <1>1, NullAssumption DEF IdentityInv, NamedAsHeard
  <2>2. L # 0 /\ L \in Nat
    BY <1>1, <2>1
  <2> QED  BY <1>1, <2>2, Appended
<1> HIDE DEF L
<1>5. /\ AnsweredAt(c)' = AnsweredAt(c)
      /\ \A k : k \in AskedAt(c)' <=> k \in AskedAt(c) \/ (k = L + 1 /\ Asks(m))
      /\ \A k \in AskedAt(c) : k \in 1 .. L /\ heard'[c][k] = heard[c][k]
  BY <1>1, <1>4 DEF AskedAt, AnsweredAt
<1>6. ASSUME NEW p \in Place
      PROVE  p \in Owed(c)' <=> p \in Owed(c) \/ (p = <<4, 1>> /\ Asks(m))
  <2>1. CASE p[1] \in {1, 3, 5}
    <3>1. p # <<4, 1>>
      BY <2>1
    <3> QED  BY <1>1, <1>5, <2>1, <3>1, OwedParts, OwedNext
  <2>2. CASE p[1] \in {2, 4}
    BY <1>1, <1>2, <1>3, <2>2, NoAnswers, OwedParts, OwedNext
  <2> QED  BY <2>1, <2>2, OwedParts
<1>7. Owed(c)' \subseteq Place /\ Owed(c) \subseteq Place /\ <<4, 1>> \in Place
  BY DEF Owed, Place
<1>8. \A p \in Owed(c) : p[1] \in {1, 3} /\ p # <<4, 1>>
  BY <1>1, <1>7, OwedParts
<1>9. ASSUME NEW p \in Place, p \in Owed(c), NEW k \in AskedAt(c), Fits(c, p, k)
      PROVE  Fits(c, p, k)'
  <2>1. heard'[c][k] = heard[c][k] /\ p[1] \in {1, 3}
    BY <1>5, <1>8, <1>9
  <2> QED  BY <1>1, <1>9, <2>1 DEF Fits
<1>10. CASE ~Asks(m)
  <2>1. AskedAt(c)' = AskedAt(c)
    BY <1>5, <1>10
  <2> QED  BY <1>1, <1>3, <1>6, <1>7, <1>9, <1>10, <2>1, PairingStays
<1>11. CASE Asks(m)
  <2>1. PICK f \in [Owed(c) -> AskedAt(c)] :
          /\ \A p \in Owed(c) : Fits(c, p, f[p])
          /\ \A p, q \in Owed(c) : Nearer(p, q) => f[p] < f[q]
          /\ \A p \in Owed(c), k \in AskedAt(c) : k < f[p] => \E q \in Owed(c) : f[q] = k
          /\ InLoop(c) => \A k \in AskedAt(c) : \E p \in Owed(c) : f[p] = k
    BY DEF Paired
  <2>2. PICK h \in [Owed(c)' -> AskedAt(c)'] :
          h[<<4, 1>>] = L + 1 /\ \A p \in Owed(c) : h[p] = f[p]
    <3> DEFINE e == [p \in Owed(c)' |-> IF p = <<4, 1>> THEN L + 1 ELSE f[p]]
    <3>1. e \in [Owed(c)' -> AskedAt(c)']
      BY <1>5, <1>6, <1>7, <1>11
    <3>2. e[<<4, 1>>] = L + 1 /\ \A p \in Owed(c) : e[p] = f[p]
      BY <1>6, <1>7, <1>8, <1>11
    <3> QED  BY <3>1, <3>2
  <2>3. \A p \in Owed(c)' : p \in Owed(c) \/ p = <<4, 1>>
    BY <1>6, <1>7
  <2>4. ASSUME NEW p \in Owed(c)' PROVE Fits(c, p, h[p])'
    <3>1. CASE p \in Owed(c)
      <4>1. h[p] \in AskedAt(c) /\ Fits(c, p, h[p]) /\ p \in Place
        BY <1>7, <2>1, <2>2, <3>1
      <4> QED  BY <1>9, <3>1, <4>1
    <3>2. CASE p = <<4, 1>>
      <4>1. h[p] = L + 1 /\ p[1] = 4
        BY <2>2, <3>2
      <4>2. Meets(Head(script'[c]), heard'[c][h[p]])
        BY <1>2, <1>3, <1>4, <1>11, <4>1
      <4> QED  BY <4>1, <4>2 DEF Fits, Meets
    <3> QED  BY <2>3, <2>4, <3>1, <3>2
  <2>5. ASSUME NEW p \in Owed(c)', NEW q \in Owed(c)', Nearer(p, q) PROVE h[p] < h[q]
    <3>1. <<4, 1>>[1] = 4
      OBVIOUS
    <3>2. p \in Owed(c)
      BY <1>8, <2>3, <2>5, <3>1 DEF Nearer
    <3>3. CASE q \in Owed(c)
      BY <2>1, <2>2, <2>5, <3>2, <3>3
    <3>4. CASE q = <<4, 1>>
      <4>1. h[p] \in AskedAt(c) /\ h[q] = L + 1
        BY <2>1, <2>2, <3>2, <3>4
      <4> QED  BY <1>4, <1>5, <4>1
    <3> QED  BY <2>3, <2>5, <3>3, <3>4
  <2>6. ASSUME NEW k \in AskedAt(c)' PROVE \E q \in Owed(c)' : h[q] = k
    <3>1. CASE k \in AskedAt(c)
      BY <1>1, <1>6, <1>7, <2>1, <2>2, <3>1
    <3>2. CASE k = L + 1
      BY <1>6, <1>7, <1>11, <2>2, <3>2
    <3> QED  BY <1>5, <2>6, <3>1, <3>2
  <2>7. Paired(c)' <=>
          \E ask \in [Owed(c)' -> AskedAt(c)'] :
            /\ \A p \in Owed(c)' : Fits(c, p, ask[p])'
            /\ \A p, q \in Owed(c)' : Nearer(p, q) => ask[p] < ask[q]
            /\ \A p \in Owed(c)', k \in AskedAt(c)' : k < ask[p] => \E q \in Owed(c)' : ask[q] = k
            /\ InLoop(c)' => \A k \in AskedAt(c)' : \E p \in Owed(c)' : ask[p] = k
    BY DEF Paired, Nearer
  <2> QED  BY <1>3, <2>4, <2>5, <2>6, <2>7
<1> QED  BY <1>10, <1>11

-----------------------------------------------------------------------------
(* Requests and replies.                                                   *)

LEMMA ReplyByActor ==
  ASSUME TypeInv, Founded, SessionInv, IdentityInv, GreetingInv, OneFrame, ReplyInv, [Next]_vars,
         NEW c \in Conn, Actor(c) \/ Client(c)
  PROVE  ReplyInv'
<1> USE DEF ReplyInv
<1>7. phase[c] = "leaving" => Head(script[c]).do = "toRouter"
  <2>1. phase[c] = "leaving" => Head(script[c]) = ToRouter(UserDisconnected(me[c]))
    BY DEF SessionInv, LeavesLast
  <2> QED  BY <2>1 DEF ToRouter
<1>1. \A d \in Conn \ {c} : Aside(d)
  BY OthersStand
<1>2. /\ script'[c] # <<>> => Tail(script'[c]) \in Seq(NoAnswer)
      /\ me[c] # NoUser => Paired(c)'
  <2>1. CASE Quiet(c)
    BY <2>1, QuietPairing, TailTypes DEF AnswersFirst, Quiet
  <2>2. CASE \/ LoginUser(c) \/ CheckName(c) \/ RegisterUser(c)
             \/ Accept(c) \/ Authenticate(c) \/ Disconnect(c) \/ LoseWrite(c)
    BY <2>2, AccountAwaits, EndPairing DEF SessionInv
  <2>3. CASE PostToRouter(c)
    BY <2>1, <2>3, QuietPost, EndPairing
  <2>4. CASE WriteToClient(c)
    <3>1. CASE InLoop(c) /\ me[c] # NoUser
      BY <2>4, <3>1, WrittenAnswer, TailTypes
    <3>2. CASE ~(InLoop(c) /\ me[c] # NoUser)
      <4>1. script[c] # <<>> /\ Head(script[c]).do = "toClient"
        BY <2>4 DEF WriteToClient, Awaiting
      <4>2. phase[c] = "rejecting"
        <5>1. ~LoggedIn(c)
          <6>1. phase[c] # "leaving"
            BY <1>7, <4>1
          <6>2. LoggedIn(c) => me[c] # NoUser
            BY NullAssumption DEF TypeInv, UsersKnown
          <6> QED  BY <3>2, <6>1, <6>2 DEF LoggedIn, InLoop
        <5> QED  BY <4>1, <5>1, WhereAwaits DEF GreetingInv, LoggedIn
      <4>3. script'[c] = <<>> /\ me[c] = NoUser
        BY <2>4, <4>2, HasEntries DEF Entries, WriteToClient, Return, SessionInv, NotYetKnown
      <4> QED  BY <4>3
    <3> QED  BY <3>1, <3>2
  <2>5. CASE ReceiveRouted(c)
    <3>1. me[c] # NoUser
      BY <2>5, NullAssumption DEF ReceiveRouted, Idle, TypeInv, UsersKnown, LoggedIn
    <3>2. <<>> \in Seq(NoAnswer)
      OBVIOUS
    <3> QED  BY <2>5, <3>1, <3>2, ReceivedAnswer
  <2>6. CASE PostToSelf(c)
    <3>1. script[c] # <<>> /\ Head(script[c]).do = "toSelf"
      BY <2>6 DEF PostToSelf, Awaiting
    <3>2. LoggedIn(c) /\ me[c] # NoUser
      BY <3>1, WhoAwaits, NullAssumption
    <3>3. InLoop(c)
      BY <1>7, <3>1, <3>2 DEF LoggedIn, InLoop
    <3> QED  BY <2>6, <3>2, <3>3, PostedAnswer, TailTypes
  <2>7. CASE FetchInfo(c)
    <3>1. me[c] # NoUser
      BY <2>7, WhoAwaits, NullAssumption DEF FetchInfo, Awaiting
    <3> QED  BY <2>7, <3>1, FoundAnswer
  <2>8. ASSUME NEW m \in Requests, HandleFrame(c, m)
        PROVE  /\ script'[c] # <<>> => Tail(script'[c]) \in Seq(NoAnswer)
               /\ me[c] # NoUser => Paired(c)'
    <3>1. me[c] # NoUser
      BY <2>8, NullAssumption DEF HandleFrame, Idle, TypeInv, UsersKnown, LoggedIn
    <3> QED  BY <2>8, <3>1, AskedAnswer
  <2> QED  BY <2>1, <2>2, <2>3, <2>4, <2>5, <2>6, <2>7, <2>8, QuietGreeting, QuietHandlers
           DEF Actor, ConnStep, Client, Request
<1>3. AnswersFirst'
  BY <1>1, <1>2 DEF AnswersFirst, Aside
<1>4. LifeStep(c) /\ Carried(c)
  BY LifeOfStep, CarriedByStep DEF SessionInv
<1>5. NoAnswerYet'
  <2> SUFFICES ASSUME NEW d \in Conn, me'[d] = NoUser, NEW i \in DOMAIN chan'[d]
               PROVE  ~IsAnswer(chan'[d][i])
    BY DEF NoAnswerYet
  <2>1. me[d] = NoUser
    BY HeardStays
  <2>2. CASE chan'[d] = chan[d]
    BY <2>1, <2>2 DEF NoAnswerYet
  <2>3. d = c => ~PostToSelf(c) /\ ~ReceiveRouted(c)
    BY <2>1, WhoAwaits, NullAssumption
       DEF PostToSelf, ReceiveRouted, Awaiting, Idle, TypeInv, UsersKnown, LoggedIn
  <2> QED  BY <1>1, <1>4, <2>2, <2>3 DEF Carried, Aside
<1>6. ASSUME NEW d \in Conn, me'[d] # NoUser PROVE Paired(d)'
  <2>1. CASE d # c
    <3>1. Quiet(d) /\ me[d] # NoUser
      BY <1>1, <1>6, <2>1 DEF Aside, Quiet, InLoop
    <3> QED  BY <3>1, QuietPairing
  <2>2. CASE d = c /\ me[c] = NoUser
    <3>1. phase[c] = "authenticating" /\ phase'[c] = "greeting"
      BY <1>4, <1>6, <2>2 DEF LifeStep
    <3>2. wire[c] = <<>> /\ Len(heard[c]) <= 1
      BY <2>2, <3>1 DEF GreetingInv, Stage, OneFrame
    <3>3. PICK u : Welcome(c, u)
      <4>1. ~Settled(c) /\ ~Authenticate(c) /\ ~CheckName(c)
        BY <1>6, <2>2 DEF Settled, Authenticate, FirstFrame, CheckName, Reject, OnlyScript
      <4>2. LoginUser(c) \/ RegisterUser(c)
        BY <4>1, SettledStep
      <4> QED  BY <1>6, <2>2, <4>2 DEF LoginUser, RegisterUser, Reject
    <3>4. script'[c] = <<Query("fetchGroups")>> /\ wire'[c] = <<>> /\ Len(heard'[c]) <= 1
          /\ chan'[c] = chan[c] /\ heard'[c] \in Seq(FirstFrames \cup Requests)
      BY <3>2, <3>3, HasEntries DEF Entries, Welcome, chanVars
    <3>5. script'[c] # <<>> /\ ~Answering(Head(script'[c]))
      BY <3>4 DEF Query, Answering
    <3>6. AskedAt(c)' = {} /\ AnsweredAt(c)' = {}
      BY <3>4 DEF AskedAt, AnsweredAt
    <3>7. Owed(c)' = {}
      <4> SUFFICES ASSUME NEW p \in Owed(c)' PROVE FALSE
        OBVIOUS
      <4>1. p \in Place
        BY DEF Owed, Place
      <4>2. \A i \in DOMAIN chan'[c] : ~IsAnswer(chan'[c][i])
        BY <2>2, <3>4 DEF NoAnswerYet
      <4> QED  BY <3>5, <3>6, <4>1, <4>2, OwedNext
    <3> QED  BY <2>2, <3>6, <3>7, PairingStarts
  <2> QED  BY <1>2, <2>1, <2>2
<1> QED  BY <1>3, <1>5, <1>6

\* The router sends no answers, so what it adds to a channel is none.
LEMMA ReplyByRouter ==
  ASSUME TypeInv, RoutedKinds, ReplyInv, RouterTask
  PROVE  ReplyInv'
<1> USE DEF ReplyInv
<1>1. UNCHANGED <<phase, me, script, wire, heard>>
  BY QueueOfRouter
<1>2. ASSUME NEW d \in Conn
      PROVE  \/ chan'[d] = chan[d]
             \/ \E m \in ServerMessage : ~IsAnswer(m) /\ chan'[d] = Append(chan[d], m)
  <2>1. CASE Deliver
    <3>1. fanout \in Seq(Delivery) /\ fanout # <<>>
      BY <2>1 DEF Deliver, TypeInv, TypeOK, RouterOK
    <3>2. Head(fanout) = fanout[1] /\ 1 \in DOMAIN fanout /\ fanout[1] \in Delivery
      BY <3>1
    <3>3. Head(fanout).msg \in ServerMessage /\ ~IsAnswer(Head(fanout).msg)
      BY <3>2 DEF Delivery, RoutedKinds, IsAnswer
    <3> QED  BY <2>1, <3>3, HasEntries DEF Entries, Deliver
  <2>2. CASE ~Deliver
    BY <2>2 DEF RouterTask, RouterStep, OnUserConnected, OnUserDisconnected, OnUserJoinedGroup,
                OnRouteMessage, chanVars
  <2> QED  BY <2>1, <2>2
<1>3. \A d \in Conn : chan[d] \in Seq(ServerMessage)
  BY HasEntries DEF Entries
<1>4. ASSUME NEW d \in Conn, NEW i
      PROVE  /\ (i \in DOMAIN chan'[d] /\ IsAnswer(chan'[d][i]))
                  <=> (i \in DOMAIN chan[d] /\ IsAnswer(chan[d][i]))
             /\ i \in DOMAIN chan[d] => chan'[d][i] = chan[d][i]
  <2>1. CASE chan'[d] = chan[d]
    BY <2>1
  <2>2. ASSUME NEW m \in ServerMessage, ~IsAnswer(m), chan'[d] = Append(chan[d], m)
        PROVE  /\ (i \in DOMAIN chan'[d] /\ IsAnswer(chan'[d][i]))
                    <=> (i \in DOMAIN chan[d] /\ IsAnswer(chan[d][i]))
               /\ i \in DOMAIN chan[d] => chan'[d][i] = chan[d][i]
    <3>1. /\ Len(chan[d]) \in Nat /\ DOMAIN chan[d] = 1 .. Len(chan[d])
          /\ DOMAIN chan'[d] = 1 .. Len(chan[d]) + 1
          /\ \A j \in DOMAIN chan[d] : chan'[d][j] = chan[d][j]
          /\ chan'[d][Len(chan[d]) + 1] = m
      BY <1>3, <2>2, Appended
    <3> QED  BY <2>2, <3>1
  <2> QED  BY <1>2, <2>1, <2>2
<1>5. AnswersFirst' /\ NoAnswerYet'
  BY <1>1, <1>4 DEF AnswersFirst, NoAnswerYet
<1>6. ASSUME NEW d \in Conn, me[d] # NoUser PROVE Paired(d)'
  <2>1. /\ AskedAt(d)' = AskedAt(d) /\ AnsweredAt(d)' = AnsweredAt(d) /\ (InLoop(d)' <=> InLoop(d))
        /\ heard[d] \in Seq(FirstFrames \cup Requests)
    BY <1>1, HasEntries DEF Entries, AskedAt, AnsweredAt, InLoop
  <2>2. ASSUME NEW p \in Place PROVE p \in Owed(d)' <=> p \in Owed(d)
    <3>1. CASE p[1] \in {1, 2, 4, 5}
      BY <1>1, <2>1, <3>1, OwedParts, OwedNext
    <3>2. CASE p[1] = 3
      BY <1>4, <2>1, <3>2, OwedParts, OwedNext
    <3> QED  BY <3>1, <3>2, OwedParts
  <2>3. Owed(d)' \subseteq Place /\ Owed(d) \subseteq Place
    BY DEF Owed, Place
  <2>4. ASSUME NEW p \in Place, p \in Owed(d), NEW k \in AskedAt(d), Fits(d, p, k)
        PROVE  Fits(d, p, k)'
    <3>1. CASE p[1] = 3
      <4>1. chan'[d][p[2]] = chan[d][p[2]]
        BY <1>4, <2>4, <3>1, OwedParts
      <4> QED  BY <1>1, <2>4, <3>1, <4>1 DEF Fits
    <3>2. CASE p[1] # 3
      BY <1>1, <2>4, <3>2 DEF Fits, Meets
    <3> QED  BY <3>1, <3>2
  <2> QED  BY <1>6, <2>1, <2>2, <2>3, <2>4, PairingStays
<1> QED  BY <1>1, <1>5, <1>6

LEMMA ReplyNext ==
  /\ TypeInv /\ Founded /\ SessionInv /\ IdentityInv /\ GreetingInv /\ HistoryInv /\ OrderInv
  /\ ReplyInv /\ [Next]_vars
  => ReplyInv'
<1> SUFFICES ASSUME TypeInv, Founded, SessionInv, IdentityInv, GreetingInv, HistoryInv, OrderInv,
                    ReplyInv, [Next]_vars
             PROVE  ReplyInv'
  OBVIOUS
<1>1. ASSUME NEW c \in Conn, Actor(c) \/ Client(c) PROVE ReplyInv'
  BY <1>1, ReplyByActor DEF OrderInv
<1>2. CASE RouterTask
  BY <1>2, ReplyByRouter DEF HistoryInv
<1>3. CASE SaveTasks \/ Tick \/ UNCHANGED vars
  <2>1. UNCHANGED <<phase, me, script, wire, heard, chan>>
    BY <1>3 DEF SaveTasks, SaveMessage, Tick, vars, connVars, chanVars
  <2>2. \A d \in Conn : Quiet(d)
    BY <2>1 DEF Quiet, InLoop
  <2> QED  BY <2>1, <2>2, QuietPairing DEF ReplyInv, AnswersFirst, NoAnswerYet
<1>4. CASE Crash
  <2>1. /\ UNCHANGED <<me, wire, heard>>
        /\ \A d \in Conn : script'[d] = <<>> /\ chan'[d] = <<>> /\ ~InLoop(d)'
    BY <1>4 DEF Crash, InLoop
  <2>2. \A d \in Conn : Ends(d)
    BY <2>1 DEF Ends
  <2> QED  BY <2>1, <2>2, EndPairing DEF ReplyInv, AnswersFirst, NoAnswerYet
<1> QED  BY <1>1, <1>2, <1>3, <1>4 DEF Next

LEMMA ReplyInit == Init => ReplyInv
BY DEF Init, ConnInit, RouterInit, ReplyInv, AnswersFirst, NoAnswerYet

\* The answers are paired with the requests in every reachable state.
THEOREM RepliesHold == Spec => []ReplyInv
BY TypesHold, BackedInit, SubscriptionInit, FoundedNext, SessionInit, SessionNext,
   PostsFirstNext, AccountsStayUnique, IdentityInit, IdentityNext, GreetingInit, GreetingNext,
   HistoryHolds, OrderHolds, ReplyInit, ReplyNext, PTL DEF Spec

\* The answers on a wire are, one by one, those to the first requests of its
\* client: no handler overtakes another and none is left out.
THEOREM RepliesInOrder == Spec => []RepliesMatch
<1>1. TypeInv /\ ReplyInv => RepliesMatch
  <2> SUFFICES ASSUME TypeInv, ReplyInv, NEW c \in Conn, me[c] # NoUser
               PROVE  \E ask \in [AnsweredAt(c) -> AskedAt(c)] :
                        /\ \A i \in AnsweredAt(c) : Answers(wire[c][i], heard[c][ask[i]])
                        /\ \A i, j \in AnsweredAt(c) : i < j => ask[i] < ask[j]
                        /\ \A i \in AnsweredAt(c), k \in AskedAt(c) :
                             k < ask[i] => \E j \in AnsweredAt(c) : ask[j] = k
    BY DEF RepliesMatch
  <2>1. PICK f \in [Owed(c) -> AskedAt(c)] :
          /\ \A p \in Owed(c) : Fits(c, p, f[p])
          /\ \A p, q \in Owed(c) : Nearer(p, q) => f[p] < f[q]
          /\ \A p \in Owed(c), k \in AskedAt(c) : k < f[p] => \E q \in Owed(c) : f[q] = k
    BY DEF ReplyInv, Paired
  <2>2. AnsweredAt(c) \subseteq Nat \ {0} /\ AskedAt(c) \subseteq Nat
    BY HasEntries DEF Entries, AnsweredAt, AskedAt
  <2>3. ASSUME NEW i \in AnsweredAt(c)
        PROVE  <<1, i>> \in Owed(c) /\ <<1, i>>[1] = 1 /\ <<1, i>>[2] = i
    <3>1. <<1, i>> \in Place
      BY <2>2 DEF Place
    <3> QED  BY <3>1, OwedParts
  <2>4. PICK ask \in [AnsweredAt(c) -> AskedAt(c)] : \A i \in AnsweredAt(c) : ask[i] = f[<<1, i>>]
    <3>1. [i \in AnsweredAt(c) |-> f[<<1, i>>]] \in [AnsweredAt(c) -> AskedAt(c)]
      BY <2>3
    <3> QED  BY <3>1
  <2>5. ASSUME NEW i \in AnsweredAt(c) PROVE Answers(wire[c][i], heard[c][ask[i]])
    <3>1. Fits(c, <<1, i>>, ask[i]) /\ <<1, i>>[1] = 1 /\ <<1, i>>[2] = i
      BY <2>1, <2>3, <2>4
    <3> QED  BY <3>1 DEF Fits
  <2>6. \A i, j \in AnsweredAt(c) : i < j => ask[i] < ask[j]
    BY <2>1, <2>3, <2>4 DEF Nearer
  <2>7. ASSUME NEW i \in AnsweredAt(c), NEW k \in AskedAt(c), k < ask[i]
        PROVE  \E j \in AnsweredAt(c) : ask[j] = k
    <3>1. PICK q \in Owed(c) : f[q] = k
      BY <2>1, <2>3, <2>4, <2>7
    <3>2. q \in Place /\ <<1, i>> \in Place
      BY <2>3 DEF Owed
    <3>3. Nearer(q, <<1, i>>)
      <4>1. f[q] < f[<<1, i>>] /\ f[q] \in Nat /\ f[<<1, i>>] \in Nat
        BY <2>2, <2>3, <2>4, <2>7, <3>1
      <4> QED  BY <2>1, <2>3, <3>2, <4>1, PlacesOrdered
    <3>4. q[1] = 1 /\ q = <<1, q[2]>>
      BY <3>2, <3>3, OwedParts DEF Nearer
    <3>5. q[2] \in AnsweredAt(c)
      BY <3>2, <3>4, OwedParts
    <3> QED  BY <2>4, <3>1, <3>4, <3>5
  <2> QED  BY <2>5, <2>6, <2>7
<1> QED  BY <1>1, TypesHold, RepliesHold, PTL
===============================================================================
