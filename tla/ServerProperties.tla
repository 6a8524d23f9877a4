---------------------------- MODULE ServerProperties ----------------------------
(***************************************************************************)
(* What the server promises: to the user of one connection, to all of them *)
(* together, and across the connections a user opens one after the other.  *)
(***************************************************************************)
EXTENDS Server

-----------------------------------------------------------------------------
(* Vocabulary.                                                             *)

Live(m) == m.type = "NewMessage"

Sends(m) == m.type = "SendMessage"

\* Where the client of c has been told something, or is certain to be: on the
\* wire, in the hands of the actor, in its channel, among the router's sends.
Places(c) ==
  ({1} \X DOMAIN wire[c])
    \cup (IF Awaiting(c, "toClient") THEN {<<2, 1>>} ELSE {})
    \cup ({3} \X DOMAIN chan[c])
    \cup ({4} \X {i \in DOMAIN fanout : fanout[i].to = c})

MessageAt(c, p) ==
  CASE p[1] = 1 -> wire[c][p[2]]
    [] p[1] = 2 -> Head(script[c]).msg
    [] p[1] = 3 -> chan[c][p[2]]
    [] OTHER    -> fanout[p[2]].msg

\* The place of a message that arrives, or will arrive, before that of another.
Nearer(p, q) == p[1] < q[1] \/ (p[1] = q[1] /\ p[2] < q[2])

InLoop(c) == phase[c] \in {"greeting", "serving"}

\* c is the connection the router sends u's messages to.
Session(c) == me[c] \in UserId /\ sessions[me[c]] = c

\* What the client of c is told of v, and whether the last of it is that v is
\* online; a user never mentioned is offline.
NewsOf(c, v) ==
  {p \in Places(c) : MessageAt(c, p).type = "Presence" /\ MessageAt(c, p).user = v}

BelievesOnline(c, v) ==
  \E p \in NewsOf(c, v) :
    MessageAt(c, p).online /\ \A q \in NewsOf(c, v) : q = p \/ Nearer(q, p)

\* Events on their way to the router: queued, or about to be posted.
Posted == Range(rxq)

AboutToPost == {script[c][1].event : c \in {d \in Conn : Awaiting(d, "toRouter")}}

InFlight == Posted \cup AboutToPost

\* Where c was sent something as it happened, and where its client sent something.
LiveAt(c) == {i \in DOMAIN wire[c] : Live(wire[c][i])}

SentAt(c) == {i \in DOMAIN heard[c] : Sends(heard[c][i])}

\* The message with body a came to c live before the one with body b did.
SeenBefore(c, a, b) ==
  \E i, j \in LiveAt(c) : i < j /\ wire[c][i].body = a /\ wire[c][j].body = b

\* The groups a message tells its reader they are in.
GroupsTold(m) ==
  CASE m.type = "GroupsList" -> m.groups
    [] m.type \in {"GroupCreated", "AddedToGroup"} -> {m.group}
    [] OTHER -> {}

\* u has invited somebody else to g, and the alert is echoed to u (router.rs:140).
Invites(u, g) ==
  \E c \in Conn : /\ me[c] = u
                  /\ \E m \in Range(heard[c]) :
                       m.type = "InviteToGroup" /\ m.group = g /\ m.user # u

\* What the messages of a batch carry, in order.
Bodies(ms) == [i \in DOMAIN ms |-> ms[i].body]

\* The batches of history written to c.
Batches(c) == {m.batch : m \in {n \in Range(wire[c]) : n.type = "SyncBatch"}}

\* The chat messages accepted from the clients, with their senders.
Accepted ==
  UNION {{[from |-> me[c], frame |-> m] : m \in {f \in Range(heard[c]) : Sends(f)}} :
           c \in {d \in Conn : me[d] # NoUser}}

-----------------------------------------------------------------------------
(* Accounts.                                                               *)

\* Of the connections that registered one name, at most one was let in, and
\* every connection that logs in under a name is the same user.
IdentityAgreement ==
  \A c, d \in {e \in Conn : me[e] # NoUser} :
    /\ heard[c][1].name = heard[d][1].name <=> me[c] = me[d]
    /\ (c # d /\ me[c] = me[d]) =>
         ~(heard[c][1].type = "Register" /\ heard[d][1].type = "Register")

-----------------------------------------------------------------------------
(* Presence.                                                               *)

\* The presence news a session has been sent, or is bound to be sent, always
\* adds up to the router's session map, whatever connects, disconnects or
\* replaces a session between two deliveries.
PresenceConverges ==
  \A c \in Conn : (Session(c) /\ InLoop(c)) =>
    \A v \in UserId \ {me[c]} : BelievesOnline(c, v) <=> v \in Online

\* The client learns who it is, its groups and the contact book, in this order,
\* before anything the router or a handler sends it; or one error and nothing.
GreetingFirst ==
  \A c \in Conn :
    LET types == [i \in DOMAIN wire[c] |-> wire[c][i].type]
        first == <<"AuthSuccess", "GroupsList", "UsersList">>
    IN  \/ types = <<"Error">> /\ me[c] = NoUser
        \/ \A i \in DOMAIN types :
             IF i <= 3 THEN types[i] = first[i] ELSE types[i] \notin Range(first)

\* A session whose actor has returned from its loop, whichever of a frame, a
\* write and the client ended it, is about to be removed: UserDisconnected is
\* in the router's queue.  Only a greeting cut short leaves its session behind.
NoGhostSession ==
  \A u \in Online : phase[sessions[u]] = "closed" =>
    UserDisconnected(u) \in Posted \/ Len(wire[sessions[u]]) < 3

-----------------------------------------------------------------------------
(* Requests and replies.                                                   *)

Asks(m) == m.type \in {"FetchGroupInfo", "Login", "Register"}

Answers(reply, ask) ==
  IF ask.type = "FetchGroupInfo"
    THEN reply \in {GroupInfo(ask.group), Error("GroupNotFound"), Error("InternalError")}
    ELSE reply = Error("AlreadyAuthenticated")

IsAnswer(m) == m.type \in {"GroupInfo", "Error"}

\* Where the client of c asked something after its login, and where it got an answer.
AskedAt(c) == {i \in DOMAIN heard[c] : i > 1 /\ Asks(heard[c][i])}

AnsweredAt(c) == {i \in DOMAIN wire[c] : IsAnswer(wire[c][i])}

\* A reply names no request, so the client can only go by order: the answers on
\* the wire are, one by one, those to the first requests, and none is left out.
RepliesMatch ==
  \A c \in {d \in Conn : me[d] # NoUser} :
    \E ask \in [AnsweredAt(c) -> AskedAt(c)] :
      /\ \A i \in AnsweredAt(c) : Answers(wire[c][i], heard[c][ask[i]])
      /\ \A i, j \in AnsweredAt(c) : i < j => ask[i] < ask[j]
      /\ \A i \in AnsweredAt(c), k \in AskedAt(c) :
           k < ask[i] => \E j \in AnsweredAt(c) : ask[j] = k

-----------------------------------------------------------------------------
(* Groups.                                                                 *)

\* A member with a session is subscribed, or the event that subscribes it is
\* in flight: neither a join that races a login nor a reconnection on top of
\* the offline cache loses a subscription.
NoLostSubscription ==
  \A g \in GroupId, u \in Online : <<g, u>> \in members =>
    u \in subs[g] \/ UserJoinedGroup(u, g) \in InFlight

\* The router never routes a group's messages to someone who is not a member.
SubscriptionsBacked ==
  \A g \in GroupId, u \in UserId : u \in subs[g] => <<g, u>> \in members

\* A client that has been told of a group, other than by the echo of its own
\* user's invitation, will hear what it sends there: the subscription is in
\* place, or precedes in the queue whatever the client sends next.
SubscribedBeforeTold ==
  \A c \in {d \in Conn : phase[d] = "serving"} :
    \A m \in Range(wire[c]) : \A g \in GroupsTold(m) :
      \/ me[c] \in subs[g]
      \/ UserJoinedGroup(me[c], g) \in Posted
      \/ \E e \in Posted : e.type = "UserConnected" /\ e.sender = c /\ g \in e.groups
      \/ m.type = "AddedToGroup" /\ Invites(me[c], g)

-----------------------------------------------------------------------------
(* Messages.                                                               *)

\* No client is sent the same message twice as a live message: a private
\* message to oneself, an echo and a fan-out never overlap.
ExactlyOnceLive ==
  \A c \in Conn : \A i, j \in LiveAt(c) : wire[c][i].body = wire[c][j].body => i = j

\* Any two clients see the messages they both see live in the same order.
AgreedOrder ==
  \A c, d \in Conn : \A i, j \in LiveAt(c) :
    i < j => ~SeenBefore(d, wire[c][j].body, wire[c][i].body)

\* No client sees two messages of one connection in the reverse of the order
\* in which their sender sent them.
SenderOrder ==
  \A c, d \in Conn : \A i, j \in SentAt(c) :
    i < j => ~SeenBefore(d, heard[c][j].body, heard[c][i].body)

\* The message with body b is on its way to the router, being saved, or stored.
Kept(b) ==
  \/ \E row \in messages \cup saves : row.body = b
  \/ \E e \in {f \in InFlight : f.type = "RouteMessage" /\ Live(f.message)} :
       e.message.body = b

\* The step is the end of a save task whose INSERT of b failed.
SaveFails(b) ==
  \E row \in saves :
    /\ row.body = b /\ row \notin saves' \cup messages'
    /\ MayFail("saveMessage") \/ ~SavedForeignKeys(row)

HandsOver ==
  \A a \in Accepted' :
    ~Kept(a.frame.body)' => \/ a \in Accepted /\ ~Kept(a.frame.body)
                            \/ crashes' # crashes
                            \/ SaveFails(a.frame.body)

\* From the frame to the row an accepted message is handed from actor to queue
\* to router to task, and no hand-over loses it: only a crash of the process or
\* a failed INSERT does.
OnlyFailuresLose == [][HandsOver]_vars

\* What history gives back is what was sent: sender, target and payload survive
\* the columns of the messages table and the rebuilding of the target.
HistoryFaithful ==
  \A c \in Conn : \A batch \in Batches(c) : \A i \in DOMAIN batch :
    LET m == batch[i]
    IN  [from |-> m.from, frame |-> SendMessage(m.target, m.body)] \in Accepted

\* A message appears twice in a batch only when its reader sent it to a group:
\* the join on the members multiplies no one else's rows.
RepeatsOnlyOwnGroupMessages ==
  \A c \in Conn : \A batch \in Batches(c) : \A i, j \in DOMAIN batch :
    (i # j /\ batch[i].body = batch[j].body) =>
      batch[i].from = me[c] /\ batch[i].target.kind = "group"

\* History reverses two messages of one connection only if they were sent in
\* the same second, whatever order they were routed and stored in.
HistoryInSendOrder ==
  \A c, d \in Conn : \A batch \in Batches(d) :
    \A i, j \in DOMAIN batch, k, l \in SentAt(c) :
      (/\ i < j /\ l < k
       /\ batch[i].body = heard[c][k].body /\ batch[j].body = heard[c][l].body) =>
        batch[i].at = batch[j].at

-----------------------------------------------------------------------------
(* Progress, when no queue is at its capacity.                             *)

\* Every first frame is answered, unless the client goes first.
LoginAnswered ==
  \A c \in Conn : (phase[c] = "authenticating" /\ heard[c] # <<>>)
                    ~> (wire[c] # <<>> \/ phase[c] = "closed")

\* A broadcast on its way to the router while d is a session reaches d, unless
\* d goes away first.
BroadcastDelivered ==
  \A d \in Conn, b \in Body :
    (/\ \E e \in InFlight : e.type = "RouteMessage" /\ e.target = Broadcast
                              /\ e.message.body = b
     /\ phase[d] = "serving" /\ Session(d))
      ~> \/ \E m \in Range(wire[d]) : Live(m) /\ m.body = b
         \/ phase[d] # "serving" \/ ~Session(d)

\* Whoever leaves stops being online, unless the same user is back.
DeparturesNoticed ==
  \A c \in Conn : phase[c] = "leaving" ~> (phase[c] = "closed" /\ ~Session(c))
===============================================================================
