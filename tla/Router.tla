-------------------------------- MODULE Router --------------------------------
(***************************************************************************)
(* The Router actor of server/src/router.rs: one task that takes events    *)
(* off a bounded queue, one at a time, updates the session and             *)
(* subscription maps it owns, and sends to the bounded channel of each     *)
(* connection concerned.                                                   *)
(*                                                                         *)
(* The sends of one event are separate awaits: while any is left in        *)
(* `fanout` the router takes no further event, and a full channel stops it *)
(* there.  A map with no entry for a key is a total function with the      *)
(* value NoConn or {}.                                                     *)
(***************************************************************************)
EXTENDS Database

CONSTANTS
  Conn,       \* accepted TCP connections, each handled by an actor of its own
  NoConn,     \* no session
  RouterCap,  \* capacity of the router's event channel (1024 in main.rs)
  ChanCap     \* capacity of a connection's channel (100 in connection.rs)

ASSUME CapAssumption ==
  /\ RouterCap \in Nat \ {0}
  /\ ChanCap \in Nat \ {0}

ASSUME ConnAssumption == NoConn \notin Conn

VARIABLES
  rxq,       \* Router.receiver: events posted and not yet taken
  sessions,  \* Router.sessions
  subs,      \* Router.group_subscriptions
  fanout,    \* the sends the event being handled still has to await
  saves,     \* spawned save_message tasks that have not finished
  chan,      \* tx_to_client / rx_from_router of each connection
  open       \* connections whose rx_from_router has not been dropped

routerVars == <<rxq, sessions, subs, fanout, saves>>
chanVars   == <<chan, open>>

-----------------------------------------------------------------------------
(* RouterEvent.                                                            *)

UserConnected(u, gs, c) ==
  [type |-> "UserConnected", user |-> u, groups |-> gs, sender |-> c]
UserDisconnected(u) == [type |-> "UserDisconnected", user |-> u]
RouteMessage(f, t, m) ==
  [type |-> "RouteMessage", from |-> f, target |-> t, message |-> m]
UserJoinedGroup(u, g) == [type |-> "UserJoinedGroup", user |-> u, group |-> g]

RouterEvent ==
  [type : {"UserConnected"}, user : UserId, groups : SUBSET GroupId, sender : Conn]
    \cup [type : {"UserDisconnected"}, user : UserId]
    \cup [type : {"RouteMessage"}, from : UserId, target : Target,
          message : ServerMessage]
    \cup [type : {"UserJoinedGroup"}, user : UserId, group : GroupId]

\* A send the router awaits: a message for the channel of a connection.
To(c, m) == [to |-> c, msg |-> m]

Delivery == [to : Conn, msg : ServerMessage]

RouterInit ==
  /\ rxq = <<>>
  /\ sessions = [u \in UserId |-> NoConn]
  /\ subs = [g \in GroupId |-> {}]
  /\ fanout = <<>>
  /\ saves = {}
  /\ chan = [c \in Conn |-> <<>>]
  /\ open = {}

Online == {u \in UserId : sessions[u] # NoConn}

Subscribe(u, gs) ==
  [g \in GroupId |-> IF g \in gs THEN subs[g] \cup {u} ELSE subs[g]]

\* One message to the session of every user of `order`, in that order.
SendAll(order, m) == [i \in DOMAIN order |-> To(sessions[order[i]], m)]

-----------------------------------------------------------------------------
(* The sends each event makes.  A HashMap or HashSet iterates in an        *)
(* arbitrary order; two loops over the same unchanged map use the same one.*)

\* Tell the others that u is online, then tell c about each of them.
OnlineNewsOthersOnly(u, c, order) == SendAll(order, Presence(u, TRUE))

OnlineNews(u, c, order) ==
  SendAll(order, Presence(u, TRUE))
    \o [i \in DOMAIN order |-> To(c, Presence(order[i], TRUE))]

OfflineNews(u, order) == SendAll(order, Presence(u, FALSE))

SendTo(u, m) == IF u \in Online THEN <<To(sessions[u], m)>> ELSE <<>>

\* A private message goes to the recipient, then is echoed to the sender.
PrivateSendsDoubleEcho(from, to, m) == SendTo(to, m) \o SendTo(from, m)

PrivateSends(from, to, m) ==
  SendTo(to, m) \o (IF from # to THEN SendTo(from, m) ELSE <<>>)

Subscribers(g) == subs[g] \cap Online

Fanouts(from, target, m) ==
  CASE target.kind = "user" -> {PrivateSends(from, target.user, m)}
    [] target.kind = "broadcast" -> {SendAll(o, m) : o \in SetToSeqs(Online)}
    [] target.kind = "group" ->
         {SendAll(o, m) : o \in SetToSeqs(Subscribers(target.group))}

-----------------------------------------------------------------------------
(* The event loop.                                                         *)

\* recv(): only once every send of the previous event has been made.
Take(type) ==
  /\ fanout = <<>>
  /\ rxq # <<>>
  /\ Head(rxq).type = type
  /\ rxq' = Tail(rxq)

OnUserConnected ==
  /\ Take("UserConnected")
  /\ LET e == Head(rxq)
     IN  /\ sessions' = [sessions EXCEPT ![e.user] = e.sender]
         /\ subs' = Subscribe(e.user, e.groups)
         /\ \E order \in SetToSeqs(Online \ {e.user}) :
              fanout' = OnlineNews(e.user, e.sender, order)
  /\ UNCHANGED <<saves, chanVars, dbVars>>

OnUserDisconnectedKeepsSession ==
  /\ Take("UserDisconnected")
  /\ fanout' = <<>>
  /\ UNCHANGED <<sessions, subs, saves, chanVars, dbVars>>

\* The subscriptions stay: they act as an offline cache.
OnUserDisconnected ==
  /\ Take("UserDisconnected")
  /\ LET e == Head(rxq)
     IN  /\ sessions' = [sessions EXCEPT ![e.user] = NoConn]
         /\ \E order \in SetToSeqs(Online \ {e.user}) :
              fanout' = OfflineNews(e.user, order)
  /\ UNCHANGED <<subs, saves, chanVars, dbVars>>

JoinSubscriptionDropped(u, g) == subs

JoinSubscription(u, g) == Subscribe(u, {g})

OnUserJoinedGroup ==
  /\ Take("UserJoinedGroup")
  /\ subs' = JoinSubscription(Head(rxq).user, Head(rxq).group)
  /\ UNCHANGED <<sessions, fanout, saves, chanVars, dbVars>>

SaveTaskWhenOffline(from, target, m) ==
  IF m.type = "NewMessage" /\ target.kind = "user" /\ target.user \notin Online
    THEN {SavedRow(from, target, m)} ELSE {}

\* save_message spawns a task for a chat message and nothing for an alert.
SaveTask(from, target, m) ==
  IF m.type = "NewMessage" THEN {SavedRow(from, target, m)} ELSE {}

OnRouteMessage ==
  /\ Take("RouteMessage")
  /\ LET e == Head(rxq)
     IN  /\ saves' = saves \cup SaveTask(e.from, e.target, e.message)
         /\ fanout' \in Fanouts(e.from, e.target, e.message)
  /\ UNCHANGED <<sessions, subs, chanVars, dbVars>>

DeliverToOpen ==
  /\ fanout # <<>>
  /\ LET d == Head(fanout)
     IN  /\ d.to \in open
         /\ Len(chan[d.to]) < ChanCap
         /\ chan' = [chan EXCEPT ![d.to] = Append(@, d.msg)]
  /\ fanout' = Tail(fanout)
  /\ UNCHANGED <<rxq, sessions, subs, saves, open, dbVars>>

\* channel.send(..).await: waits while the channel is full; an error, because
\* the receiver is gone, is ignored.
Deliver ==
  /\ fanout # <<>>
  /\ LET d == Head(fanout)
     IN  \/ /\ d.to \in open
            /\ Len(chan[d.to]) < ChanCap
            /\ chan' = [chan EXCEPT ![d.to] = Append(@, d.msg)]
         \/ /\ d.to \notin open
            /\ UNCHANGED chan
  /\ fanout' = Tail(fanout)
  /\ UNCHANGED <<rxq, sessions, subs, saves, open, dbVars>>

RouterStep ==
  \/ OnUserConnected
  \/ OnUserDisconnected
  \/ OnUserJoinedGroup
  \/ OnRouteMessage
  \/ Deliver

-----------------------------------------------------------------------------
(* A spawned save_message task: the INSERT runs at any later time, in any  *)
(* order with the others, and its error is dropped.                        *)

SaveMessage(row) ==
  /\ row \in saves
  /\ saves' = saves \ {row}
  /\ \/ SavedForeignKeys(row) /\ InsertMessage(row)
     \/ /\ ~SavedForeignKeys(row) \/ MayFail("saveMessage")
        /\ UNCHANGED dbVars
  /\ UNCHANGED <<rxq, sessions, subs, fanout, chanVars>>

-----------------------------------------------------------------------------
(* Types.                                                                   *)

RouterOK ==
  /\ rxq \in Seq(RouterEvent)
  /\ sessions \in [UserId -> Conn \cup {NoConn}]
  /\ subs \in [GroupId -> SUBSET UserId]
  /\ fanout \in Seq(Delivery)
  /\ saves \subseteq MessageRow

ChanOK ==
  /\ chan \in [Conn -> Seq(ServerMessage)]
  /\ open \subseteq Conn

===============================================================================
