# XaiChat in TLA+

A formal model of XaiChat.  The server: the router, one actor per connection,
the detached tasks that store messages, and the PostgreSQL tables below them.
The client: its network thread, its UI thread and the page it shows.  And the
two together.  TLC checks them on small instances; TLAPS proves, for every value
of the constants, the server's type correctness, the core of its subscription
protocol, its sessions and identities, the greeting, the history, the order of
messages and of replies, the presence news, what the client promises over its
logins, that the server is what the client takes it for, and what the page then
shows.

## 1. The system

### Components

| Component | Source | State it keeps | Operations | Here |
|---|---|---|---|---|
| Wire protocol | `protocol/src/*` | none | the enums `ClientMessage`, `ServerMessage`, `Target`, `ServerError` | `Protocol` |
| Tables | `migrations/*.sql`, the SQL in `server/src/connection.rs`, `router.rs` | `users`, `groups`, `group_members`, `messages` | 13 statements, each its own transaction | `Database` |
| Router | `server/src/router.rs` | `sessions`, `group_subscriptions`, its event queue (1024) | `UserConnected`, `UserDisconnected`, `UserJoinedGroup`, `RouteMessage`, the spawned `save_message` | `Router` |
| Connection actor | `server/src/connection.rs` | `user_id`, its channel (100), where it is in `handle_connection` | authentication, greeting, eight requests, routed messages, shutdown | `Connection` |
| Server process | `server/src/main.rs` | all of the above, in memory but for the tables | accept and spawn | `Server` |
| Client network manager | `client/src/network.rs`, `context.rs` | command, message and error queues, the connection it holds | connect, send, refuse, receive, fail, report, wake the UI | `NetworkManager` |
| Chat page | `client/src/ui/pages/*`, `workspace.rs` | application state, contacts, groups, rosters, presence, chats | drain the messages, draw a page, take input | `ChatPage`, `Client` |
| Modals | `client/src/ui/modals*` | the stack of modals | receive, submit, close, removal by index | `Client` |
| Framing, TCP | `LengthDelimitedCodec`, sockets | buffers | frame limit, backpressure | left out |
| Start-up, config, logs, drawing | the rest of `client/src` | none worth checking | I/O | left out |

### How they interact

A TCP connection gets an actor (`main.rs`).  It checks the first frame against
the `users` table, queries the user's groups, makes a channel, posts
`UserConnected(user, groups, sender)` to the router's queue, writes
`AuthSuccess`, `GroupsList` and `UsersList`, and enters a `select!` loop over
its socket and its channel.  The router takes one event at a time, changes its
two maps, and awaits one send per recipient into the recipients' channels; for
a chat message it also spawns a task that INSERTs it.  Nothing is locked and no
two statements share a transaction, so every `.await` is a point where
everybody else may move.

A client is two threads.  The UI thread draws frames: it drains the messages of
the server (`workspace.rs`), draws one of three pages and takes the input on it,
then handles the modals.  It sends commands to the network thread, which holds
at most one connection, hands every message it reads to the UI and asks for a
repaint, and turns every failure into an `Error` of its own.  A client that is
thrown back to the auth page keeps its chat page as it was.

### What is hard about it

* **Interleaving.** Presence news is sent in loops of awaits while sessions come
  and go; a name is checked and inserted in two statements; groups are read from
  the table before the router knows the session.
* **Order.** One message fans out through several channels; replies carry no
  request id; rows are stored by racing tasks and sorted by a one-second clock.
* **Failure.** Queries time out, writes fail at any point, the process dies and
  only the tables remain.
* **Logging in again.** The client's queues outlive a connection; its page
  outlives a login; what the server sends at a login replaces the list of groups
  and only adds to the contacts, the presence and the chats.
* **Waiting.** Bounded channels: an actor may wait for the router, the router
  for an actor, an actor for itself.

### What makes each part correct

* Tables: a name is one user; a stored message is given back as it was sent, in
  the order it was sent in as far as seconds tell.
* Router: its session map is what clients believe; its subscriptions are the
  members of the groups, no fewer (with a session) and no more.
* Connection: a fixed greeting before anything else; replies in request order;
  a session ends with its connection.
* Client: a login is in exactly one place; a connection carries the frames of one
  login, its Sync first; a message handed over is shown; the spinner ends.
* Client and server: the page has taken in everything the server wrote, shows the
  router's sessions, and shows what its user sent in the chat it was sent to.
* Together: one agreed order of messages, each once, lost only by a crash or a
  failed INSERT; what must be answered, delivered or noticed eventually is.

`PROJECT.json` lists the hazards line by line, with the properties that watch them.

## 2. The modules

```
Protocol -> Database -> Router -> Connection -> Server
   |                                               |
   |                           ServerProperties (what is promised)
   |                              |            |              |
   |                              |   ServerClaims         TypeProofs -> GroupProofs
   |                              |   (refuted claims)       -> SessionProofs -> HistoryProofs
   |                              |     -> MCServer          -> OrderProofs -> PresenceProofs
   |                              |                                               |
   |                            Desk -> MCDesk                                    |
   |                              |  :                                            |
   |                              +--:--------------------------------------> DeskProofs
   |                                 :  (INSTANCE ClientProofs: the composition,
   |                                 :   and the server as the client's environment)
   +-> NetworkManager, ChatPage -> Client -> ClientProperties -> ClientProofs
                                                    |
                                                MCClient
```

Each `...Proofs` module has the inductive invariants, then the lemmas, then the
theorems of TLAPS.

* **Protocol** has the message constructors and the sets of messages.  A group's
  name is a function of its id, a payload is a member of `Body`.
* **Database** has one operator per statement.  UNIQUE is `UniqueName`, foreign
  keys are `ForeignKeys` and `SavedForeignKeys`, the LEFT JOIN of the history
  query is `LeftJoin`, row by row, and ORDER BY leaves rows of one second in any
  order (`Ordered`).  `MayFail(s)` says that statement `s` may return an error,
  for the statements in `DbFaults`; a constraint makes one fail in any case.  A
  password hash is a password: hashing and verifying are a pair.
* **Router** has an action per event.  Taking an event changes the maps at once
  and leaves the sends it must await in `fanout`; `Deliver` makes one of them
  and no event is taken while one is left.  HashMap iteration is arbitrary:
  every order is tried.  A send to a dropped receiver is an ignored error.
  Pending INSERTs are the set `saves`.
* **Connection** keeps for each actor the awaits it has left before it is back in
  its `select!` (`script`).  An await is one step; a query's result replaces it
  by what the code does next.  `Greeting`, `Handler`, `JoinedSteps`,
  `CreatedSteps` read as the order of awaits in the code.  `wire` and `heard`
  record what was written to and read from the socket.  The `?` of the
  functions before the loop is `Return`; the `break` of the loop is `Break`,
  which still posts `UserDisconnected`.
* **Server** composes them with the environment: clients that send any frame of
  a finite set, hang up, or break a write; the clock; and `Crash`, which empties
  everything but the tables.
* **ServerProperties** and **ServerClaims** only state; **MCServer** names the
  accounts and the frames of the runs.
* **NetworkManager** is `network.rs` with the channels of `context.rs`: an action
  per branch of the outer `recv` and of the `select!`.  Handing a message to the
  UI and asking for a repaint are two steps (`Receive`, then `Wake`).  `Fail`
  stands for every `?` of `handle_connection`; a frame that was being written is
  lost with it.  `down` and `peer` are the server's end: one answer, then any
  `News`, and an end at any time.  A command carries the number of the login it
  was issued in, for the properties only.
* **ChatPage** is `handle_server_message` as a function from a page and a message
  to a page; names of users and groups are left out.
* **Client** is the frame of the UI thread in three parts: `TakeMessage` until the
  inbox is empty, the page with at most one input, the modals.  `Begin` clears
  `awake`, and a frame begins because a repaint was asked for or the user touched
  something.  A modal keeps the input from what is below it, so only the one on
  top when the frame began may submit and close.
* **ClientProperties** states; **MCClient** names one user's login.
* **Desk** puts one such client in front of the server.  The client's `down` is
  what the actor wrote to the connection (`wire`) and the client has not read,
  its `peer` is the phase of that actor: `C == INSTANCE ClientProofs WITH
  down <- unread, peer <- serverEnd`.  Each dial takes a connection of its own;
  frames written wait in `up` until the actor reads them.  Other users are
  clients of `Server`.

`ClientIsServed` is a refinement: every behaviour of `Desk`, under that mapping,
is a behaviour of `ClientSpec`, in which the server is the loose `Answer`,
`PeerWrites` and `PeerCloses`.  So every safety property checked or proved of
`ClientSpec` under that loose server holds in front of the modelled one, and the
two `unreachable!` arms of `chat.rs:405` are.

The environment of `Server` is restricted in two ways.  A body is sent once
(`FreshBody`), so that it identifies a message.  Ids do not run out (`IdsLeft`):
a BIGSERIAL does not.  A client may write or invite to any group, its own or
not, except where a run's frames say otherwise.

`Desk` is restricted in two.  While the client has something to do by itself
(`Busy`) the server waits: the steps of the client take nothing from the server
but frames already written and give it nothing but frames it reads later, so
the two commute and one order stands for all.  A dial or the write of
the first frame may fail (`Breaks`) at any time, whatever the server's actor is
doing: not there yet, authenticating, greeting or in its loop.  Once the client
is in its loop the connection breaks only while the client has nothing left to
do; what a break does to frames that are queued and not written is the business
of `Client`, where `Fail` has every moment.

## 3. The runs

| Run | Instance | Shows |
|---|---|---|
| `presence` | 3 users, 3 connections that log in, leave, come back; any write may fail; 1 crash | `TypeOK`; `PresenceConverges`: news sent or bound to be sent to a session adds up to the session map; `GreetingFirst`; `NoGhostSession`; `NoLostSubscription` across reconnection and crash |
| `accounts` | 2 connections race to register and log in; statements and writes fail; 2 lookups | `IdentityAgreement`: who is let in under one name is one user; `RepliesMatch` |
| `groups` | 3 connections, 2 users, 2 groups, invitations (by outsiders too) or creation racing logins and departures | `NoLostSubscription`, `SubscriptionsBacked`, `SubscribedBeforeTold` |
| `messages` | 2 connections, every queue has one place, 3 frames of 4 kinds, 2 clock values; the INSERT of a message and the history query may fail | `AgreedOrder`, `SenderOrder`, `ExactlyOnceLive`, `OnlyFailuresLose`, `HistoryFaithful`, `RepeatsOnlyOwnGroupMessages`, `HistoryInSendOrder` |
| `progress` | 2 connections, fair tasks, room in the queues; statements fail; 1 crash | `OnlyFailuresLose` across the crash, `LoginAnswered`, `BroadcastDelivered`, `DeparturesNoticed` |
| `client` | one user, two logins, one message or modal; refusals, failures and ends at every step | `ClientTypeOK`, `OneAttempt`, `OwnFrames`, `SyncFirst`, `NoLostWakeup`, `LoginSettles` |
| `desk` | a client with two connections, another user on a third that comes and goes; 1 crash | `PageHasItAll`, `StatusShown`, `ClientIsServed` |
| `talk` | a client with two connections that fail at the dial, at the first write or while it chats; one message to one of two groups, everybody or a contact, or a modal that creates a group or invites; two Syncs | `SentIsShown`, `LiveIsNew`, `ClientIsServed` |

The bounds: connections 2 or 3, because the races are between an old and a new
connection of one user and one bystander; users 2 or 3 for the same reason; one
or two groups; queues of one or two places where being full matters, so that
every wait in the code happens; one crash, because after it the state is that of
a fresh start on other tables; at most three frames after the first, because a
violation of order or number needs two messages and one reader.  The clock is
frozen where no property reads it, and starts with the first `SendMessage`, as
nothing else reads it.  `SYMMETRY` permutes connections only, and
only in runs without liveness.  `CHECK_DEADLOCK FALSE` is set because the model
really stops: connections are used up, frames are bounded, and the waits of
section 4 are real.

**Fairness** (`FairSpec`): weak fairness of the router, of the save tasks and of
every actor's awaits (`ConnStep`, which has socket writes, queries and queue
operations in it).  Tokio polls a ready task again and again, and an await that
can complete does.  There is none for clients, the clock, failures and crashes.
`progress` gives the queues more room than its frames can fill, because section
4 shows what happens otherwise; in the code 100 and 1024 are large, not
infinite.

The client (`ClientFairness`): weak fairness of the network thread's own steps, of
the frames egui draws when asked, and of the server's answer to a first frame
(which is `LoginAnswered`, or a closed connection).  None for failures, for what
the user does, or for news.  A dial that never returns is not in it: the code
sets no timeout, the operating system has one.  `LoginSettles` needs all three,
and that the spinner of the connecting page repaints itself.

Bounds of the client: two logins, since what a login leaves behind meets only the
next one; one input besides the Sync of each login, so that two sends can be queued
when a connection ends; `Window` bounds the news in transit (2; in `Desk` it never binds).  In `desk` two connections
of the client and one of another user: the stale news of one login
under the next.  In `talk` one body: shown live or
by a Sync on the first connection, it must not come live over the second.

## 4. What the code does not do

Each of these runs expects a violation of one statement of the documentation.

* `claim_session` -- *"Maps a user to their active TCP connection channel"*
  (`router.rs:37`).  A user's old connection closes and its actor still has to
  post `UserDisconnected(u)`; the user logs in again and the new
  `UserConnected` gets there first.  The event names only the user, so handling
  it (`router.rs:103`) removes the new session: connected, and reachable by no one.
* `claim_wait` -- channels *"prevent deadlocks"* (`README.md:30`).  A handler
  sends its reply into the actor's own channel (`connection.rs:302`); if the
  router has filled it, the actor waits for the loop it is itself in.
  The router then waits for it in turn, and everybody for the router.
* `claim_missed` -- *"clients automatically sync missed history upon login"*
  (`README.md:12`).  The message is routed while its target is offline; the
  INSERT is a detached task (`router.rs:184`) and runs after the target has
  logged in and synced: neither live nor in history, until the next login.
* `claim_status` -- *"Real-time online/offline status indicators for all
  registered users"* (`README.md:16`).  bob is online; the server dies, and with
  it the session map; ana's client reports the failure and she logs in again.
  The server mentions only who is online, the page only ever inserts
  (`chat.rs:382`) and keeps its map over logins: bob is shown online.
  `StatusShown` says that this is all that can be wrong: a status is the
  router's, or was on the page before and has not been mentioned since.

Seen while modelling, without a run of their own:

* a write that fails between `UserConnected` and the loop (`connection.rs:112` and
  the two after it) returns through `?` without `UserDisconnected`, and the user
  is online for everyone until the next login or restart; `NoGhostSession` exempts
  a greeting cut short (fewer than three frames on the wire) and shows that
  whatever ends the loop, a failed write too, ends the session;
* an invitation between the query of the groups and the `UserConnected` of its
  target (`connection.rs:103`) finds no session to alert, and the list written
  then lacks the group.  The subscription is right, so messages arrive for a
  group the client does not list;
* `m.sender_id = $2` (`connection.rs:317`) keeps all joined rows of one's own group
  message, which comes back in a batch once per member;
  `RepeatsOnlyOwnGroupMessages` shows that nothing else is repeated;
* Sync always asks from 0 and its batch is appended to the chats of the last login
  (`chat.rs:375`), so the page shows history again at every login.  `LiveIsNew`
  shows that only a batch does: what an earlier connection has put on the page
  never comes live over the next, and `ExactlyOnceLive` that it comes live once
  over one connection;
* the active chat survives a login as another user and may be a group that user
  is not in; the router sends what it is given to the members (`chat.rs:115`);
* the error of a refused `Send` asks for no repaint (`network.rs:71`);
* images are cached by second and file name (`chat.rs:283`), by *"file name &
  size"* says `chat.rs:32`: two of one name in one second look the same;
* the second INSERT of `CreateGroup` may fail and the creator is confirmed and
  subscribed without being a member (`connection.rs:244`); `SubscriptionsBacked`
  is checked and proved for runs in which it does not;
* a failed query of the groups becomes an empty list, and the user is subscribed
  to nothing until the next login (`connection.rs:82`); `NoLostSubscription` is
  checked and proved for runs in which it does not fail;
* a failed INSERT of a message is dropped after it was delivered (`router.rs:190`);
  `OnlyFailuresLose` allows it and a crash, and nothing else.  Racing INSERTs do not
  reorder history: `HistoryInSendOrder` shows that two messages of one connection
  come back in the reverse order only if they carry the same second;
* `AddedToGroup` is routed as a private message and echoed to the inviter
  (`router.rs:140`), and nothing checks that the inviter is a member
  (`connection.rs:208`): an outsider who invites is told it was added.
  `SubscribedBeforeTold` shows that this echo is the only case in which a client
  is told of a group its user is not subscribed to; the frames of `groups` have
  an outsider that invites, and without the clause about it the property fails;
* the contact book is a snapshot: users registered later are not in it
  (`connection.rs:120`).

## 5. The proofs

`TypeProofs` proves `TypeCorrect: Spec => []TypeOK`.  `TypeOK` is not inductive,
for two reasons that are about the code.  An actor uses `user_id` after the
login, and only the login sets it: `UsersKnown` says that past the login it is
set, and `ScriptsFit` says which awaits an actor may have ahead of it in each
phase, so that nothing after the login can be awaited before it.  A history
query rebuilds a target from three columns of which `save_message` filled at
least one: `RowsAddressed`.  `TypeInv` is `TypeOK` with these and the finiteness of
the messages table, without which ORDER BY would have nothing to order.  The proof
has a lemma per group of constructors, per change of a script, per query, and
then one per action; `NextTypes` puts them together.  It assumes what the
modules assume: null markers and `NoConn` are no ids, `UserId` is finite (64-bit
keys), the initial tables satisfy the schema, and the frames are
`ClientMessage`s; capacities, faults, crashes and the number of frames are
arbitrary.

`GroupProofs` proves, on top of it:

* `SubscriptionsKept: Spec => []NoLostSubscription`, if `"fetchGroups"` is not in
  `DbFaults`.  The property speaks of sessions, but a user has to be covered
  before it has one: from the moment its groups were read, the `UserConnected`
  on its way must carry every group of the user, or what it lacks must be in
  flight as `UserJoinedGroup` (`ConnectsCovered`).  An event counts as in flight
  from the INSERT on, because nothing is awaited between a query and the event
  that carries its result (`PostsFirst`).  And a group that is created has no
  members yet, because rows of `group_members` refer to rows of `groups`
  (`MembersOfGroups`, `Founded`).  `SubscriptionInv` is their conjunction.
* `SubscriptionsAreBacked: Spec => []SubscriptionsBacked`, if `"insertCreator"` is
  not in `DbFaults`.  `BackedInv` says of every event queued and every event
  ahead of an actor that its groups are memberships; no row is ever deleted.

Its lemma `AccountsStayUnique` keeps rows with one id or one name apart for
`SessionProofs`; it is the UNIQUE constraint and the sequence of ids.

The two theorems have one idea in common, the lemma `ShapeOfStep`: a step of an
actor either posts the head of its script and keeps the rest, or puts new awaits
in front, of which only the first may be a post, and a step that adds a
membership puts the subscribing event there.  Of the actions of an actor
the rest of the proof then needs to know no more.  The two assumptions are
necessary: TLC finds the property violated without them.

`ClientProofs` proves, with no assumption beyond those of the modules,
`OneAttemptAlways`, `OwnFramesAlways`, `SyncFirstAlways` and `NoLostWakeupAlways`,
from `ClientInvariant: ClientSpec => []ClientInv`.  `OneAttempt` is not inductive:
it does not say what else is in the queues.  `OnePlace` does: a login is a token
that is asked for (its `Connect` last in the command queue), tried (in the
network thread, every command behind it a `Send` of this login, no `Error` on the
way), over (no `Connect`, one `Error`, last in the inbox), or at rest on the auth
page with an empty inbox.  A click can only be made at rest, which is why no
second `Connect` is ever queued, and why stale `Send`s are ahead of the `Connect`
and refused before it is taken.  For the Sync the token has four more places
while it is tried (`SyncSoon`): not answered, `AuthSuccess` on the wire,
`AuthSuccess` in the inbox, or in the chat with the Sync written or first in the
queue.  `ModalsAreOld` is needed because a modal can send: none that can is open
while connecting, so nothing comes between `AuthSuccess` and Sync.  Because
`Desk` implements `ClientSpec` these theorems speak of the client in front of
the server as well: `DeskProofs` proves that step.

`ClientTypesHold: ClientSpec => []ClientTypeOK` needs what a fold does to a page of
any type, for a batch of any length.  `ApplyAll` and the chats are recursive
functions on the length of a sequence, so their values are known by their
definition, and that a fact holds at every length follows from a set without a
least element being empty (`EachNatural`, from `WFMin` of the library's
well-founded induction, which is about sets and takes no operator).

`SessionProofs` proves `NoGhostSessions: Spec => []NoGhostSession` and
`IdentitiesAgree: Spec => []IdentityAgreement`, without an assumption.

* `UserDisconnected` carries a user and no connection, so what saves a session is
  where it stands: `GhostFreeInv` says that a login in the queue, and a session
  in the map, is a connection that is past its login or has its departure
  queued *behind* it.  This needs that an actor speaks for its own user only
  (`SpeaksForItself`), that sessions and queued logins are connections of their
  user (`OwnSessions`), and that the departure is the only thing an actor that
  leaves still awaits (`LeavesLast`).  The third possibility is a connection
  that returned with fewer than three frames on its wire (`Cut`): a greeting cut
  short by a failed write, section 4.
* `IdentityInv` follows the first frame.  An actor that is checking one has heard
  it and no other (`Asked`); who is let in bears the name of its row
  (`NamedAsHeard`); an id is handed out by one INSERT (`RegisteredOnce`).  With
  `AccountsUnique` one name is one user, however the registrations race.

It also proves `GreetedFirst: Spec => []GreetingFirst`.  `Stage` says, per
phase, what is on the wire together with what is left to await: the six states
of the greeting one by one (`Begun`), and after it that nothing an actor
awaits, its channel holds, the router is sending or the queue holds is a message
of the greeting (`Late`).  The router may fill the channel from the moment
`UserConnected` is taken; nothing reads the channel before the loop.

`HistoryProofs` proves `HistoryIsFaithful`, `OnlyOwnMessagesRepeat`,
`HistoryKeepsSendOrder` and `OnlyFailuresLoseAMessage` without an assumption.  `HistoryInv` calls a *row* what is
stored, being saved, or still an event on its way to the router: from there on a
row has one target column and gives back what was sent (`RowsHonest`), and a
body is in one row (`OneRowPerBody`), so the join multiplies what its reader sent
to a group and nothing else.  A batch keeps what it had when it was read
(`TruthTold`).

* `HistoryKeepsSendOrder: Spec => []HistoryInSendOrder`.  A row carries the second at
  which its frame was handled, and an actor handles the frames of its client one
  after the other, so of two messages of one connection the row of the first
  has no later second (`StampInv`, `Earlier`), however late it is stored.  The
  query sorts by that second, and a message is in one row, so a batch that has them
  the other way round has two equal seconds.
* `OnlyFailuresLoseAMessage: Spec => OnlyFailuresLose`, an action property.  A message
  that is accepted is in the hands of its actor, as the first thing it awaits
  (`AcceptedHasRow`); a post, a taken event and a stored row each move it to the
  next place in the same step.  So a step after which it is nowhere is a crash, or the
  end of a save task whose statement failed or violated a foreign key.

`OrderProofs` proves, with no assumption, `LiveOnce`, `OrderAgreed`,
`SendersKeepOrder` and `RepliesInOrder`.

* For each client there is a line of places: its wire, the hands of its actor,
  its channel, the sends the router has left, the router's queue.  `Stands(d,
  p, b)` says that the message with body `b` is at place `p` of the line of `d`.
  A step moves messages forward without overtaking, takes them out, or brings a
  new one in at the end of every line at once; that is lemma `LinesOfStep`, and it
  is all the proof needs to know of the program.  `LinesAgree` says that no two lines
  have two messages in different orders, nor in the reverse of the order in
  which one client sent them.  It starts to hold when a message is posted, where it
  is in no line yet and is the last its client sent (`Unposted`).  Since an order
  of a message with itself would disagree with itself, no line has a message twice.
* The answers for a client have such places too: the wire, the hands of the actor,
  its channel, the request it is handling.  `Paired` is an order-preserving
  pairing of the answers at these places with the requests heard, with no
  request left out before one that is answered; while the actor is in its loop no
  request is left out at all.  The proof builds the pairing after each step from the
  one before it (`PairingMoves`, `PairingStays`, `PairingStarts`).  That an actor
  answers in the first thing a handler awaits (`AnswersFirst`) is what keeps a
  second request from overtaking.

`PresenceProofs` proves `PresenceAgrees: Spec => []PresenceConverges`, with no
assumption: capacities, crashes, failing writes and queries are arbitrary.
`BelievesOnline(c, v)` is the last word about `v` among the places of `c`'s line.

* A connection is announced once, and is told nothing of the others before
  (`AnnouncedOnce`): until its `UserConnected` is taken no session is the
  connection, and no place of its line holds news.  The list it is then sent is
  therefore the first it hears, and it is the session map of that step.
* No word after that is lost: the channel is there before the login is posted and
  until the actor has left its loop (`ChannelsOpen`).  The property speaks of
  sessions whose actor is in its loop, because the router goes on sending to a
  channel that is closed, and a socket that fails takes the rest of the line with it.
* A step of an actor, or a send, moves words without overtaking and loses none
  (`BeliefMoves`), so no belief changes.  When the router takes an event each session
  hears nothing of `v` and nothing about `v` has changed, or one word, after all
  others, that says what the session map now says (`Hears`, `HearsNot`).  This is
  where a second login of a user matters: the session map changes, who is online
  does not, and the others hear a word that repeats what they believe.

`PresenceProofs` also proves `SubscribedFirst: Spec => []SubscribedBeforeTold`, with
no assumption.  What tells a client of a group is followed from the script in
which an actor plans it, through channels and the router's sends, to the wire.

* A script is sound when what it tells of a group is so once the event at its
  head, if that is one, is in the queue (`PlansSound`): the greeting, the
  confirmation of a new group and the alert of an invitation all post first.
* What is on its way, or written, needs no such head start (`TalkSound`,
  `SendSound`), and neither does an alert in the router's queue (`SoundAlert`).  An
  alert reaches a subscriber or, as an echo, one who invited.
* What is so stays so (`Grows`): subscriptions are not taken back, an event leaves
  the queue only for the subscription it brings, a frame heard was heard.  Only a
  crash takes subscriptions back, and it closes every connection; hence the
  property speaks of sessions that last.

`DeskProofs` proves what holds of the client in front of the server.

* `DeskHasServer: DeskSpec => Spec`.  The server of the desk takes steps of the server,
  so every theorem above holds at the desk.
* `ServedAlways: DeskSpec => ClientIsServed`, the refinement.  The initial states and each
  action of `Desk` map to the initial states and an action, or a stutter, of
  `ClientSpec`.  An actor writes nothing before it has heard (`HearingInv`) and its
  greeting starts with the user's own `AuthSuccess`; the frames the client has read
  are a prefix of the wire, and what it wrote is in `up` or was heard (`SocketInv`);
  after its login the client asks nothing that is answered by an error
  (`QuietInv`), so the two `unreachable!` arms of `chat.rs:405` are.
  Its hypothesis `WholeProtocol` says that the constants `News` and `Refusals`, which
  bound what the loose server of `ClientSpec` may say, are all the messages and
  errors of the protocol.  A run makes these sets small for TLC; the code does not,
  so the hypothesis takes a bound away.
* `PromisesKept`: under the same hypothesis `OneAttempt`, `OwnFrames`, `SyncFirst` and
  `NoLostWakeup` hold at the desk, from the theorems of `ClientProofs` through the
  refinement.
* `PageHasItAllAlways` and `StatusShownAlways`.  `ShownInv` says what the inbox is (the
  frames read last), what the page is (the page before the dial with the frames taken
  in applied to it, the first of which is the `AuthSuccess`), and what each status on it
  is (the last word among the frames taken, or what was there before).  With
  `PresenceAgrees`, which says what the last word on the whole wire is, the page of a client that has
  read everything shows the router's sessions.
* `LiveIsNewAlways: DeskSpec => []LiveIsNew`, across connections, under `WholeProtocol`.
  A message is *past* the router (`Past`) when it was sent and is no event any more.
  What is stored or being saved is past it, because the router spawns the task
  as it takes the event (`StoredPast`), and so is what a client was told, live or
  by history.  So what is on the page when the client dials is past the router; the
  connection it dials is new and its line has nothing; and a line gets only what is
  being posted in that step, which is not past the router yet.  `AgainInv` says so of
  the page before the dial, and of the inbox and the tabs since.

Only model-checked:

* the liveness properties: fairness and ENABLED are out of the prover's reach;
* `SentIsShown`, which is not true for every value of the constants.  The
  session of the client may be taken over by another connection of the same user
  while the message comes round.  And the active chat survives a login as
  another user (`chat.rs:115`): that user may send to a group it is not in, and
  be invited to it after the message went round.  The instance of `talk`, with one
  user at the client and no connection but the client's, rules out both.

## 6. Not modelled

* The frame limit of `LengthDelimitedCodec` and flow control.  Both are in
  libraries and count bytes, and the repository configures neither.  Their effect
  is a write that fails or one that never ends: the first is `WriteFails` and
  `Fail`; the second would stop the actor, then the router at `chan` being full,
  as in `claim_wait`.
* Drawing, fonts, themes, the text being typed, the cache of textures, the save
  dialog; configuration and logs.
* Passwords' hashing, serialization with postcard, file transfer: a payload is a
  payload; a frame that does not parse is `NoFirstFrame` before the loop and is
  skipped inside it.
* An INSERT that commits and still returns an error, because the answer of the
  database was lost: a statement that fails (`MayFail`) leaves the tables as they
  were.  A group membership could then have no event (`connection.rs:212`) and an
  account could exist whose registration was refused.
* The panic of a task and the exhaustion of memory or ids.
* `ON DELETE` clauses: no statement deletes.

## 7. Plan

Done: the server with its runs, claims and theorems; the client with its runs and
theorems; one client in front of the server, with the refinement.

Worth doing next: two clients at the desk.
