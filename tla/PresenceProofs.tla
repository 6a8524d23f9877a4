----------------------------- MODULE PresenceProofs -----------------------------
(***************************************************************************)
(* What a client believes of who is online, and what it is told of its     *)
(* groups, for every value of the constants.  A connection is announced    *)
(* once and told nothing before; its channel exists from then on, so no    *)
(* word of another user is lost on the way; and the places that hold a     *)
(* client's news keep their order while the news moves through them.  The  *)
(* last word on the way to a client is therefore what the router's         *)
(* sessions say.  What tells a client of a group is followed the same way, *)
(* from the script of the actor that plans it to the wire: it is never     *)
(* ahead of the event that subscribes the client's user.                   *)
(***************************************************************************)
EXTENDS OrderProofs

-----------------------------------------------------------------------------
(* Presence.                                                               *)

\* The router does not know of c yet: its login has not been posted.
Unannounced(c) ==
  \/ phase[c] \in {"fresh", "authenticating", "rejecting"}
  \/ phase[c] = "greeting" /\ (Awaiting(c, "fetchGroups") \/ Awaiting(c, "toRouter"))

\* Where the login of c is queued.
LoginOf(c) == {i \in DOMAIN rxq : rxq[i].type = "UserConnected" /\ rxq[i].sender = c}

\* The router sends c nothing, and has sent it no news.
Unmet(c) ==
  /\ \A u \in UserId : sessions[u] # c
  /\ \A v \in UserId : NewsOf(c, v) = {}

\* A connection is announced once, and is told nothing of the others before.
AnnouncedOnce ==
  \A c \in Conn :
    /\ Unannounced(c) => LoginOf(c) = {} /\ Unmet(c)
    /\ LoginOf(c) # {} => Unmet(c)
    /\ \A i, j \in LoginOf(c) : i = j

\* From the moment the groups are read the channel is there.
ChannelsOpen ==
  \A c \in Conn : InLoop(c) /\ ~(phase[c] = "greeting" /\ Awaiting(c, "fetchGroups")) => c \in open

\* What a session is told adds up because its first news are all who are
\* online, none of its later ones gets lost, and no two change their order.
PresenceInv ==
  /\ AnnouncedOnce
  /\ ChannelsOpen
  /\ PresenceConverges

-----------------------------------------------------------------------------
(* What a client is told of the others.                                    *)

Tells(m, v, on) == m.type = "Presence" /\ m.user = v /\ m.online = on

\* The word at place p is that v is online, or that it is not.
Word(c, p, v, on) == p \in NewsOf(c, v) /\ MessageAt(c, p).online = on

\* The four parts of what c is told.
WordOnWire(c, i, v, on) == i \in DOMAIN wire[c] /\ Tells(wire[c][i], v, on)

WordInHand(c, v, on) == Awaiting(c, "toClient") /\ Tells(Head(script[c]).msg, v, on)

WordInChannel(c, i, v, on) == i \in DOMAIN chan[c] /\ Tells(chan[c][i], v, on)

WordToBeSent(c, i, v, on) ==
  i \in DOMAIN fanout /\ fanout[i].to = c /\ Tells(fanout[i].msg, v, on)

LEMMA WordParts ==
  ASSUME NEW c \in Conn, NEW p \in Place, NEW v, NEW on
  PROVE  /\ p[1] = 1 => (Word(c, p, v, on) <=> WordOnWire(c, p[2], v, on))
         /\ p[1] = 2 => (Word(c, p, v, on) <=> p = <<2, 1>> /\ WordInHand(c, v, on))
         /\ p[1] = 3 => (Word(c, p, v, on) <=> WordInChannel(c, p[2], v, on))
         /\ p[1] = 4 => (Word(c, p, v, on) <=> WordToBeSent(c, p[2], v, on))
         /\ p[1] = 5 => ~Word(c, p, v, on)
         /\ p[1] \in 1 .. 5 /\ p[2] \in Nat \ {0} /\ p = <<p[1], p[2]>>
         /\ p[1] = 1 => (Word(c, p, v, on)' <=> WordOnWire(c, p[2], v, on)')
         /\ p[1] = 2 => (Word(c, p, v, on)' <=> p = <<2, 1>> /\ WordInHand(c, v, on)')
         /\ p[1] = 3 => (Word(c, p, v, on)' <=> WordInChannel(c, p[2], v, on)')
         /\ p[1] = 4 => (Word(c, p, v, on)' <=> WordToBeSent(c, p[2], v, on)')
         /\ p[1] = 5 => ~Word(c, p, v, on)'
<1>1. p[1] \in 1 .. 5 /\ p[2] \in Nat \ {0} /\ p = <<p[1], p[2]>>
  BY DEF Place
<1>2. \A i : <<2, 1>>[1] = 2 /\ <<1, i>>[1] = 1 /\ <<3, i>>[1] = 3 /\ <<4, i>>[1] = 4
  OBVIOUS
<1>3. CASE p[1] = 1
  <2>1. p \in Places(c) <=> p[2] \in DOMAIN wire[c]
    BY <1>1, <1>3 DEF Places
  <2>2. p \in Places(c)' <=> p[2] \in DOMAIN wire'[c]
    BY <1>1, <1>3 DEF Places
  <2>3. MessageAt(c, p) = wire[c][p[2]] /\ MessageAt(c, p)' = wire'[c][p[2]]
    BY <1>3 DEF MessageAt
  <2> QED  BY <1>1, <1>3, <2>1, <2>2, <2>3 DEF Word, NewsOf, Tells, WordOnWire
<1>4. CASE p[1] = 2
  <2>1. p \in Places(c) <=> p = <<2, 1>> /\ Awaiting(c, "toClient")
    BY <1>1, <1>4 DEF Places
  <2>2. p \in Places(c)' <=> p = <<2, 1>> /\ Awaiting(c, "toClient")'
    BY <1>1, <1>4 DEF Places
  <2>3. MessageAt(c, p) = Head(script[c]).msg /\ MessageAt(c, p)' = Head(script'[c]).msg
    BY <1>4 DEF MessageAt
  <2> QED  BY <1>1, <1>4, <2>1, <2>2, <2>3 DEF Word, NewsOf, Tells, WordInHand
<1>5. CASE p[1] = 3
  <2>1. p \in Places(c) <=> p[2] \in DOMAIN chan[c]
    BY <1>1, <1>5 DEF Places
  <2>2. p \in Places(c)' <=> p[2] \in DOMAIN chan'[c]
    BY <1>1, <1>5 DEF Places
  <2>3. MessageAt(c, p) = chan[c][p[2]] /\ MessageAt(c, p)' = chan'[c][p[2]]
    BY <1>5 DEF MessageAt
  <2> QED  BY <1>1, <1>5, <2>1, <2>2, <2>3 DEF Word, NewsOf, Tells, WordInChannel
<1>6. CASE p[1] = 4
  <2>1. p \in Places(c) <=> p[2] \in DOMAIN fanout /\ fanout[p[2]].to = c
    BY <1>1, <1>6 DEF Places
  <2>2. p \in Places(c)' <=> p[2] \in DOMAIN fanout' /\ fanout'[p[2]].to = c
    BY <1>1, <1>6 DEF Places
  <2>3. MessageAt(c, p) = fanout[p[2]].msg /\ MessageAt(c, p)' = fanout'[p[2]].msg
    BY <1>6 DEF MessageAt
  <2> QED  BY <1>1, <1>6, <2>1, <2>2, <2>3 DEF Word, NewsOf, Tells, WordToBeSent
<1>7. CASE p[1] = 5
  BY <1>1, <1>7 DEF Word, NewsOf, Places
<1> QED  BY <1>1, <1>3, <1>4, <1>5, <1>6, <1>7

LEMMA WordAt ==
  ASSUME NEW c \in Conn, NEW v, NEW on
  PROVE  /\ WordInHand(c, v, on) => Word(c, <<2, 1>>, v, on)
         /\ \A i \in Nat \ {0} :
              /\ WordOnWire(c, i, v, on) => Word(c, <<1, i>>, v, on)
              /\ WordInChannel(c, i, v, on) => Word(c, <<3, i>>, v, on)
              /\ WordToBeSent(c, i, v, on) => Word(c, <<4, i>>, v, on)
         /\ \A i \in Nat \ {0} :
              /\ WordOnWire(c, i, v, on)' => Word(c, <<1, i>>, v, on)'
              /\ WordInChannel(c, i, v, on)' => Word(c, <<3, i>>, v, on)'
              /\ WordToBeSent(c, i, v, on)' => Word(c, <<4, i>>, v, on)'
         /\ WordInHand(c, v, on)' => Word(c, <<2, 1>>, v, on)'
<1>1. /\ <<2, 1>> \in Place /\ <<2, 1>>[1] = 2
      /\ \A i \in Nat \ {0} : /\ <<1, i>> \in Place /\ <<1, i>>[1] = 1 /\ <<1, i>>[2] = i
                              /\ <<3, i>> \in Place /\ <<3, i>>[1] = 3 /\ <<3, i>>[2] = i
                              /\ <<4, i>> \in Place /\ <<4, i>>[1] = 4 /\ <<4, i>>[2] = i
  BY DEF Place
<1>2. WordInHand(c, v, on) => Word(c, <<2, 1>>, v, on)
  BY <1>1, WordParts
<1>3. WordInHand(c, v, on)' => Word(c, <<2, 1>>, v, on)'
  BY <1>1, WordParts
<1>4. ASSUME NEW i \in Nat \ {0}
      PROVE  /\ WordInChannel(c, i, v, on) => Word(c, <<3, i>>, v, on)
             /\ WordInChannel(c, i, v, on)' => Word(c, <<3, i>>, v, on)'
  BY <1>1, <1>4, WordParts
<1>5. ASSUME NEW i \in Nat \ {0}
      PROVE  /\ WordToBeSent(c, i, v, on) => Word(c, <<4, i>>, v, on)
             /\ WordToBeSent(c, i, v, on)' => Word(c, <<4, i>>, v, on)'
  BY <1>1, <1>5, WordParts
<1>6. ASSUME NEW i \in Nat \ {0}
      PROVE  /\ WordOnWire(c, i, v, on) => Word(c, <<1, i>>, v, on)
             /\ WordOnWire(c, i, v, on)' => Word(c, <<1, i>>, v, on)'
  BY <1>1, <1>6, WordParts
<1> QED  BY <1>2, <1>3, <1>4, <1>5, <1>6

LEMMA NewsPlaces ==
  ASSUME TypeInv, TypeInv', NEW c \in Conn, NEW v
  PROVE  NewsOf(c, v) \subseteq Place /\ NewsOf(c, v)' \subseteq Place
<1>1. NewsOf(c, v) \subseteq Place
  <2>1. /\ \A i \in DOMAIN wire[c] : i \in Nat \ {0}
        /\ \A i \in DOMAIN chan[c] : i \in Nat \ {0}
        /\ \A i \in DOMAIN fanout : i \in Nat \ {0}
    BY HasEntries DEF Entries, TypeInv, TypeOK, RouterOK
  <2>2. Places(c) \subseteq Place
    BY <2>1 DEF Places, Place
  <2> QED  BY <2>2 DEF NewsOf
<1>2. NewsOf(c, v)' \subseteq Place
  <2>1. /\ \A i \in DOMAIN wire'[c] : i \in Nat \ {0}
        /\ \A i \in DOMAIN chan'[c] : i \in Nat \ {0}
        /\ \A i \in DOMAIN fanout' : i \in Nat \ {0}
    BY DEF TypeInv, TypeOK, RouterOK, ConnOK, ChanOK
  <2>2. Places(c)' \subseteq Place
    BY <2>1 DEF Places, Place
  <2> QED  BY <2>2 DEF NewsOf
<1> QED  BY <1>1, <1>2

\* Whom a client believes online, in these words.
LEMMA Belief ==
  ASSUME TypeInv, TypeInv', NEW c \in Conn, NEW v
  PROVE  /\ BelievesOnline(c, v) <=>
              \E p \in Place : /\ Word(c, p, v, TRUE)
                               /\ \A q \in Place : \A on : Word(c, q, v, on) => q = p \/ Nearer(q, p)
         /\ BelievesOnline(c, v)' <=>
              \E p \in Place : /\ Word(c, p, v, TRUE)'
                               /\ \A q \in Place : \A on : Word(c, q, v, on)' => q = p \/ Nearer(q, p)
<1>1. NewsOf(c, v) \subseteq Place /\ NewsOf(c, v)' \subseteq Place
  BY NewsPlaces
<1>2. \A p \in NewsOf(c, v) : MessageAt(c, p).online <=> MessageAt(c, p).online = TRUE
  OBVIOUS
<1>3. \A p \in NewsOf(c, v)' : MessageAt(c, p)'.online <=> MessageAt(c, p)'.online = TRUE
  OBVIOUS
<1> QED  BY <1>1, <1>2, <1>3 DEF BelievesOnline, Word

\* Beliefs stay when every word comes from one before, in the same order, and
\* none is lost.
LEMMA BeliefMoves ==
  ASSUME TypeInv, TypeInv', NEW c \in Conn, NEW v, NEW g \in [Place -> Place],
         \A p \in Place : \A on : Word(c, p, v, on)' => Word(c, g[p], v, on),
         \A q \in Place : \A on : Word(c, q, v, on) =>
           \E p \in Place : Word(c, p, v, on)' /\ g[p] = q,
         \A p, q \in Place : (/\ Nearer(p, q)
                              /\ \E on : Word(c, p, v, on)'
                              /\ \E on : Word(c, q, v, on)')
                               => Nearer(g[p], g[q])
  PROVE  BelievesOnline(c, v)' <=> BelievesOnline(c, v)
<1>1. \A p, q \in Place : p = q \/ Nearer(p, q) \/ Nearer(q, p)
  <2>1. \A p \in Place : p = <<p[1], p[2]>> /\ p[1] \in 1 .. 5 /\ p[2] \in Nat
    BY DEF Place
  <2>2. ASSUME NEW p \in Place, NEW q \in Place, ~Nearer(p, q), ~Nearer(q, p)
        PROVE  p[1] = q[1] /\ p[2] = q[2]
    <3>1. p[1] \in Int /\ p[2] \in Int /\ q[1] \in Int /\ q[2] \in Int
      BY <2>1
    <3>2. \A a, b, x, y \in Int : ~(a < b \/ (a = b /\ x < y)) /\ ~(b < a \/ (b = a /\ y < x)) => a = b /\ x = y
      OBVIOUS
    <3> QED  BY <2>2, <3>1, <3>2 DEF Nearer
  <2> QED  BY <2>1, <2>2
<1>2. \A p, q \in Place : ~(Nearer(p, q) /\ Nearer(q, p)) /\ ~Nearer(p, p)
  BY DEF Place, Nearer
<1>3. ASSUME BelievesOnline(c, v) PROVE BelievesOnline(c, v)'
  <2>1. PICK q \in Place : /\ Word(c, q, v, TRUE)
                           /\ \A r \in Place : \A on : Word(c, r, v, on) => r = q \/ Nearer(r, q)
    BY <1>3, Belief
  <2>2. PICK p \in Place : Word(c, p, v, TRUE)' /\ g[p] = q
    BY <2>1
  <2>3. ASSUME NEW r \in Place, NEW on, Word(c, r, v, on)'
        PROVE  r = p \/ Nearer(r, p)
    <3>1. g[r] = q \/ Nearer(g[r], q)
      BY <2>1, <2>3
    <3>2. Nearer(p, r) => Nearer(q, g[r])
      BY <2>2, <2>3
    <3>3. g[r] \in Place
      OBVIOUS
    <3> QED  BY <1>1, <1>2, <3>1, <3>2, <3>3
  <2> QED  BY <2>2, <2>3, Belief
<1>4. ASSUME BelievesOnline(c, v)' PROVE BelievesOnline(c, v)
  <2>1. PICK p \in Place : /\ Word(c, p, v, TRUE)'
                           /\ \A r \in Place : \A on : Word(c, r, v, on)' => r = p \/ Nearer(r, p)
    BY <1>4, Belief
  <2>2. g[p] \in Place /\ Word(c, g[p], v, TRUE)
    BY <2>1
  <2>3. ASSUME NEW q \in Place, NEW on, Word(c, q, v, on)
        PROVE  q = g[p] \/ Nearer(q, g[p])
    <3>1. PICK r \in Place : Word(c, r, v, on)' /\ g[r] = q
      BY <2>3
    <3>2. r = p \/ Nearer(r, p)
      BY <2>1, <3>1
    <3> QED  BY <2>1, <3>1, <3>2
  <2> QED  BY <2>2, <2>3, Belief
<1> QED  BY <1>3, <1>4

LEMMA BeliefStays ==
  ASSUME TypeInv, TypeInv', NEW c \in Conn, NEW v,
         \A p \in Place : \A on : Word(c, p, v, on)' <=> Word(c, p, v, on)
  PROVE  BelievesOnline(c, v)' <=> BelievesOnline(c, v)
BY Belief

\* Nothing said, nothing heard.
LEMMA NothingSaid ==
  ASSUME TypeInv, TypeInv', NEW c \in Conn, NEW v
  PROVE  /\ NewsOf(c, v) = {} <=> \A p \in Place : \A on : ~Word(c, p, v, on)
         /\ NewsOf(c, v)' = {} <=> \A p \in Place : \A on : ~Word(c, p, v, on)'
<1>1. NewsOf(c, v) \subseteq Place /\ NewsOf(c, v)' \subseteq Place
  BY NewsPlaces
<1> QED  BY <1>1 DEF Word

\* A word written was in the hands of the actor, which then holds none.
LEMMA WordWritten ==
  ASSUME TypeInv, TypeInv', HandsQuiet, NEW c \in Conn, NEW v, WriteToClient(c), InLoop(c)'
  PROVE  BelievesOnline(c, v)' <=> BelievesOnline(c, v)
<1>0. PICK n \in Nat \ {0} : n = Len(wire[c]) + 1
  BY HasEntries DEF Entries
<1> DEFINE g == [p \in Place |-> IF p = <<1, n>> THEN <<2, 1>> ELSE p]
<1>1. /\ wire[c] \in Seq(ServerMessage) /\ Awaiting(c, "toClient")
      /\ wire'[c] = Append(wire[c], Head(script[c]).msg)
      /\ UNCHANGED fanout /\ chan'[c] = chan[c]
      /\ script'[c] = Tail(script[c])
  <2>1. phase[c] # "rejecting"
    BY HasEntries DEF Entries, WriteToClient, Return, InLoop
  <2>2. Tail(script[c]) \in Seq(Await)
    BY TailTypes, HasEntries DEF Entries, WriteToClient, Awaiting
  <2>3. <<>> \o Tail(script[c]) = Tail(script[c])
    BY <2>2, ConcatEmpty
  <2> QED  BY <2>1, <2>3, HasEntries DEF Entries, WriteToClient, Continue, routerVars, chanVars
<1>2. \A on : ~WordInHand(c, v, on)'
  <2>1. script'[c] # <<>> => Head(script'[c]) \in NotRouted
    BY <1>1, TailTypes DEF HandsQuiet, Awaiting
  <2> QED  BY <2>1 DEF WordInHand, Awaiting, NotRouted, Tells
<1>3. /\ DOMAIN wire'[c] = 1 .. n /\ DOMAIN wire[c] = 1 .. n - 1
      /\ \A i \in 1 .. n - 1 : wire'[c][i] = wire[c][i]
      /\ wire'[c][n] = Head(script[c]).msg
  BY <1>0, <1>1, Appended
<1>4. \A i, on : WordOnWire(c, i, v, on)' <=>
        (i \in 1 .. n - 1 /\ WordOnWire(c, i, v, on)) \/ (i = n /\ WordInHand(c, v, on))
  BY <1>1, <1>3 DEF WordOnWire, WordInHand
<1>5. \A i, on : WordInChannel(c, i, v, on)' <=> WordInChannel(c, i, v, on)
  BY <1>1 DEF WordInChannel
<1>6. \A i, on : WordToBeSent(c, i, v, on)' <=> WordToBeSent(c, i, v, on)
  BY <1>1 DEF WordToBeSent
<1>7. g \in [Place -> Place] /\ <<1, n>> \in Place /\ <<2, 1>> \in Place
  BY <1>3 DEF Place
<1>8. ASSUME NEW p \in Place, NEW on, Word(c, p, v, on)'
      PROVE  /\ Word(c, g[p], v, on)
             /\ \/ p[1] = 1 /\ p[2] \in 1 .. n - 1 /\ g[p] = p
                \/ p[1] = 1 /\ p[2] = n /\ g[p] = <<2, 1>>
                \/ p[1] \in 3 .. 4 /\ g[p] = p
  <2>1. CASE p = <<1, n>>
    <3>1. p[1] = 1 /\ p[2] = n /\ WordOnWire(c, p[2], v, on)'
      BY <1>8, <2>1, WordParts
    <3>2. WordInHand(c, v, on)
      BY <1>3, <1>4, <3>1
    <3> QED  BY <2>1, <3>1, <3>2, WordAt
  <2>2. CASE p # <<1, n>>
    BY <1>2, <1>3, <1>4, <1>5, <1>6, <1>8, <2>2, WordParts
  <2> QED  BY <2>1, <2>2
<1>9. ASSUME NEW q \in Place, NEW on, Word(c, q, v, on)
      PROVE  \E p \in Place : Word(c, p, v, on)' /\ g[p] = q
  <2>1. CASE q[1] = 2
    <3>1. q = <<2, 1>> /\ WordInHand(c, v, on)
      BY <1>9, <2>1, WordParts
    <3>2. Word(c, <<1, n>>, v, on)'
      BY <1>3, <1>4, <3>1, WordAt
    <3> QED  BY <1>7, <3>1, <3>2
  <2>2. CASE q[1] # 2
    <3>1. q[1] = 1 => q[2] \in 1 .. n - 1
      BY <1>3, <1>9, WordParts DEF WordOnWire
    <3>2. q # <<1, n>>
      BY <1>3, <3>1
    <3>3. g[q] = q
      BY <3>2
    <3>4. Word(c, q, v, on)'
      BY <1>4, <1>5, <1>6, <1>9, <2>2, <3>1, WordParts
    <3> QED  BY <3>3, <3>4
  <2> QED  BY <2>1, <2>2
<1> HIDE DEF g
<1>10. ASSUME NEW p \in Place, NEW q \in Place, Nearer(p, q),
              NEW a, NEW b, Word(c, p, v, a)', Word(c, q, v, b)'
       PROVE  Nearer(g[p], g[q])
  BY <1>3, <1>8, <1>10, WordParts DEF Nearer
<1> QED  BY <1>7, <1>8, <1>9, <1>10, BeliefMoves

\* A word received was the first in the channel.
LEMMA WordReceived ==
  ASSUME TypeInv, TypeInv', NEW c \in Conn, NEW v, ReceiveRouted(c)
  PROVE  BelievesOnline(c, v)' <=> BelievesOnline(c, v)
<1> DEFINE g == [p \in Place |-> IF p = <<2, 1>> THEN <<3, 1>>
                                 ELSE IF p[1] = 3 THEN <<3, p[2] + 1>> ELSE p]
<1>1. /\ chan[c] \in Seq(ServerMessage) /\ chan[c] # <<>> /\ script[c] = <<>>
      /\ chan'[c] = Tail(chan[c]) /\ script'[c] = <<ToClient(Head(chan[c]))>>
      /\ UNCHANGED <<fanout, wire>>
  BY HasEntries DEF Entries, ReceiveRouted, routerVars, Idle
<1>2. /\ \A i \in DOMAIN chan'[c] : i \in Nat \ {0} /\ i + 1 \in DOMAIN chan[c] /\ chan'[c][i] = chan[c][i + 1]
      /\ \A i \in DOMAIN chan[c] : i # 1 =>
           i - 1 \in DOMAIN chan'[c] /\ i - 1 \in Nat \ {0} /\ i \in Nat
  BY <1>1
<1>3. Head(chan[c]) = chan[c][1] /\ 1 \in DOMAIN chan[c]
  BY <1>1
<1>4. \A on : WordInHand(c, v, on)' <=> WordInChannel(c, 1, v, on)
  <2>1. script'[c] # <<>> /\ Head(script'[c]) = ToClient(Head(chan[c]))
    BY <1>1
  <2> QED  BY <1>3, <2>1 DEF WordInHand, Awaiting, WordInChannel, ToClient
<1>5. /\ \A i, on : WordInChannel(c, i, v, on)' => WordInChannel(c, i + 1, v, on)
      /\ \A i, on : i # 1 /\ WordInChannel(c, i, v, on) =>
           WordInChannel(c, i - 1, v, on)' /\ i - 1 \in Nat \ {0} /\ i \in Nat
  BY <1>2 DEF WordInChannel
<1>6. \A i, on : /\ WordToBeSent(c, i, v, on)' <=> WordToBeSent(c, i, v, on)
                 /\ WordOnWire(c, i, v, on)' <=> WordOnWire(c, i, v, on)
                 /\ ~WordInHand(c, v, on)
  BY <1>1 DEF WordToBeSent, WordOnWire, WordInHand, Awaiting
<1>7. g \in [Place -> Place] /\ <<2, 1>> \in Place
  BY DEF Place
<1>8. ASSUME NEW p \in Place, NEW on, Word(c, p, v, on)'
      PROVE  /\ Word(c, g[p], v, on)
             /\ \/ p[1] = 2 /\ p[2] = 1 /\ g[p] = <<3, 1>>
                \/ p[1] = 3 /\ g[p] = <<3, p[2] + 1>>
                \/ p[1] \in {1, 4} /\ g[p] = p
  <2>1. CASE p[1] = 2
    <3>1. p = <<2, 1>> /\ WordInHand(c, v, on)'
      BY <1>8, <2>1, WordParts
    <3>2. g[p] = <<3, 1>> /\ p[2] = 1
      BY <3>1
    <3>3. WordInChannel(c, 1, v, on)
      BY <1>4, <3>1
    <3>4. Word(c, <<3, 1>>, v, on)
      <4>1. \A i \in Nat \ {0} : WordInChannel(c, i, v, on) => Word(c, <<3, i>>, v, on)
        BY WordAt
      <4> QED  BY <3>3, <4>1
    <3> QED  BY <2>1, <3>2, <3>4
  <2>2. CASE p[1] = 3
    <3>1. g[p] = <<3, p[2] + 1>> /\ p[2] + 1 \in Nat \ {0}
      BY <2>2, WordParts
    <3>2. WordInChannel(c, p[2] + 1, v, on)
      BY <1>5, <1>8, <2>2, WordParts
    <3> QED  BY <2>2, <3>1, <3>2, WordAt
  <2>3. CASE p[1] \in {1, 4, 5}
    BY <1>6, <1>8, <2>3, WordParts
  <2> QED  BY <2>1, <2>2, <2>3, WordParts
<1>9. ASSUME NEW q \in Place, NEW on, Word(c, q, v, on)
      PROVE  \E p \in Place : Word(c, p, v, on)' /\ g[p] = q
  <2>1. CASE q[1] = 3 /\ q[2] = 1
    <3>1. q = <<3, 1>> /\ WordInChannel(c, 1, v, on)
      BY <1>9, <2>1, WordParts
    <3>2. Word(c, <<2, 1>>, v, on)'
      BY <1>4, <3>1, WordAt
    <3> QED  BY <1>7, <3>1, <3>2
  <2>2. CASE q[1] = 3 /\ q[2] # 1
    <3>1. WordInChannel(c, q[2], v, on) /\ q = <<3, q[2]>>
      BY <1>9, <2>2, WordParts
    <3>2. WordInChannel(c, q[2] - 1, v, on)' /\ q[2] - 1 \in Nat \ {0} /\ q[2] \in Nat
      BY <1>5, <2>2, <3>1
    <3>3. <<3, q[2] - 1>> \in Place /\ <<3, q[2] - 1>>[1] = 3 /\ <<3, q[2] - 1>>[2] = q[2] - 1
      BY <3>2 DEF Place
    <3>4. (q[2] - 1) + 1 = q[2]
      BY <3>2
    <3>5. g[<<3, q[2] - 1>>] = q
      BY <3>1, <3>3, <3>4
    <3> QED  BY <3>2, <3>3, <3>5, WordAt
  <2>3. CASE q[1] # 3
    <3>1. q[1] \in {1, 4} /\ Word(c, q, v, on)'
      BY <1>6, <1>9, <2>3, WordParts
    <3>2. g[q] = q
      BY <3>1
    <3> QED  BY <3>1, <3>2
  <2> QED  BY <2>1, <2>2, <2>3
<1> HIDE DEF g
<1>10. ASSUME NEW p \in Place, NEW q \in Place, Nearer(p, q),
              NEW a, NEW b, Word(c, p, v, a)', Word(c, q, v, b)'
       PROVE  Nearer(g[p], g[q])
  BY <1>8, <1>10, WordParts DEF Nearer
<1> QED  BY <1>7, <1>8, <1>9, <1>10, BeliefMoves

\* A word delivered was the first to be sent.
LEMMA WordDelivered ==
  ASSUME TypeInv, TypeInv', Deliver, UNCHANGED connVars, NEW c \in open, c \in Conn, NEW v
  PROVE  BelievesOnline(c, v)' <=> BelievesOnline(c, v)
<1>0. PICK n \in Nat \ {0} : n = Len(chan[c]) + 1
  BY HasEntries DEF Entries
<1> DEFINE g == [p \in Place |-> IF p[1] = 4 THEN <<4, p[2] + 1>>
                                 ELSE IF p = <<3, n>> THEN <<4, 1>> ELSE p]
<1>1. /\ fanout \in Seq(Delivery) /\ fanout # <<>> /\ fanout' = Tail(fanout)
      /\ chan[c] \in Seq(ServerMessage)
      /\ IF Head(fanout).to = c THEN chan'[c] = Append(chan[c], Head(fanout).msg)
                                ELSE chan'[c] = chan[c]
      /\ UNCHANGED <<wire, script>>
  BY HasEntries DEF Entries, Deliver, TypeInv, TypeOK, RouterOK, connVars
<1>2. /\ \A i \in DOMAIN fanout' :
           i \in Nat \ {0} /\ i + 1 \in DOMAIN fanout /\ fanout'[i] = fanout[i + 1]
      /\ \A i \in DOMAIN fanout : i # 1 =>
           i - 1 \in DOMAIN fanout' /\ i - 1 \in Nat \ {0} /\ i \in Nat
      /\ Head(fanout) = fanout[1] /\ 1 \in DOMAIN fanout
  BY <1>1
<1>3. \A m : /\ DOMAIN Append(chan[c], m) = 1 .. n /\ DOMAIN chan[c] = 1 .. n - 1
             /\ \A i \in 1 .. n - 1 : Append(chan[c], m)[i] = chan[c][i]
             /\ Append(chan[c], m)[n] = m
  BY <1>0, <1>1, Appended
<1>4. \A i, on : WordInChannel(c, i, v, on)' <=>
        \/ i \in 1 .. n - 1 /\ WordInChannel(c, i, v, on)
        \/ i = n /\ WordToBeSent(c, 1, v, on)
  BY <1>1, <1>2, <1>3 DEF WordInChannel, WordToBeSent
<1>5. /\ \A i, on : WordToBeSent(c, i, v, on)' => WordToBeSent(c, i + 1, v, on)
      /\ \A i, on : i # 1 /\ WordToBeSent(c, i, v, on) =>
           WordToBeSent(c, i - 1, v, on)' /\ i - 1 \in Nat \ {0} /\ i \in Nat
  BY <1>2 DEF WordToBeSent
<1>6. \A i, on : /\ WordOnWire(c, i, v, on)' <=> WordOnWire(c, i, v, on)
                 /\ WordInHand(c, v, on)' <=> WordInHand(c, v, on)
  BY <1>1 DEF WordOnWire, WordInHand, Awaiting
<1>7. /\ g \in [Place -> Place] /\ <<4, 1>> \in Place
      /\ \A i \in Nat \ {0} : /\ <<3, i>> \in Place /\ <<3, i>>[1] = 3 /\ <<3, i>>[2] = i
                              /\ <<4, i>> \in Place /\ <<4, i>>[1] = 4 /\ <<4, i>>[2] = i
  BY DEF Place
<1>8. ASSUME NEW p \in Place, NEW on, Word(c, p, v, on)'
      PROVE  /\ Word(c, g[p], v, on)
             /\ \/ p[1] = 4 /\ g[p] = <<4, p[2] + 1>>
                \/ p[1] = 3 /\ p[2] = n /\ g[p] = <<4, 1>>
                \/ p[1] = 3 /\ p[2] \in 1 .. n - 1 /\ g[p] = p
                \/ p[1] \in {1, 2} /\ g[p] = p
  <2>1. CASE p[1] = 4
    <3>1. g[p] = <<4, p[2] + 1>> /\ p[2] + 1 \in Nat \ {0}
      BY <2>1, WordParts
    <3>2. WordToBeSent(c, p[2] + 1, v, on)
      BY <1>5, <1>8, <2>1, WordParts
    <3> QED  BY <2>1, <3>1, <3>2, WordAt
  <2>2. CASE p = <<3, n>>
    <3>1. p[1] = 3 /\ p[2] = n /\ WordInChannel(c, p[2], v, on)'
      BY <1>8, <2>2, WordParts
    <3>2. WordToBeSent(c, 1, v, on)
      BY <1>4, <3>1
    <3>3. g[p] = <<4, 1>>
      BY <2>2, <3>1
    <3>4. Word(c, <<4, 1>>, v, on)
      <4>1. \A i \in Nat \ {0} : WordToBeSent(c, i, v, on) => Word(c, <<4, i>>, v, on)
        BY WordAt
      <4> QED  BY <3>2, <4>1
    <3> QED  BY <3>1, <3>3, <3>4
  <2>3. CASE p[1] = 3 /\ p # <<3, n>>
    BY <1>4, <1>8, <2>3, WordParts
  <2>4. CASE p[1] \in {1, 2, 5}
    BY <1>6, <1>8, <2>4, WordParts
  <2> QED  BY <2>1, <2>2, <2>3, <2>4, WordParts
<1>9. ASSUME NEW q \in Place, NEW on, Word(c, q, v, on)
      PROVE  \E p \in Place : Word(c, p, v, on)' /\ g[p] = q
  <2>1. CASE q[1] = 4 /\ q[2] = 1
    <3>1. q = <<4, 1>> /\ WordToBeSent(c, 1, v, on)
      BY <1>9, <2>1, WordParts
    <3>2. Word(c, <<3, n>>, v, on)'
      BY <1>4, <3>1, WordAt
    <3>3. g[<<3, n>>] = q
      <4>1. <<3, n>> \in Place /\ <<3, n>>[1] = 3
        BY <1>7
      <4> QED  BY <3>1, <4>1
    <3> QED  BY <1>7, <3>2, <3>3
  <2>2. CASE q[1] = 4 /\ q[2] # 1
    <3>1. WordToBeSent(c, q[2], v, on) /\ q = <<4, q[2]>>
      BY <1>9, <2>2, WordParts
    <3>2. WordToBeSent(c, q[2] - 1, v, on)' /\ q[2] - 1 \in Nat \ {0} /\ q[2] \in Nat
      BY <1>5, <2>2, <3>1
    <3>3. <<4, q[2] - 1>> \in Place /\ <<4, q[2] - 1>>[1] = 4 /\ <<4, q[2] - 1>>[2] = q[2] - 1
      BY <1>7, <3>2
    <3>4. (q[2] - 1) + 1 = q[2]
      BY <3>2
    <3>5. g[<<4, q[2] - 1>>] = q
      BY <3>1, <3>3, <3>4
    <3> QED  BY <3>2, <3>3, <3>5, WordAt
  <2>3. CASE q[1] = 3
    <3>1. WordInChannel(c, q[2], v, on) /\ q[2] \in 1 .. n - 1 /\ q = <<3, q[2]>>
      BY <1>3, <1>9, <2>3, WordParts DEF WordInChannel
    <3>2. Word(c, q, v, on)'
      BY <1>4, <2>3, <3>1, WordParts
    <3>3. g[q] = q
      BY <2>3, <3>1
    <3> QED  BY <3>2, <3>3
  <2>4. CASE q[1] \in {1, 2, 5}
    <3>1. Word(c, q, v, on)'
      BY <1>6, <1>9, <2>4, WordParts
    <3>2. g[q] = q
      BY <2>4
    <3> QED  BY <3>1, <3>2
  <2> QED  BY <2>1, <2>2, <2>3, <2>4, WordParts
<1> HIDE DEF g
<1>10. ASSUME NEW p \in Place, NEW q \in Place, Nearer(p, q),
              NEW a, NEW b, Word(c, p, v, a)', Word(c, q, v, b)'
       PROVE  Nearer(g[p], g[q])
  BY <1>8, <1>10, WordParts DEF Nearer
<1> QED  BY <1>7, <1>8, <1>9, <1>10, BeliefMoves

\* No other step of an actor says or unsays anything, while c stays in its loop.
LEMMA WordsStay ==
  ASSUME TypeInv, TypeInv', HandsQuiet, NEW a \in Conn, Carried(a), NEW c \in Conn, InLoop(c)',
         NEW i, NEW v, NEW on,
         \/ c # a /\ Aside(c)
         \/ /\ c = a /\ ~WriteToClient(c) /\ ~ReceiveRouted(c)
            /\ script'[c] = script[c] \/ (~Awaiting(c, "toClient") /\ script'[c] \in Seq(NotRouted))
            /\ chan'[c] # <<>> \/ chan[c] = <<>>
  PROVE  /\ WordOnWire(c, i, v, on)' <=> WordOnWire(c, i, v, on)
         /\ WordInHand(c, v, on)' <=> WordInHand(c, v, on)
         /\ WordInChannel(c, i, v, on)' <=> WordInChannel(c, i, v, on)
         /\ WordToBeSent(c, i, v, on)' <=> WordToBeSent(c, i, v, on)
<1>1. wire'[c] = wire[c] /\ fanout' = fanout
  BY DEF Carried, Aside
<1>2. WordInHand(c, v, on)' <=> WordInHand(c, v, on)
  <2>1. CASE script'[c] = script[c]
    BY <2>1 DEF WordInHand, Awaiting
  <2>2. CASE ~Awaiting(c, "toClient") /\ script'[c] \in Seq(NotRouted)
    <3>1. script'[c] # <<>> => Head(script'[c]) \in NotRouted
      BY <2>2, TailTypes
    <3> QED  BY <2>2, <3>1 DEF WordInHand, Awaiting, NotRouted, Tells
  <2> QED  BY <2>1, <2>2 DEF Aside
<1>3. WordInChannel(c, i, v, on)' <=> WordInChannel(c, i, v, on)
  <2>1. CASE chan'[c] = chan[c]
    BY <2>1 DEF WordInChannel
  <2>2. CASE c = a /\ PostToSelf(c)
    <3>1. /\ chan[c] \in Seq(ServerMessage) /\ Head(script[c]).msg.type # "Presence"
          /\ chan'[c] = Append(chan[c], Head(script[c]).msg)
      BY <2>2, HasEntries DEF Entries, PostToSelf, Awaiting, HandsQuiet, NotRouted
    <3>2. /\ DOMAIN chan'[c] = 1 .. Len(chan[c]) + 1 /\ DOMAIN chan[c] = 1 .. Len(chan[c])
          /\ \A j \in DOMAIN chan[c] : chan'[c][j] = chan[c][j]
          /\ chan'[c][Len(chan[c]) + 1] = Head(script[c]).msg /\ Len(chan[c]) \in Nat
      BY <3>1, Appended
    <3> QED  BY <2>2, <3>1, <3>2 DEF WordInChannel, Tells
  <2> QED  BY <2>1, <2>2 DEF Carried, Aside
<1> QED  BY <1>1, <1>2, <1>3 DEF WordOnWire, WordToBeSent

\* In its loop an actor loses neither what it holds nor what its channel holds.
LEMMA LoopKeeps ==
  ASSUME TypeInv, NEW c \in Conn, Actor(c) \/ Client(c), InLoop(c)',
         ~WriteToClient(c), ~ReceiveRouted(c)
  PROVE  /\ script'[c] = script[c] \/ ~Awaiting(c, "toClient")
         /\ chan'[c] # <<>> \/ chan[c] = <<>>
<1> USE HasEntries DEF Entries, InLoop
<1>1. CASE LoginUser(c) \/ CheckName(c) \/ RegisterUser(c)
  BY <1>1 DEF LoginUser, CheckName, RegisterUser, Welcome, Reject, OnlyScript, Awaiting, chanVars
<1>2. CASE FetchGroups(c) \/ FetchUsers(c)
  BY <1>2 DEF FetchGroups, FetchUsers, OnlyScript, Awaiting, chanVars
<1>3. CASE PostToRouter(c)
  BY <1>3 DEF PostToRouter, Return, Awaiting, chanVars
<1>4. CASE PostToSelf(c)
  <2>1. chan'[c] = Append(chan[c], Head(script[c]).msg) /\ chan[c] \in Seq(ServerMessage)
    BY <1>4 DEF PostToSelf
  <2>2. DOMAIN chan'[c] = 1 .. Len(chan[c]) + 1 /\ Len(chan[c]) \in Nat
    BY <2>1, Appended
  <2>3. chan'[c] # <<>>
    BY <2>2
  <2>4. ~Awaiting(c, "toClient")
    BY <1>4 DEF PostToSelf, Awaiting
  <2> QED  BY <2>3, <2>4
<1>5. CASE Invite(c) \/ AlertInvited(c) \/ NewGroup(c) \/ AddCreator(c)
  BY <1>5 DEF Invite, AlertInvited, NewGroup, AddCreator, OnlyScript, Awaiting, chanVars
<1>6. CASE FetchMembers(c) \/ FetchInfo(c) \/ SyncMessages(c)
  BY <1>6 DEF FetchMembers, FetchInfo, SyncMessages, OnlyScript, Awaiting, chanVars
<1>7. CASE Accept(c) \/ Authenticate(c) \/ Request(c)
  BY <1>7 DEF Accept, Authenticate, FirstFrame, Request, HandleFrame, Idle, Awaiting, chanVars
<1>8. CASE Disconnect(c) \/ LoseWrite(c)
  BY <1>8 DEF Disconnect, HangUp, NoFirstFrame, LoseWrite, WriteFails, Break, Return
<1> QED  BY <1>1, <1>2, <1>3, <1>4, <1>5, <1>6, <1>7, <1>8 DEF Actor, ConnStep, Client

\* Actors carry news on and make none.
LEMMA BeliefByActor ==
  ASSUME TypeInv, TypeInv', Founded, HandsQuiet, NEW a \in Conn, Actor(a) \/ Client(a),
         NEW c \in Conn, InLoop(c)', NEW v
  PROVE  BelievesOnline(c, v)' <=> BelievesOnline(c, v)
<1>1. PICK steps : StepShape(a, steps)
  BY ShapeOfStep
<1>2. Carried(a) /\ \A d \in Conn \ {a} : Aside(d)
  BY CarriedByStep, OthersStand
<1>3. CASE c = a /\ WriteToClient(c)
  BY <1>3, WordWritten
<1>4. CASE c = a /\ ReceiveRouted(c)
  BY <1>4, WordReceived
<1>5. CASE ~(c = a /\ (WriteToClient(c) \/ ReceiveRouted(c)))
  <2>1. c = a => /\ script'[c] = script[c] \/ (~Awaiting(c, "toClient") /\ script'[c] \in Seq(NotRouted))
                 /\ chan'[c] # <<>> \/ chan[c] = <<>>
    BY <1>1, <1>5, LoopKeeps, ScriptStaysQuiet
  <2>2. \A i, on : /\ WordOnWire(c, i, v, on)' <=> WordOnWire(c, i, v, on)
                   /\ WordInHand(c, v, on)' <=> WordInHand(c, v, on)
                   /\ WordInChannel(c, i, v, on)' <=> WordInChannel(c, i, v, on)
                   /\ WordToBeSent(c, i, v, on)' <=> WordToBeSent(c, i, v, on)
    BY <1>2, <1>5, <2>1, WordsStay
  <2>3. \A p \in Place : \A on : Word(c, p, v, on)' <=> Word(c, p, v, on)
    BY <2>2, WordParts
  <2> QED  BY <2>3, BeliefStays
<1> QED  BY <1>3, <1>4, <1>5

LEMMA NoneStaysNone ==
  ASSUME TypeInv, TypeInv', Founded, HandsQuiet, NEW a \in Conn, Actor(a) \/ Client(a),
         NEW c \in Conn, NEW v, NewsOf(c, v) = {}
  PROVE  NewsOf(c, v)' = {}
<1>1. PICK steps : StepShape(a, steps)
  BY ShapeOfStep
<1>2. Carried(a) /\ \A d \in Conn \ {a} : Aside(d)
  BY CarriedByStep, OthersStand
<1>3. \A p \in Place : \A on : ~Word(c, p, v, on)
  BY NothingSaid
<1>4. /\ \A i, on : ~WordOnWire(c, i, v, on)
      /\ \A i, on : ~WordInChannel(c, i, v, on)
      /\ \A i, on : ~WordToBeSent(c, i, v, on)
      /\ \A on : ~WordInHand(c, v, on)
  <2>1. <<2, 1>> \in Place /\ \A i \in Nat \ {0} : <<1, i>> \in Place /\ <<3, i>> \in Place /\ <<4, i>> \in Place
    BY DEF Place
  <2>2. /\ \A i \in DOMAIN wire[c] : i \in Nat \ {0}
        /\ \A i \in DOMAIN chan[c] : i \in Nat \ {0}
        /\ \A i \in DOMAIN fanout : i \in Nat \ {0}
    BY HasEntries DEF Entries, TypeInv, TypeOK, RouterOK
  <2>3. ASSUME NEW i, NEW on PROVE ~WordOnWire(c, i, v, on)
    <3>1. WordOnWire(c, i, v, on) => i \in Nat \ {0}
      BY <2>2 DEF WordOnWire
    <3> QED  BY <1>3, <2>1, <3>1, WordAt
  <2>4. ASSUME NEW i, NEW on PROVE ~WordInChannel(c, i, v, on)
    <3>1. WordInChannel(c, i, v, on) => i \in Nat \ {0}
      BY <2>2 DEF WordInChannel
    <3> QED  BY <1>3, <2>1, <3>1, WordAt
  <2>5. ASSUME NEW i, NEW on PROVE ~WordToBeSent(c, i, v, on)
    <3>1. WordToBeSent(c, i, v, on) => i \in Nat \ {0}
      BY <2>2 DEF WordToBeSent
    <3> QED  BY <1>3, <2>1, <3>1, WordAt
  <2>6. ASSUME NEW on PROVE ~WordInHand(c, v, on)
    BY <1>3, <2>1, WordAt
  <2> QED  BY <2>3, <2>4, <2>5, <2>6
<1> USE HasEntries DEF Entries
<1>5. \A i, on : ~WordOnWire(c, i, v, on)'
  <2>1. CASE wire'[c] = wire[c]
    BY <1>4, <2>1 DEF WordOnWire
  <2>2. CASE c = a /\ WriteToClient(a)
    <3>1. /\ wire[c] \in Seq(ServerMessage) /\ Awaiting(c, "toClient")
          /\ wire'[c] = Append(wire[c], Head(script[c]).msg)
      BY <2>2 DEF WriteToClient
    <3>2. /\ DOMAIN wire'[c] = 1 .. Len(wire[c]) + 1 /\ DOMAIN wire[c] = 1 .. Len(wire[c])
          /\ \A i \in DOMAIN wire[c] : wire'[c][i] = wire[c][i]
          /\ wire'[c][Len(wire[c]) + 1] = Head(script[c]).msg /\ Len(wire[c]) \in Nat
      BY <3>1, Appended
    <3>3. ASSUME NEW i, NEW on PROVE ~WordOnWire(c, i, v, on)'
      <4>1. ~WordOnWire(c, i, v, on) /\ ~WordInHand(c, v, on)
        BY <1>4
      <4>2. CASE i \in DOMAIN wire[c]
        BY <3>2, <4>1, <4>2 DEF WordOnWire
      <4>3. CASE i = Len(wire[c]) + 1
        <5>1. wire'[c][i] = Head(script[c]).msg
          BY <3>2, <4>3
        <5> QED  BY <3>1, <4>1, <5>1 DEF WordOnWire, WordInHand
      <4>4. i \in DOMAIN wire'[c] => i \in DOMAIN wire[c] \/ i = Len(wire[c]) + 1
        BY <3>2
      <4> QED  BY <4>2, <4>3, <4>4 DEF WordOnWire
    <3> QED  BY <3>3
  <2> QED  BY <1>2, <2>1, <2>2 DEF Carried, Aside
<1>6. \A on : ~WordInHand(c, v, on)'
  <2>1. CASE script'[c] = script[c]
    BY <1>4, <2>1 DEF WordInHand, Awaiting
  <2>2. CASE script'[c] \in Seq(NotRouted)
    <3>1. script'[c] # <<>> => Head(script'[c]) \in NotRouted
      BY <2>2, TailTypes
    <3> QED  BY <3>1 DEF WordInHand, Awaiting, NotRouted, Tells
  <2>3. CASE c = a /\ ReceiveRouted(a)
    <3>1. chan[c] # <<>> /\ script'[c] = <<ToClient(Head(chan[c]))>>
      BY <2>3 DEF ReceiveRouted
    <3>2. Head(script'[c]) = ToClient(Head(chan[c])) /\ Head(chan[c]) = chan[c][1] /\ 1 \in DOMAIN chan[c]
      BY <3>1
    <3>3. \A on : ~WordInChannel(c, 1, v, on)
      BY <1>4
    <3> QED  BY <3>2, <3>3 DEF WordInHand, WordInChannel, ToClient
  <2> QED  BY <1>1, <1>2, <2>1, <2>2, <2>3, ScriptStaysQuiet DEF Aside
<1>7. \A i, on : ~WordInChannel(c, i, v, on)'
  <2>1. CASE chan'[c] = chan[c] \/ chan'[c] = <<>>
    <3>1. ASSUME NEW i, NEW on PROVE ~WordInChannel(c, i, v, on)'
      <4>1. ~WordInChannel(c, i, v, on)
        BY <1>4
      <4>2. chan'[c] = <<>> => DOMAIN chan'[c] = {}
        OBVIOUS
      <4> QED  BY <2>1, <4>1, <4>2 DEF WordInChannel
    <3> QED  BY <3>1
  <2>2. CASE c = a /\ ReceiveRouted(a)
    <3>1. chan[c] # <<>> /\ chan'[c] = Tail(chan[c])
      BY <2>2 DEF ReceiveRouted
    <3>2. \A i \in DOMAIN chan'[c] : i + 1 \in DOMAIN chan[c] /\ chan'[c][i] = chan[c][i + 1]
      BY <3>1
    <3> QED  BY <1>4, <3>2 DEF WordInChannel
  <2>3. CASE c = a /\ PostToSelf(a)
    <3>1. /\ chan[c] \in Seq(ServerMessage) /\ Head(script[c]).msg.type # "Presence"
          /\ chan'[c] = Append(chan[c], Head(script[c]).msg)
      BY <2>3 DEF PostToSelf, Awaiting, HandsQuiet, NotRouted
    <3>2. /\ DOMAIN chan'[c] = 1 .. Len(chan[c]) + 1 /\ DOMAIN chan[c] = 1 .. Len(chan[c])
          /\ \A j \in DOMAIN chan[c] : chan'[c][j] = chan[c][j]
          /\ chan'[c][Len(chan[c]) + 1] = Head(script[c]).msg /\ Len(chan[c]) \in Nat
      BY <3>1, Appended
    <3>3. ASSUME NEW i, NEW on PROVE ~WordInChannel(c, i, v, on)'
      <4>1. ~WordInChannel(c, i, v, on)
        BY <1>4
      <4>2. CASE i \in DOMAIN chan[c]
        BY <3>2, <4>1, <4>2 DEF WordInChannel
      <4>3. CASE i = Len(chan[c]) + 1
        <5>1. chan'[c][i] = Head(script[c]).msg
          BY <3>2, <4>3
        <5> QED  BY <3>1, <5>1 DEF WordInChannel, Tells
      <4>4. i \in DOMAIN chan'[c] => i \in DOMAIN chan[c] \/ i = Len(chan[c]) + 1
        BY <3>2
      <4> QED  BY <4>2, <4>3, <4>4 DEF WordInChannel
    <3> QED  BY <3>3
  <2> QED  BY <1>2, <2>1, <2>2, <2>3 DEF Carried, Aside
<1>8. \A i, on : ~WordToBeSent(c, i, v, on)'
  BY <1>2, <1>4 DEF WordToBeSent, Carried
<1>9. ASSUME NEW p \in Place, NEW on PROVE ~Word(c, p, v, on)'
  <2>1. /\ ~WordOnWire(c, p[2], v, on)' /\ ~WordInHand(c, v, on)'
        /\ ~WordInChannel(c, p[2], v, on)' /\ ~WordToBeSent(c, p[2], v, on)'
    BY <1>5, <1>6, <1>7, <1>8
  <2> QED  BY <2>1, WordParts
<1> QED  BY <1>9, NothingSaid

-----------------------------------------------------------------------------
(* What a login does to presence.                                          *)

\* An actor is announced once, has its channel from then on, and comes into its
\* loop by its login.
LoginStep(c) ==
  /\ Unannounced(c)' => Unannounced(c)
  /\ InLoop(c)' => InLoop(c) \/ phase[c] = "authenticating"
  /\ (InLoop(c) /\ ~(phase[c] = "greeting" /\ Awaiting(c, "fetchGroups")) => c \in open) =>
       (InLoop(c)' /\ ~(phase'[c] = "greeting" /\ Awaiting(c, "fetchGroups")') => c \in open')

LEMMA GreetingAwaits ==
  ASSUME NEW c \in Conn, Stage(c), phase[c] = "greeting"
  PROVE  /\ script[c] # <<>>
         /\ Tail(script[c]) # <<>> => Head(Tail(script[c])).do \in {"toClient", "fetchUsers"}
<1>1. script[c] # <<>> /\ Greets(c)
  BY GreetsOne DEF Stage
<1>2. \A auth, list : /\ Head(<<ToClient(auth), ToClient(list), Query("fetchUsers")>>).do = "toClient"
                      /\ Head(<<ToClient(list), Query("fetchUsers")>>).do = "toClient"
                      /\ Head(<<Query("fetchUsers")>>).do = "fetchUsers"
  BY DEF ToClient, Query
<1> QED  BY <1>1, <1>2 DEF Greets

LEMMA LoginOfStep ==
  ASSUME TypeInv, SessionInv, NEW c \in Conn, Stage(c), Actor(c) \/ Client(c)
  PROVE  LoginStep(c)
<1> USE HasEntries DEF Entries, LoginStep, InLoop, Unannounced
<1>0. phase[c] = "serving" /\ script[c] # <<>> => Head(script[c]).do \notin {"fetchGroups", "fetchUsers"}
  BY WhereAwaits DEF LateAwait
<1>1. CASE LoginUser(c) \/ CheckName(c) \/ RegisterUser(c)
  <2>1. phase[c] = "authenticating"
    BY <1>1, WhereAwaits DEF LoginUser, CheckName, RegisterUser, Awaiting
  <2>2. \A x : Head(<<Query(x)>>).do = x /\ <<Query(x)>> # <<>>
    BY DEF Query
  <2>3. \/ phase'[c] = "greeting" /\ script'[c] = <<Query("fetchGroups")>>
        \/ phase'[c] \in {"rejecting", "authenticating"}
    BY <1>1, <2>1 DEF LoginUser, CheckName, RegisterUser, Welcome, Reject, OnlyScript
  <2>4. phase'[c] = "greeting" => Awaiting(c, "fetchGroups")'
    BY <2>2, <2>3 DEF Awaiting
  <2> QED  BY <2>1, <2>3, <2>4
<1>2. CASE FetchGroups(c)
  <2>1. phase[c] = "greeting"
    BY <1>0, <1>2, WhereAwaits DEF FetchGroups, Awaiting
  <2> QED  BY <1>2, <2>1 DEF FetchGroups
<1>3. CASE FetchUsers(c)
  <2>1. phase[c] = "greeting"
    BY <1>0, <1>3, WhereAwaits DEF FetchUsers, Awaiting
  <2>2. PICK us : script'[c] = <<ToClient(UsersList(us))>> \o Tail(script[c])
    BY <1>3 DEF FetchUsers, Continue
  <2>3. Tail(script[c]) = <<>>
    <3>1. Greets(c)
      BY <2>1, GreetsOne DEF Stage
    <3> QED  BY <1>3, <3>1 DEF Greets, FetchUsers, Awaiting
  <2>4. script'[c] # <<>> /\ Head(script'[c]).do = "toClient"
    BY <2>2, <2>3 DEF ToClient
  <2> QED  BY <1>3, <2>1, <2>4 DEF FetchUsers, OnlyScript, chanVars, Awaiting
<1>4. CASE PostToRouter(c)
  <2>1. phase[c] \in {"greeting", "serving", "leaving"}
    BY <1>4, WhereAwaits DEF PostToRouter, Awaiting
  <2>2. phase[c] # "leaving" => UNCHANGED <<phase, chan, open>>
    BY <1>4 DEF PostToRouter, chanVars
  <2>3. phase[c] = "leaving" => phase'[c] = "closed"
    BY <1>4 DEF PostToRouter, Return
  <2> QED  BY <1>4, <2>1, <2>2, <2>3 DEF PostToRouter, Awaiting
<1>5. CASE WriteToClient(c)
  <2>1. phase[c] \in {"greeting", "serving", "rejecting"} /\ Awaiting(c, "toClient")
    BY <1>5, WhereAwaits DEF WriteToClient, Awaiting
  <2>2. CASE phase[c] = "rejecting"
    BY <1>5, <2>2 DEF WriteToClient, Return
  <2>3. CASE phase[c] # "rejecting"
    <3>1. /\ phase'[c] = IF phase[c] = "greeting" /\ Tail(script[c]) = <<>> THEN "serving" ELSE phase[c]
          /\ UNCHANGED <<chan, open>> /\ script'[c] = <<>> \o Tail(script[c])
      BY <1>5, <2>3 DEF WriteToClient, Continue, chanVars
    <3>2. script'[c] = Tail(script[c])
      <4>1. Tail(script[c]) \in Seq(Await)
        BY <2>1, TailTypes DEF Awaiting
      <4> QED  BY <3>1, <4>1, ConcatEmpty
    <3>3. phase[c] = "greeting" =>
            (Tail(script[c]) # <<>> => Head(Tail(script[c])).do \in {"toClient", "fetchUsers"})
      BY GreetingAwaits
    <3> QED  BY <2>1, <2>3, <3>1, <3>2, <3>3 DEF Awaiting
  <2> QED  BY <2>2, <2>3
<1>6. CASE \/ Invite(c) \/ AlertInvited(c) \/ NewGroup(c) \/ AddCreator(c) \/ FetchMembers(c)
           \/ FetchInfo(c) \/ SyncMessages(c) \/ PostToSelf(c)
  <2>1. phase[c] = "serving"
    BY <1>6, WhereAwaits DEF Invite, AlertInvited, NewGroup, AddCreator, FetchMembers, FetchInfo,
                             SyncMessages, PostToSelf, Awaiting
  <2>2. UNCHANGED <<phase, open>>
    BY <1>6 DEF Invite, AlertInvited, NewGroup, AddCreator, FetchMembers, FetchInfo,
                SyncMessages, PostToSelf, OnlyScript, chanVars
  <2> QED  BY <2>1, <2>2
<1>7. CASE Accept(c) \/ Authenticate(c) \/ Request(c) \/ ReceiveRouted(c)
  BY <1>7 DEF Accept, Authenticate, FirstFrame, Request, HandleFrame, ReceiveRouted, Idle, chanVars
<1>8. CASE Disconnect(c) \/ LoseWrite(c)
  BY <1>8 DEF Disconnect, HangUp, NoFirstFrame, LoseWrite, WriteFails, Break, Return
<1> QED  BY <1>1, <1>2, <1>3, <1>4, <1>5, <1>6, <1>7, <1>8 DEF Actor, ConnStep, Client

\* A connection announces itself, once.
LEMMA AnnouncedAtLogin ==
  ASSUME TypeInv, SessionInv, NEW c \in Conn, Stage(c), PostToRouter(c),
         Head(script[c]).event.type = "UserConnected"
  PROVE  Unannounced(c) /\ ~Unannounced(c)' /\ Head(script[c]).event.sender = c
<1>1. script[c] # <<>> /\ Awaiting(c, "toRouter")
  BY DEF PostToRouter, Awaiting
<1>2. phase[c] = "greeting"
  <2>1. phase[c] \in {"greeting", "serving", "leaving"}
    BY <1>1, WhereAwaits DEF Awaiting
  <2>2. phase[c] # "serving"
    BY <1>1, WhereAwaits DEF LateAwait, Awaiting
  <2>3. phase[c] # "leaving"
    <3>1. phase[c] = "leaving" => Head(script[c]).event = UserDisconnected(me[c])
      BY <1>1, WhereAwaits
    <3>2. UserDisconnected(me[c]).type = "UserDisconnected"
      BY DEF UserDisconnected
    <3> QED  BY <3>1, <3>2
  <2> QED  BY <2>1, <2>2, <2>3
<1>3. UNCHANGED phase /\ script'[c] = Tail(script[c])
  <2>1. Tail(script[c]) \in Seq(Await)
    BY <1>1, TailTypes, HasEntries DEF Entries
  <2>2. script'[c] = <<>> \o Tail(script[c])
    BY <1>2, HasEntries DEF Entries, PostToRouter, Continue
  <2> QED  BY <1>2, <2>1, <2>2, ConcatEmpty DEF PostToRouter
<1>4. Tail(script[c]) # <<>> => Head(Tail(script[c])).do \in {"toClient", "fetchUsers"}
  BY <1>2, GreetingAwaits
<1>5. Head(script[c]).event.sender = c
  BY <1>1 DEF SessionInv, SpeaksForItself, Speaks
<1> QED  BY <1>1, <1>2, <1>3, <1>4, <1>5 DEF Unannounced, Awaiting

LEMMA OnlyPostsPost ==
  ASSUME NEW c \in Conn, Actor(c) \/ Client(c)
  PROVE  \/ UNCHANGED rxq
         \/ PostToRouter(c) /\ rxq' = Append(rxq, Head(script[c]).event) /\ Awaiting(c, "toRouter")
<1> USE DEF routerVars
<1>1. CASE LoginUser(c) \/ CheckName(c) \/ RegisterUser(c) \/ FetchGroups(c) \/ FetchUsers(c)
  BY <1>1 DEF LoginUser, CheckName, RegisterUser, Welcome, Reject, FetchGroups, FetchUsers, OnlyScript
<1>2. CASE PostToRouter(c) \/ PostToSelf(c) \/ WriteToClient(c) \/ ReceiveRouted(c)
  BY <1>2 DEF PostToRouter, PostToSelf, WriteToClient, ReceiveRouted
<1>3. CASE \/ Invite(c) \/ AlertInvited(c) \/ NewGroup(c) \/ AddCreator(c) \/ FetchMembers(c)
           \/ FetchInfo(c) \/ SyncMessages(c)
  BY <1>3 DEF Invite, AlertInvited, NewGroup, AddCreator, FetchMembers, FetchInfo, SyncMessages,
              OnlyScript
<1>4. CASE Accept(c) \/ Authenticate(c) \/ Request(c) \/ Disconnect(c) \/ LoseWrite(c)
  BY <1>4 DEF Accept, Authenticate, FirstFrame, Request, HandleFrame, Disconnect, HangUp,
              NoFirstFrame, LoseWrite, WriteFails
<1> QED  BY <1>1, <1>2, <1>3, <1>4 DEF Actor, ConnStep, Client

LEMMA LoginsAfterPost ==
  ASSUME TypeInv, NEW e \in RouterEvent, rxq' = Append(rxq, e), NEW c \in Conn
  PROVE  LoginOf(c)' = LoginOf(c)
           \cup {i \in {Len(rxq) + 1} : e.type = "UserConnected" /\ e.sender = c}
<1>1. rxq \in Seq(RouterEvent)
  BY DEF TypeInv, TypeOK, RouterOK
<1>2. /\ DOMAIN rxq' = 1 .. Len(rxq) + 1 /\ DOMAIN rxq = 1 .. Len(rxq) /\ Len(rxq) \in Nat
      /\ \A i \in DOMAIN rxq : rxq'[i] = rxq[i]
      /\ rxq'[Len(rxq) + 1] = e
  BY <1>1, Appended
<1> QED  BY <1>2 DEF LoginOf

LEMMA PresenceByActor ==
  ASSUME TypeInv, TypeInv', Founded, PostsFirst, SessionInv, HandsQuiet, PresenceInv,
         NEW a \in Conn, Stage(a), Actor(a) \/ Client(a)
  PROVE  PresenceInv'
<1> USE DEF PresenceInv
<1>1. PICK steps : StepShape(a, steps)
  BY ShapeOfStep
<1>2. \A d \in Conn \ {a} : Aside(d)
  BY OthersStand
<1>3. UNCHANGED sessions /\ LoginStep(a) /\ LifeStep(a)
  BY <1>1, LoginOfStep, LifeOfStep DEF StepShape, SessionInv
<1>4. ASSUME NEW c \in Conn
      PROVE  /\ Unannounced(c)' => Unannounced(c)
             /\ \/ LoginOf(c)' = LoginOf(c)
                \/ /\ Unannounced(c) /\ ~Unannounced(c)'
                   /\ LoginOf(c)' = LoginOf(c) \cup {Len(rxq) + 1}
  <2>1. Unannounced(c)' => Unannounced(c)
    BY <1>2, <1>3 DEF LoginStep, Aside, Unannounced, Awaiting
  <2>2. CASE UNCHANGED rxq
    BY <2>1, <2>2 DEF LoginOf
  <2>3. CASE PostToRouter(a) /\ rxq' = Append(rxq, Head(script[a]).event) /\ Awaiting(a, "toRouter")
    <3> DEFINE e == Head(script[a]).event
    <3>1. e \in RouterEvent
      BY <2>3, WhoAwaits, AwaitFields DEF Awaiting
    <3>2. LoginOf(c)' = LoginOf(c) \cup {i \in {Len(rxq) + 1} : e.type = "UserConnected" /\ e.sender = c}
      BY <2>3, <3>1, LoginsAfterPost
    <3>3. e.type = "UserConnected" => Unannounced(a) /\ ~Unannounced(a)' /\ e.sender = a
      BY <2>3, AnnouncedAtLogin
    <3> HIDE DEF e
    <3>4. CASE e.type = "UserConnected" /\ e.sender = c
      BY <2>1, <3>2, <3>3, <3>4
    <3>5. CASE ~(e.type = "UserConnected" /\ e.sender = c)
      BY <2>1, <3>2, <3>5
    <3> QED  BY <3>4, <3>5
  <2> QED  BY <2>2, <2>3, OnlyPostsPost
<1>5. AnnouncedOnce'
  <2> SUFFICES ASSUME NEW c \in Conn
               PROVE  /\ Unannounced(c)' => LoginOf(c)' = {} /\ Unmet(c)'
                      /\ LoginOf(c)' # {} => Unmet(c)'
                      /\ \A i, j \in LoginOf(c)' : i = j
    BY DEF AnnouncedOnce
  <2>1. Unmet(c) => Unmet(c)'
    BY <1>3, NoneStaysNone DEF Unmet
  <2>2. /\ Unannounced(c) => LoginOf(c) = {} /\ Unmet(c)
        /\ LoginOf(c) # {} => Unmet(c)
        /\ \A i, j \in LoginOf(c) : i = j
    BY DEF AnnouncedOnce
  <2>3. CASE LoginOf(c)' = LoginOf(c)
    BY <1>4, <2>1, <2>2, <2>3
  <2>4. CASE /\ Unannounced(c) /\ ~Unannounced(c)'
             /\ LoginOf(c)' = LoginOf(c) \cup {Len(rxq) + 1}
    <3>1. LoginOf(c)' = {Len(rxq) + 1}
      BY <2>2, <2>4
    <3> QED  BY <2>1, <2>2, <2>4, <3>1
  <2> QED  BY <1>4, <2>3, <2>4
<1>6. ChannelsOpen'
  <2> SUFFICES ASSUME NEW c \in Conn
               PROVE  InLoop(c)' /\ ~(phase'[c] = "greeting" /\ Awaiting(c, "fetchGroups")') => c \in open'
    BY DEF ChannelsOpen
  <2>1. InLoop(c) /\ ~(phase[c] = "greeting" /\ Awaiting(c, "fetchGroups")) => c \in open
    BY DEF ChannelsOpen
  <2>2. CASE c = a
    BY <1>3, <2>1, <2>2 DEF LoginStep
  <2>3. CASE c # a
    BY <1>2, <2>1, <2>3 DEF Aside, InLoop, Awaiting
  <2> QED  BY <2>2, <2>3
<1>7. PresenceConverges'
  <2> SUFFICES ASSUME NEW c \in Conn, Session(c)', InLoop(c)', NEW v \in UserId, v # me'[c]
               PROVE  BelievesOnline(c, v)' <=> v \in Online'
    BY DEF PresenceConverges
  <2>1. me'[c] \in UserId /\ sessions[me'[c]] = c
    BY <1>3 DEF Session
  <2>2. ~Unannounced(c)
    BY <2>1 DEF AnnouncedOnce, Unmet
  <2>3. Session(c) /\ InLoop(c) /\ me'[c] = me[c]
    <3>1. CASE c = a
      BY <1>3, <2>1, <2>2, <3>1 DEF LoginStep, LifeStep, Unannounced, Session
    <3>2. CASE c # a
      BY <1>2, <2>1, <3>2 DEF Aside, InLoop, Session
    <3> QED  BY <3>1, <3>2
  <2>4. BelievesOnline(c, v) <=> v \in Online
    BY <2>3 DEF PresenceConverges
  <2>5. BelievesOnline(c, v)' <=> BelievesOnline(c, v)
    BY BeliefByActor
  <2>6. Online' = Online
    BY <1>3 DEF Online
  <2> QED  BY <2>4, <2>5, <2>6
<1> QED  BY <1>5, <1>6, <1>7

-----------------------------------------------------------------------------
(* What the router makes of an event.                                      *)

LEMMA OrderCovers ==
  ASSUME TypeInv, NEW S \in SUBSET Online, NEW order \in SetToSeqs(S)
  PROVE  /\ \A k \in DOMAIN order : order[k] \in S /\ k \in Nat \ {0}
         /\ \A k, l \in DOMAIN order : order[k] = order[l] => k = l
         /\ \A u \in S : \E k \in DOMAIN order : order[k] = u
         /\ order \in Seq(UserId)
<1> DEFINE D == 1 .. Cardinality(S)
<1>1. IsFiniteSet(S) /\ S \subseteq UserId
  BY IdAssumption, FS_Subset DEF Online
<1>2. Cardinality(S) \in Nat /\ IsFiniteSet(D) /\ Cardinality(D) = Cardinality(S)
  BY <1>1, FS_CardinalityType, FS_Interval
<1>3. order \in [D -> S] /\ \A k, l \in D : order[k] = order[l] => k = l
  BY DEF SetToSeqs
<1>4. order \in Injection(D, S)
  BY <1>3 DEF Injection, IsInjective
<1>5. order \in Surjection(D, S)
  <2> HIDE DEF D
  <2> QED  BY <1>1, <1>2, <1>4, FS_Injection
<1>6. \A u \in S : \E k \in D : order[k] = u
  BY <1>5 DEF Surjection
<1>7. order \in Seq(UserId)
  BY <1>1, <1>2, <1>3
<1> QED  BY <1>2, <1>3, <1>6, <1>7

\* The router's one word to c about v is what c comes to believe.
LEMMA TakenWord ==
  ASSUME TypeInv, TypeInv', UNCHANGED <<wire, script, chan>>, NEW c \in Conn, NEW v,
         NEW k, NEW on \in BOOLEAN, WordToBeSent(c, k, v, on)',
         \A i : \A x : WordToBeSent(c, i, v, x)' => i = k
  PROVE  BelievesOnline(c, v)' <=> on
<1>1. k \in Nat \ {0}
  BY DEF WordToBeSent, TypeInv, TypeOK, RouterOK
<1>2. <<4, k>> \in Place /\ <<4, k>>[1] = 4 /\ <<4, k>>[2] = k /\ Word(c, <<4, k>>, v, on)'
  <2>1. <<4, k>> \in Place /\ <<4, k>>[1] = 4 /\ <<4, k>>[2] = k
    BY <1>1 DEF Place
  <2>2. WordToBeSent(c, k, v, on)' => Word(c, <<4, k>>, v, on)'
    BY <1>1, WordAt
  <2> QED  BY <2>1, <2>2
<1>3. ASSUME NEW q \in Place, NEW x, Word(c, q, v, x)'
      PROVE  q = <<4, k>> \/ Nearer(q, <<4, k>>)
  <2>1. q[1] = 4 => q[2] = k
    BY <1>3, WordParts
  <2>2. q[1] \in 1 .. 4 /\ q = <<q[1], q[2]>>
    BY <1>3, WordParts
  <2> QED  BY <1>2, <2>1, <2>2 DEF Nearer
<1>4. CASE on = TRUE
  BY <1>2, <1>3, <1>4, Belief
<1>5. CASE on = FALSE
  <2> SUFFICES ASSUME BelievesOnline(c, v)' PROVE FALSE
    BY <1>5
  <2>1. PICK p \in Place : /\ Word(c, p, v, TRUE)'
                           /\ \A q \in Place : \A x : Word(c, q, v, x)' => q = p \/ Nearer(q, p)
    BY Belief
  <2>2. <<4, k>> = p \/ Nearer(<<4, k>>, p)
    BY <1>2, <2>1
  <2>3. p = <<4, k>>
    <3>1. p = <<4, k>> \/ Nearer(p, <<4, k>>)
      BY <1>3, <2>1
    <3>2. ~(Nearer(p, <<4, k>>) /\ Nearer(<<4, k>>, p))
      BY <1>2 DEF Place, Nearer
    <3> QED  BY <2>2, <3>1, <3>2
  <2> QED  BY <1>2, <1>5, <2>1, <2>3 DEF Word
<1> QED  BY <1>4, <1>5

\* Where the router has nothing to say of v, c believes what it did.
LEMMA UntakenWord ==
  ASSUME TypeInv, TypeInv', UNCHANGED <<wire, script, chan>>, fanout = <<>>, NEW c \in Conn, NEW v,
         \A i : \A x : ~WordToBeSent(c, i, v, x)'
  PROVE  /\ BelievesOnline(c, v)' <=> BelievesOnline(c, v)
         /\ NewsOf(c, v) = {} => NewsOf(c, v)' = {}
<1>1. ASSUME NEW p \in Place, NEW on PROVE Word(c, p, v, on)' <=> Word(c, p, v, on)
  <2>1. /\ WordOnWire(c, p[2], v, on)' <=> WordOnWire(c, p[2], v, on)
        /\ WordInHand(c, v, on)' <=> WordInHand(c, v, on)
        /\ WordInChannel(c, p[2], v, on)' <=> WordInChannel(c, p[2], v, on)
        /\ ~WordToBeSent(c, p[2], v, on) /\ ~WordToBeSent(c, p[2], v, on)'
    BY DEF WordOnWire, WordInHand, WordInChannel, WordToBeSent, Awaiting
  <2> QED  BY <2>1, WordParts
<1> QED  BY <1>1, BeliefStays, NothingSaid

\* One message to everybody in order.
LEMMA NewsToAll ==
  ASSUME TypeInv, SessionInv, NEW S \in SUBSET Online, NEW order \in SetToSeqs(S),
         NEW m \in ServerMessage, NEW s, s = SendAll(order, m)
  PROVE  /\ s \in Seq(Delivery)
         /\ \A i \in DOMAIN s : /\ s[i].msg = m /\ order[i] \in S
                                /\ s[i].to = sessions[order[i]] /\ i \in Nat \ {0}
         /\ \A i, j \in DOMAIN s : s[i].to = s[j].to => i = j
         /\ \A w \in S : \E i \in DOMAIN s : s[i].to = sessions[w]
<1>1. s \in Seq(Delivery)
  BY OnlineTypes
<1>2. DOMAIN s = DOMAIN order /\ \A i \in DOMAIN order : s[i].to = sessions[order[i]] /\ s[i].msg = m
  BY DEF SendAll, To
<1>3. ASSUME NEW i \in DOMAIN s, NEW j \in DOMAIN s, s[i].to = s[j].to PROVE i = j
  BY <1>2, <1>3, OrderCovers, SessionsApart
<1> QED  BY <1>1, <1>2, <1>3, OrderCovers

\* What c is told by the router when it takes an event: nothing of v, or one word.
Hears(c, v, on) ==
  \E k : WordToBeSent(c, k, v, on)' /\ \A i : \A x : WordToBeSent(c, i, v, x)' => i = k

HearsNot(c, v) == \A i : \A x : ~WordToBeSent(c, i, v, x)'

LEMMA NewsTells ==
  ASSUME NEW u \in UserId, NEW on \in BOOLEAN
  PROVE  \E m \in ServerMessage :
           m = Presence(u, on) /\ m.type = "Presence" /\ m.user = u /\ m.online = on
<1>1. Presence(u, on) \in ServerMessage
  BY MessageTypes
<1> QED  BY <1>1 DEF Presence

LEMMA HeardOfDeparture ==
  ASSUME TypeInv, SessionInv, NEW u \in UserId, NEW order \in SetToSeqs(Online \ {u}),
         fanout' = OfflineNews(u, order), NEW c \in Conn, NEW v \in UserId
  PROVE  /\ (\A w \in Online : sessions[w] # c) => HearsNot(c, v)
         /\ v # u => HearsNot(c, v)
         /\ \A w \in Online \ {u} : sessions[w] = c => Hears(c, u, FALSE)
<1>0. PICK m \in ServerMessage :
        m = Presence(u, FALSE) /\ m.type = "Presence" /\ m.user = u /\ m.online = FALSE
  BY NewsTells
<1>1. /\ \A i \in DOMAIN fanout' : /\ fanout'[i].msg = m /\ order[i] \in Online \ {u}
                                   /\ fanout'[i].to = sessions[order[i]] /\ i \in Nat \ {0}
      /\ \A i, j \in DOMAIN fanout' : fanout'[i].to = fanout'[j].to => i = j
      /\ \A w \in Online \ {u} : \E i \in DOMAIN fanout' : fanout'[i].to = sessions[w]
  <2>1. Online \ {u} \in SUBSET Online
    OBVIOUS
  <2>2. fanout' = SendAll(order, m)
    BY <1>0 DEF OfflineNews
  <2> QED  BY <2>1, <2>2, NewsToAll
<1>2. ASSUME NEW i, NEW x, NEW y, WordToBeSent(c, i, y, x)'
      PROVE  i \in DOMAIN fanout' /\ fanout'[i].to = c /\ y = u
  BY <1>0, <1>1, <1>2 DEF WordToBeSent, Tells
<1>3. (\A w \in Online : sessions[w] # c) => HearsNot(c, v)
  <2> SUFFICES ASSUME \A w \in Online : sessions[w] # c, NEW i, NEW x, WordToBeSent(c, i, v, x)'
               PROVE  FALSE
    BY DEF HearsNot
  <2> QED  BY <1>1, <1>2
<1>4. v # u => HearsNot(c, v)
  BY <1>2 DEF HearsNot
<1>5. ASSUME NEW w \in Online \ {u}, sessions[w] = c PROVE Hears(c, u, FALSE)
  <2>1. PICK k \in DOMAIN fanout' : fanout'[k].to = c
    BY <1>1, <1>5
  <2>2. WordToBeSent(c, k, u, FALSE)'
    BY <1>0, <1>1, <2>1 DEF WordToBeSent, Tells
  <2>3. \A i, x : WordToBeSent(c, i, u, x)' => i = k
    BY <1>1, <2>1 DEF WordToBeSent
  <2> QED  BY <2>2, <2>3 DEF Hears
<1> QED  BY <1>3, <1>4, <1>5

LEMMA HeardOfLogin ==
  ASSUME TypeInv, SessionInv, NEW u \in UserId, NEW d \in Conn, NEW order \in SetToSeqs(Online \ {u}),
         fanout' = OnlineNews(u, d, order), NEW c \in Conn, NEW v \in UserId
  PROVE  /\ (\A w \in Online : sessions[w] # c) /\ c # d => HearsNot(c, v)
         /\ v # u /\ c # d => HearsNot(c, v)
         /\ \A w \in Online \ {u} : sessions[w] = c /\ c # d => Hears(c, u, TRUE)
         /\ c = d /\ (\A w \in Online : sessions[w] # c) /\ v # u =>
              IF v \in Online THEN Hears(c, v, TRUE) ELSE HearsNot(c, v)
<1>0. PICK m \in ServerMessage :
        m = Presence(u, TRUE) /\ m.type = "Presence" /\ m.user = u /\ m.online = TRUE
  BY NewsTells
<1>1. PICK s, r : /\ s = SendAll(order, m)
                  /\ r = [i \in DOMAIN order |-> To(d, Presence(order[i], TRUE))]
  OBVIOUS
<1>3. Online \ {u} \in SUBSET Online
  OBVIOUS
<1>4. /\ s \in Seq(Delivery)
      /\ \A i \in DOMAIN s : /\ s[i].msg = m /\ order[i] \in Online \ {u}
                             /\ s[i].to = sessions[order[i]] /\ i \in Nat \ {0}
      /\ \A i, j \in DOMAIN s : s[i].to = s[j].to => i = j
      /\ \A w \in Online \ {u} : \E i \in DOMAIN s : s[i].to = sessions[w]
  BY <1>1, <1>3, NewsToAll
<1>5. /\ \A k \in DOMAIN order : order[k] \in Online \ {u} /\ k \in Nat \ {0}
      /\ \A k, l \in DOMAIN order : order[k] = order[l] => k = l
      /\ \A w \in Online \ {u} : \E k \in DOMAIN order : order[k] = w
      /\ order \in Seq(UserId)
  BY <1>3, OrderCovers
<1>6. r \in Seq(Delivery)
  <2>1. [i \in DOMAIN order |-> To(d, Presence(order[i], TRUE))] \in Seq(Delivery)
    <3>1. order \in Seq(UserId)
      BY <1>5
    <3> QED  BY <3>1, RosterTypes, Zenon
  <2> QED  BY <1>1, <2>1, Zenon
<1>7. DOMAIN r = DOMAIN order /\ \A j \in DOMAIN order : r[j].to = d /\ r[j].msg.type = "Presence"
                                                     /\ r[j].msg.user = order[j] /\ r[j].msg.online = TRUE
  BY <1>1 DEF To, Presence
<1>8. fanout' = s \o r
  BY <1>0, <1>1 DEF OnlineNews
<1>9. PICK n \in Nat : n = Len(s)
  BY <1>4
<1>10. /\ \A i \in DOMAIN s : i \in DOMAIN fanout' /\ fanout'[i] = s[i] /\ i <= n
       /\ \A j \in DOMAIN r : n + j \in DOMAIN fanout' /\ fanout'[n + j] = r[j] /\ j \in Nat \ {0}
       /\ \A i \in DOMAIN fanout' : i \in DOMAIN s \/ \E j \in DOMAIN r : i = n + j
  <2>1. /\ DOMAIN fanout' = 1 .. n + Len(r) /\ DOMAIN s = 1 .. n /\ DOMAIN r = 1 .. Len(r) /\ Len(r) \in Nat
        /\ \A i \in 1 .. n : fanout'[i] = s[i]
        /\ \A j \in 1 .. Len(r) : fanout'[n + j] = r[j]
    BY <1>4, <1>6, <1>8, <1>9
  <2>2. ASSUME NEW i \in DOMAIN fanout', i \notin DOMAIN s PROVE \E j \in DOMAIN r : i = n + j
    <3>1. i \in Nat /\ i > n /\ i <= n + Len(r)
      BY <2>1, <2>2
    <3>2. i - n \in 1 .. Len(r) /\ i = n + (i - n)
      BY <2>1, <3>1
    <3> QED  BY <2>1, <3>2
  <2>3. \A j \in DOMAIN r : n + j \in DOMAIN fanout' /\ fanout'[n + j] = r[j] /\ j \in Nat \ {0}
    BY <2>1
  <2> QED  BY <2>1, <2>2, <2>3
<1>11. ASSUME NEW i, NEW x, NEW y \in UserId, WordToBeSent(c, i, y, x)'
       PROVE  \/ i \in DOMAIN s /\ s[i].to = c /\ y = u
              \/ \E j \in DOMAIN r : i = n + j /\ c = d /\ y = order[j] /\ y \in Online \ {u}
  <2>1. i \in DOMAIN fanout' /\ fanout'[i].to = c /\ fanout'[i].msg.user = y
    BY <1>11 DEF WordToBeSent, Tells
  <2>2. CASE i \in DOMAIN s
    <3>1. fanout'[i] = s[i] /\ s[i].msg = m
      BY <1>4, <1>10, <2>2
    <3> QED  BY <1>0, <2>1, <2>2, <3>1
  <2>3. CASE \E j \in DOMAIN r : i = n + j
    <3>1. PICK j \in DOMAIN r : i = n + j
      BY <2>3
    <3>2. fanout'[i] = r[j] /\ j \in DOMAIN order
      BY <1>7, <1>10, <3>1
    <3>3. r[j].to = d /\ r[j].msg.user = order[j]
      BY <1>7, <3>2
    <3> QED  BY <1>5, <2>1, <3>1, <3>2, <3>3
  <2> QED  BY <1>10, <2>1, <2>2, <2>3
<1>12. (\A w \in Online : sessions[w] # c) /\ c # d => HearsNot(c, v)
  <2> SUFFICES ASSUME \A w \in Online : sessions[w] # c, c # d, NEW i, NEW x, WordToBeSent(c, i, v, x)'
               PROVE  FALSE
    BY DEF HearsNot
  <2>1. i \in DOMAIN s /\ s[i].to = c
    BY <1>11
  <2> QED  BY <1>4, <2>1
<1>13. v # u /\ c # d => HearsNot(c, v)
  BY <1>11 DEF HearsNot
<1>14. ASSUME NEW w \in Online \ {u}, sessions[w] = c, c # d PROVE Hears(c, u, TRUE)
  <2>1. PICK k \in DOMAIN s : s[k].to = c
    BY <1>4, <1>14
  <2>2. WordToBeSent(c, k, u, TRUE)'
    <3>1. k \in DOMAIN fanout' /\ fanout'[k].to = c /\ fanout'[k].msg = m
      BY <1>4, <1>10, <2>1
    <3> QED  BY <1>0, <3>1 DEF WordToBeSent, Tells
  <2>3. ASSUME NEW i, NEW x, WordToBeSent(c, i, u, x)' PROVE i = k
    <3>1. i \in DOMAIN s /\ s[i].to = c
      BY <1>11, <1>14, <2>3
    <3> QED  BY <1>4, <2>1, <3>1
  <2> QED  BY <2>2, <2>3 DEF Hears
<1>15. ASSUME c = d, \A w \in Online : sessions[w] # c, v # u, v \in Online PROVE Hears(c, v, TRUE)
  <2>1. PICK k \in DOMAIN r : order[k] = v
    BY <1>5, <1>7, <1>15
  <2>2. WordToBeSent(c, n + k, v, TRUE)'
    <3>1. /\ n + k \in DOMAIN fanout' /\ fanout'[n + k].to = c
          /\ fanout'[n + k].msg.type = "Presence" /\ fanout'[n + k].msg.user = v
          /\ fanout'[n + k].msg.online = TRUE
      BY <1>7, <1>10, <1>15, <2>1
    <3> QED  BY <3>1 DEF WordToBeSent, Tells
  <2>3. ASSUME NEW i, NEW x, WordToBeSent(c, i, v, x)' PROVE i = n + k
    <3>1. \E j \in DOMAIN r : i = n + j /\ v = order[j]
      BY <1>11, <1>15, <2>3
    <3> QED  BY <1>5, <1>7, <2>1, <3>1
  <2> QED  BY <2>2, <2>3 DEF Hears
<1>16. ASSUME c = d, \A w \in Online : sessions[w] # c, v # u, v \notin Online PROVE HearsNot(c, v)
  BY <1>11, <1>16 DEF HearsNot
<1> QED  BY <1>12, <1>13, <1>14, <1>15, <1>16

LEMMA NoneDelivered ==
  ASSUME TypeInv, TypeInv', Deliver, UNCHANGED connVars, NEW c \in Conn, NEW v, NewsOf(c, v) = {}
  PROVE  NewsOf(c, v)' = {}
<1>1. \A p \in Place : \A on : ~Word(c, p, v, on)
  BY NothingSaid
<1>2. /\ fanout \in Seq(Delivery) /\ fanout # <<>> /\ fanout' = Tail(fanout)
      /\ chan[c] \in Seq(ServerMessage)
      /\ \/ chan'[c] = chan[c]
         \/ Head(fanout).to = c /\ chan'[c] = Append(chan[c], Head(fanout).msg)
      /\ UNCHANGED <<wire, script>>
  BY HasEntries DEF Entries, Deliver, TypeInv, TypeOK, RouterOK, connVars
<1>3. /\ \A i \in DOMAIN fanout' :
           i \in Nat \ {0} /\ i + 1 \in DOMAIN fanout /\ fanout'[i] = fanout[i + 1]
      /\ Head(fanout) = fanout[1] /\ 1 \in DOMAIN fanout
  BY <1>2
<1>4. ASSUME NEW i \in Nat \ {0}, NEW on
      PROVE  /\ ~WordOnWire(c, i, v, on) /\ ~WordInChannel(c, i, v, on)
             /\ ~WordToBeSent(c, i, v, on) /\ ~WordInHand(c, v, on)
  <2>1. <<2, 1>> \in Place /\ <<1, i>> \in Place /\ <<3, i>> \in Place /\ <<4, i>> \in Place
    BY DEF Place
  <2> QED  BY <1>1, <2>1, WordAt
<1>5. ASSUME NEW p \in Place, NEW on PROVE ~Word(c, p, v, on)'
  <2>1. PICK i \in Nat \ {0} : i = p[2]
    BY WordParts
  <2>2. ~WordOnWire(c, i, v, on)' /\ ~WordInHand(c, v, on)'
    BY <1>2, <1>4 DEF WordOnWire, WordInHand, Awaiting
  <2>3. ~WordToBeSent(c, i, v, on)'
    <3>1. ~WordToBeSent(c, i + 1, v, on)
      BY <1>4
    <3> QED  BY <1>3, <3>1 DEF WordToBeSent
  <2>4. ~WordInChannel(c, i, v, on)'
    <3>1. ~WordInChannel(c, i, v, on) /\ ~WordToBeSent(c, 1, v, on)
      BY <1>4
    <3>2. CASE chan'[c] = chan[c]
      BY <3>1, <3>2 DEF WordInChannel
    <3>3. CASE Head(fanout).to = c /\ chan'[c] = Append(chan[c], Head(fanout).msg)
      <4>1. /\ DOMAIN chan'[c] = 1 .. Len(chan[c]) + 1 /\ DOMAIN chan[c] = 1 .. Len(chan[c])
            /\ \A j \in DOMAIN chan[c] : chan'[c][j] = chan[c][j]
            /\ chan'[c][Len(chan[c]) + 1] = Head(fanout).msg /\ Len(chan[c]) \in Nat
        BY <1>2, <3>3, Appended
      <4>2. ~Tells(Head(fanout).msg, v, on)
        BY <1>3, <3>1, <3>3 DEF WordToBeSent
      <4> QED  BY <3>1, <4>1, <4>2 DEF WordInChannel
    <3> QED  BY <1>2, <3>2, <3>3
  <2> QED  BY <2>1, <2>2, <2>3, <2>4, WordParts
<1> QED  BY <1>5, NothingSaid

\* What presence comes to for c when the router takes an event.
PresenceAfter(c) ==
  /\ Unmet(c) /\ ~(Head(rxq).type = "UserConnected" /\ Head(rxq).sender = c) => Unmet(c)'
  /\ Session(c)' /\ InLoop(c)' =>
       \A v \in UserId \ {me'[c]} : BelievesOnline(c, v)' <=> v \in Online'

\* The router at an event: nothing is being sent, and nobody else moves.
TakesEvent ==
  /\ rxq # <<>> /\ rxq' = Tail(rxq) /\ fanout = <<>>
  /\ UNCHANGED <<wire, script, chan, open, phase, me>>
  /\ Head(rxq) \in RouterEvent /\ Head(rxq) \in Posted

LEMMA NothingHeard ==
  ASSUME TypeInv, TypeInv', TakesEvent, NEW c \in Conn, PresenceConverges,
         \A v \in UserId : HearsNot(c, v), UNCHANGED sessions
  PROVE  PresenceAfter(c)
<1>1. \A v \in UserId : /\ BelievesOnline(c, v)' <=> BelievesOnline(c, v)
                        /\ NewsOf(c, v) = {} => NewsOf(c, v)' = {}
  BY UntakenWord DEF TakesEvent, HearsNot
<1>2. Online' = Online
  BY DEF Online
<1>3. Unmet(c) => Unmet(c)'
  BY <1>1 DEF Unmet
<1>4. Session(c)' /\ InLoop(c)' => Session(c) /\ InLoop(c) /\ me'[c] = me[c]
  BY DEF Session, InLoop, TakesEvent
<1> QED  BY <1>1, <1>2, <1>3, <1>4 DEF PresenceAfter, PresenceConverges

LEMMA AfterDeparture ==
  ASSUME TypeInv, TypeInv', SessionInv, TakesEvent, OnUserDisconnected, NEW c \in Conn, PresenceConverges
  PROVE  PresenceAfter(c)
<1>0. PICK u \in UserId : u = Head(rxq).user
  BY DEF TakesEvent, OnUserDisconnected, Take, RouterEvent
<1>1. PICK order \in SetToSeqs(Online \ {u}) :
        sessions' = [sessions EXCEPT ![u] = NoConn] /\ fanout' = OfflineNews(u, order)
  BY <1>0 DEF OnUserDisconnected
<1>2. sessions \in [UserId -> Conn \cup {NoConn}]
  BY DEF TypeInv, TypeOK, RouterOK
<1>3. sessions'[u] = NoConn /\ \A w \in UserId \ {u} : sessions'[w] = sessions[w]
  BY <1>1, <1>2
<1>4. Unmet(c) => Unmet(c)'
  <2> SUFFICES ASSUME Unmet(c) PROVE Unmet(c)'
    OBVIOUS
  <2>1. \A w \in Online : sessions[w] # c
    BY DEF Unmet, Online
  <2>2. \A v \in UserId : HearsNot(c, v)
    BY <1>1, <2>1, HeardOfDeparture
  <2>3. \A v \in UserId : NewsOf(c, v)' = {}
    BY <2>2, UntakenWord DEF Unmet, TakesEvent, HearsNot
  <2>4. \A w \in UserId : sessions'[w] # c
    BY <1>3, ConnAssumption DEF Unmet
  <2> QED  BY <2>3, <2>4 DEF Unmet
<1>5. ASSUME Session(c)', InLoop(c)', NEW v \in UserId, v # me'[c]
      PROVE  BelievesOnline(c, v)' <=> v \in Online'
  <2>1. me'[c] = me[c] /\ me[c] \in UserId /\ me[c] # u /\ sessions[me[c]] = c /\ InLoop(c)
    BY <1>3, <1>5, ConnAssumption DEF Session, InLoop, TakesEvent
  <2>2. Session(c) /\ me[c] \in Online \ {u}
    BY <2>1, ConnAssumption DEF Session, Online
  <2>3. CASE v = u
    <3>1. Hears(c, v, FALSE)
      BY <1>1, <2>1, <2>2, <2>3, HeardOfDeparture
    <3>2. PICK k : WordToBeSent(c, k, v, FALSE)' /\ \A i : \A x : WordToBeSent(c, i, v, x)' => i = k
      BY <3>1 DEF Hears
    <3>3. BelievesOnline(c, v)' <=> FALSE
      BY <3>2, TakenWord DEF TakesEvent
    <3> QED  BY <1>3, <2>3, <3>3 DEF Online
  <2>4. CASE v # u
    <3>1. HearsNot(c, v)
      BY <1>1, <2>4, HeardOfDeparture
    <3>2. BelievesOnline(c, v)' <=> BelievesOnline(c, v)
      BY <3>1, UntakenWord DEF TakesEvent, HearsNot
    <3>3. BelievesOnline(c, v) <=> v \in Online
      BY <1>5, <2>1, <2>2 DEF PresenceConverges
    <3>4. v \in Online' <=> v \in Online
      BY <1>3, <2>4 DEF Online
    <3> QED  BY <3>2, <3>3, <3>4
  <2> QED  BY <2>3, <2>4
<1> QED  BY <1>4, <1>5 DEF PresenceAfter

LEMMA AfterLogin ==
  ASSUME TypeInv, TypeInv', SessionInv, TakesEvent, OnUserConnected, NEW c \in Conn, PresenceConverges,
         Head(rxq).sender = c => Unmet(c)
  PROVE  PresenceAfter(c)
<1>0. PICK u \in UserId, d \in Conn :
        Head(rxq).type = "UserConnected" /\ Head(rxq).user = u /\ Head(rxq).sender = d
  BY DEF TakesEvent, OnUserConnected, Take, RouterEvent
<1>1. PICK order \in SetToSeqs(Online \ {u}) :
        sessions' = [sessions EXCEPT ![u] = d] /\ fanout' = OnlineNews(u, d, order)
  BY <1>0 DEF OnUserConnected
<1>2. sessions \in [UserId -> Conn \cup {NoConn}]
  BY DEF TypeInv, TypeOK, RouterOK
<1>3. sessions'[u] = d /\ \A w \in UserId \ {u} : sessions'[w] = sessions[w]
  BY <1>1, <1>2
<1>4. me[d] = u
  BY <1>0 DEF SessionInv, OwnSessions, TakesEvent
<1>5. u \in Online' /\ \A v \in UserId \ {u} : v \in Online' <=> v \in Online
  BY <1>3, ConnAssumption DEF Online
<1>6. Unmet(c) /\ c # d => Unmet(c)'
  <2> SUFFICES ASSUME Unmet(c), c # d PROVE Unmet(c)'
    OBVIOUS
  <2>1. \A w \in Online : sessions[w] # c
    BY DEF Unmet, Online
  <2>2. \A v \in UserId : HearsNot(c, v)
    BY <1>1, <2>1, HeardOfLogin
  <2>3. \A v \in UserId : NewsOf(c, v)' = {}
    BY <2>2, UntakenWord DEF Unmet, TakesEvent, HearsNot
  <2>4. \A w \in UserId : sessions'[w] # c
    BY <1>3 DEF Unmet
  <2> QED  BY <2>3, <2>4 DEF Unmet
<1>7. ASSUME NEW v \in UserId, Hears(c, v, TRUE) PROVE BelievesOnline(c, v)'
  <2>1. PICK k : WordToBeSent(c, k, v, TRUE)' /\ \A i : \A x : WordToBeSent(c, i, v, x)' => i = k
    BY <1>7 DEF Hears
  <2>2. BelievesOnline(c, v)' <=> TRUE
    BY <2>1, TakenWord DEF TakesEvent
  <2> QED  BY <2>2
<1>8. ASSUME NEW v \in UserId, HearsNot(c, v)
      PROVE  /\ BelievesOnline(c, v)' <=> BelievesOnline(c, v)
             /\ NewsOf(c, v) = {} => NewsOf(c, v)' = {}
  BY <1>8, UntakenWord DEF TakesEvent, HearsNot
<1>9. ASSUME Session(c)', InLoop(c)', NEW v \in UserId, v # me'[c]
      PROVE  BelievesOnline(c, v)' <=> v \in Online'
  <2>1. me'[c] = me[c] /\ me[c] \in UserId /\ sessions'[me[c]] = c /\ InLoop(c)
    BY <1>9 DEF Session, InLoop, TakesEvent
  <2>2. CASE c = d
    <3>1. Unmet(c) /\ v # u
      BY <1>0, <1>4, <1>9, <2>1, <2>2
    <3>2. \A w \in Online : sessions[w] # c
      BY <3>1 DEF Unmet, Online
    <3>3. CASE v \in Online
      <4>1. Hears(c, v, TRUE)
        BY <1>1, <2>2, <3>1, <3>2, <3>3, HeardOfLogin
      <4> QED  BY <1>5, <1>7, <3>1, <3>3, <4>1
    <3>4. CASE v \notin Online
      <4>1. HearsNot(c, v)
        BY <1>1, <2>2, <3>1, <3>2, <3>4, HeardOfLogin
      <4>2. ~BelievesOnline(c, v)
        BY <3>1 DEF Unmet, BelievesOnline
      <4> QED  BY <1>5, <1>8, <3>1, <3>4, <4>1, <4>2
    <3> QED  BY <3>3, <3>4
  <2>3. CASE c # d
    <3>1. me[c] # u /\ sessions[me[c]] = c /\ Session(c) /\ me[c] \in Online \ {u}
      BY <1>3, <2>1, <2>3, ConnAssumption DEF Session, Online
    <3>2. CASE v = u
      <4>1. Hears(c, v, TRUE)
        BY <1>1, <2>3, <3>1, <3>2, HeardOfLogin
      <4> QED  BY <1>5, <1>7, <3>2, <4>1
    <3>3. CASE v # u
      <4>1. HearsNot(c, v)
        BY <1>1, <2>3, <3>3, HeardOfLogin
      <4>2. BelievesOnline(c, v) <=> v \in Online
        BY <1>9, <2>1, <3>1 DEF PresenceConverges
      <4> QED  BY <1>5, <1>8, <3>3, <4>1, <4>2
    <3> QED  BY <3>2, <3>3
  <2> QED  BY <2>2, <2>3
<1> QED  BY <1>0, <1>6, <1>9 DEF PresenceAfter

LEMMA LoginsAfterTake ==
  ASSUME TypeInv, TakesEvent, NEW c \in Conn
  PROVE  /\ \A i \in LoginOf(c)' : i \in Nat \ {0} /\ i + 1 \in LoginOf(c)
         /\ Head(rxq).type = "UserConnected" /\ Head(rxq).sender = c => 1 \in LoginOf(c)
<1>1. rxq \in Seq(RouterEvent)
  BY DEF TypeInv, TypeOK, RouterOK
<1>2. /\ \A i \in DOMAIN rxq' : i \in Nat \ {0} /\ i + 1 \in DOMAIN rxq /\ rxq'[i] = rxq[i + 1]
      /\ Head(rxq) = rxq[1] /\ 1 \in DOMAIN rxq
  BY <1>1 DEF TakesEvent
<1> QED  BY <1>2 DEF LoginOf

LEMMA PresenceByRouter ==
  ASSUME TypeInv, TypeInv', SessionInv, RoutedKinds, PresenceInv, RouterTask
  PROVE  PresenceInv'
<1> USE DEF PresenceInv
<1>1. UNCHANGED <<wire, script, open, phase, me>> /\ \A c \in Conn : Unannounced(c)' <=> Unannounced(c)
  BY DEF RouterTask, RouterStep, OnUserConnected, OnUserDisconnected, OnUserJoinedGroup,
         OnRouteMessage, Deliver, connVars, chanVars, Unannounced, Awaiting
<1>2. ChannelsOpen'
  BY <1>1 DEF ChannelsOpen, InLoop, Awaiting
<1>3. CASE Deliver
  <2>1. UNCHANGED <<rxq, sessions>> /\ UNCHANGED connVars
    BY <1>3 DEF Deliver, RouterTask
  <2>2. AnnouncedOnce'
    <3> SUFFICES ASSUME NEW c \in Conn
                 PROVE  /\ Unannounced(c)' => LoginOf(c)' = {} /\ Unmet(c)'
                        /\ LoginOf(c)' # {} => Unmet(c)'
                        /\ \A i, j \in LoginOf(c)' : i = j
      BY DEF AnnouncedOnce
    <3>1. LoginOf(c)' = LoginOf(c)
      BY <2>1 DEF LoginOf
    <3>2. Unmet(c) => Unmet(c)'
      BY <1>3, <2>1, NoneDelivered DEF Unmet
    <3> QED  BY <1>1, <3>1, <3>2 DEF AnnouncedOnce
  <2>3. PresenceConverges'
    <3> SUFFICES ASSUME NEW c \in Conn, Session(c)', InLoop(c)', NEW v \in UserId, v # me'[c]
                 PROVE  BelievesOnline(c, v)' <=> v \in Online'
      BY DEF PresenceConverges
    <3>1. Session(c) /\ InLoop(c) /\ me'[c] = me[c] /\ Online' = Online
      BY <1>1, <2>1 DEF Session, InLoop, Online
    <3>2. ~Unannounced(c)
      BY <3>1 DEF AnnouncedOnce, Unmet, Session
    <3>3. c \in open
      BY <3>1, <3>2 DEF ChannelsOpen, Unannounced
    <3>4. BelievesOnline(c, v)' <=> BelievesOnline(c, v)
      BY <1>3, <2>1, <3>3, WordDelivered
    <3> QED  BY <3>1, <3>4 DEF PresenceConverges
  <2> QED  BY <1>2, <2>2, <2>3
<1>4. CASE ~Deliver
  <2>1. TakesEvent
    <3>1. rxq # <<>> /\ rxq' = Tail(rxq) /\ fanout = <<>> /\ UNCHANGED chan
      BY <1>4 DEF RouterTask, RouterStep, OnUserConnected, OnUserDisconnected, OnUserJoinedGroup,
                  OnRouteMessage, Take, chanVars
    <3> QED  BY <1>1, <1>4, <3>1, QueueOfRouter DEF TakesEvent
  <2>2. ASSUME NEW c \in Conn PROVE PresenceAfter(c)
    <3>1. Head(rxq).type = "UserConnected" /\ Head(rxq).sender = c => Unmet(c)
      BY <2>1, LoginsAfterTake DEF AnnouncedOnce
    <3>2. CASE OnUserConnected
      BY <2>1, <3>1, <3>2, AfterLogin DEF OnUserConnected, Take
    <3>3. CASE OnUserDisconnected
      BY <2>1, <3>3, AfterDeparture
    <3>4. CASE OnUserJoinedGroup
      <4>1. UNCHANGED sessions /\ fanout' = <<>>
        BY <2>1, <3>4 DEF OnUserJoinedGroup, TakesEvent
      <4>2. \A v \in UserId : HearsNot(c, v)
        BY <4>1 DEF HearsNot, WordToBeSent
      <4> QED  BY <2>1, <4>1, <4>2, NothingHeard
    <3>5. CASE OnRouteMessage
      <4>1. PICK e \in RouterEvent : /\ e \in Posted /\ e.type = "RouteMessage"
                                     /\ fanout' \in Fanouts(e.from, e.target, e.message)
        BY <2>1, <3>5 DEF OnRouteMessage, Take, TakesEvent
      <4>2. e.target \in Target /\ e.message \in ServerMessage /\ e.message.type # "Presence"
        BY <4>1 DEF RouterEvent, RoutedKinds, InFlight
      <4>3. \A i \in DOMAIN fanout' : fanout'[i].msg = e.message
        BY <4>1, <4>2, FanoutSends
      <4>4. \A v \in UserId : HearsNot(c, v)
        BY <4>2, <4>3 DEF HearsNot, WordToBeSent, Tells
      <4> QED  BY <2>1, <3>5, <4>4, NothingHeard DEF OnRouteMessage
    <3> QED  BY <1>4, <3>2, <3>3, <3>4, <3>5 DEF RouterTask, RouterStep
  <2>3. AnnouncedOnce'
    <3> SUFFICES ASSUME NEW c \in Conn
                 PROVE  /\ Unannounced(c)' => LoginOf(c)' = {} /\ Unmet(c)'
                        /\ LoginOf(c)' # {} => Unmet(c)'
                        /\ \A i, j \in LoginOf(c)' : i = j
      BY DEF AnnouncedOnce
    <3>1. /\ \A i \in LoginOf(c)' : i \in Nat \ {0} /\ i + 1 \in LoginOf(c)
          /\ Head(rxq).type = "UserConnected" /\ Head(rxq).sender = c => 1 \in LoginOf(c)
      BY <2>1, LoginsAfterTake
    <3>2. Unannounced(c)' => LoginOf(c) = {} /\ Unmet(c)
      BY <1>1 DEF AnnouncedOnce
    <3>3. ASSUME NEW i \in LoginOf(c)', NEW j \in LoginOf(c)' PROVE i = j
      <4>1. i + 1 = j + 1 /\ i \in Nat /\ j \in Nat
        BY <3>1 DEF AnnouncedOnce
      <4> QED  BY <4>1
    <3>4. LoginOf(c)' # {} => Unmet(c) /\ ~(Head(rxq).type = "UserConnected" /\ Head(rxq).sender = c)
      <4> SUFFICES ASSUME NEW i \in LoginOf(c)'
                   PROVE  Unmet(c) /\ ~(Head(rxq).type = "UserConnected" /\ Head(rxq).sender = c)
        OBVIOUS
      <4>1. i + 1 \in LoginOf(c) /\ i \in Nat \ {0}
        BY <3>1
      <4>2. 1 \notin LoginOf(c)
        <5>1. i + 1 # 1
          BY <4>1
        <5> QED  BY <4>1, <5>1 DEF AnnouncedOnce
      <4> QED  BY <3>1, <4>1, <4>2 DEF AnnouncedOnce
    <3>5. Unmet(c) /\ ~(Head(rxq).type = "UserConnected" /\ Head(rxq).sender = c) => Unmet(c)'
      BY <2>2 DEF PresenceAfter
    <3>6. Unannounced(c)' => LoginOf(c)' = {}
      BY <3>1, <3>2
    <3>7. Unannounced(c)' => ~(Head(rxq).type = "UserConnected" /\ Head(rxq).sender = c)
      BY <3>1, <3>2
    <3> QED  BY <3>2, <3>3, <3>4, <3>5, <3>6, <3>7
  <2>4. PresenceConverges'
    BY <2>2 DEF PresenceConverges, PresenceAfter
  <2> QED  BY <1>2, <2>3, <2>4
<1> QED  BY <1>3, <1>4

LEMMA PresenceNext ==
  /\ TypeInv /\ Founded /\ PostsFirst /\ SessionInv /\ GreetingInv /\ HistoryInv /\ OrderInv
  /\ PresenceInv /\ [Next]_vars
  => PresenceInv'
<1> SUFFICES ASSUME TypeInv, Founded, PostsFirst, SessionInv, GreetingInv, HistoryInv, OrderInv,
                    PresenceInv, [Next]_vars
             PROVE  PresenceInv'
  OBVIOUS
<1>0. TypeInv'
  BY NextTypes
<1>1. ASSUME NEW c \in Conn, Actor(c) \/ Client(c) PROVE PresenceInv'
  BY <1>0, <1>1, PresenceByActor DEF OrderInv, GreetingInv
<1>2. CASE RouterTask
  BY <1>0, <1>2, PresenceByRouter DEF HistoryInv
<1>3. CASE SaveTasks \/ Tick \/ UNCHANGED vars
  <2>1. UNCHANGED <<phase, me, script, wire, chan, open, rxq, sessions, fanout>>
    BY <1>3 DEF SaveTasks, SaveMessage, Tick, vars, connVars, chanVars, routerVars
  <2>2. \A c \in Conn : /\ Unannounced(c)' <=> Unannounced(c)
                        /\ LoginOf(c)' = LoginOf(c) /\ (InLoop(c)' <=> InLoop(c))
                        /\ Session(c)' <=> Session(c)
    BY <2>1 DEF Unannounced, Awaiting, LoginOf, InLoop, Session
  <2>3. ASSUME NEW c \in Conn, NEW v
        PROVE  /\ NewsOf(c, v)' = NewsOf(c, v)
               /\ BelievesOnline(c, v)' <=> BelievesOnline(c, v)
    <3>1. Places(c)' = Places(c) /\ \A p : MessageAt(c, p)' = MessageAt(c, p)
      BY <2>1 DEF Places, MessageAt, Awaiting
    <3>2. NewsOf(c, v)' = NewsOf(c, v)
      BY <3>1 DEF NewsOf
    <3> QED  BY <3>1, <3>2 DEF BelievesOnline
  <2>4. AnnouncedOnce'
    BY <2>1, <2>2, <2>3 DEF PresenceInv, AnnouncedOnce, Unmet
  <2>5. ChannelsOpen'
    BY <2>1, <2>2 DEF PresenceInv, ChannelsOpen, Awaiting
  <2>6. PresenceConverges'
    BY <2>1, <2>2, <2>3 DEF PresenceInv, PresenceConverges, Online
  <2> QED  BY <2>4, <2>5, <2>6 DEF PresenceInv
<1>4. CASE Crash
  <2>1. /\ \A c \in Conn : ~InLoop(c)' /\ phase'[c] \in {"fresh", "closed"}
        /\ rxq' = <<>> /\ fanout' = <<>> /\ sessions' = [u \in UserId |-> NoConn]
        /\ \A c \in Conn : script'[c] = <<>> /\ chan'[c] = <<>> /\ wire'[c] = wire[c]
    BY <1>4 DEF Crash, InLoop
  <2>2. ChannelsOpen' /\ PresenceConverges'
    BY <2>1 DEF ChannelsOpen, PresenceConverges
  <2>3. ASSUME NEW c \in Conn
        PROVE  /\ LoginOf(c)' = {}
               /\ Unannounced(c)' => Unmet(c)'
    <3>1. LoginOf(c)' = {}
      BY <2>1 DEF LoginOf
    <3>2. ASSUME Unannounced(c)' PROVE Unmet(c)'
      <4>1. phase'[c] = "fresh"
        BY <2>1, <3>2 DEF Unannounced
      <4>2. wire[c] = <<>>
        <5>1. phase[c] = "fresh"
          BY <1>4, <4>1, HasEntries DEF Entries, Crash
        <5> QED  BY <5>1 DEF GreetingInv, Stage
      <4>3. \A u \in UserId : sessions'[u] # c
        BY <2>1, ConnAssumption
      <4>4. Places(c)' = {}
        BY <2>1, <4>2 DEF Places, Awaiting
      <4> QED  BY <4>3, <4>4 DEF Unmet, NewsOf
    <3> QED  BY <3>1, <3>2
  <2>4. AnnouncedOnce'
    BY <2>3 DEF AnnouncedOnce
  <2> QED  BY <2>2, <2>4 DEF PresenceInv
<1> QED  BY <1>1, <1>2, <1>3, <1>4 DEF Next

LEMMA PresenceInit == Init => PresenceInv
<1> SUFFICES ASSUME Init PROVE PresenceInv
  OBVIOUS
<1> USE DEF Init, ConnInit, RouterInit
<1>1. \A c \in Conn : LoginOf(c) = {} /\ ~InLoop(c) /\ \A u \in UserId : sessions[u] # c
  BY ConnAssumption DEF LoginOf, InLoop
<1>2. \A c \in Conn : Places(c) = {}
  BY DEF Places, Awaiting
<1>3. \A c \in Conn : Unmet(c)
  BY <1>1, <1>2 DEF Unmet, NewsOf
<1> QED  BY <1>1, <1>3 DEF PresenceInv, AnnouncedOnce, ChannelsOpen, PresenceConverges

\* A connection meets the router once, with a channel that loses nothing.
THEOREM PresenceHolds == Spec => []PresenceInv
BY TypesHold, BackedInit, SubscriptionInit, FoundedNext, SessionInit, SessionNext,
   PostsFirstNext, GreetingInit, GreetingNext, HistoryHolds, OrderHolds, PresenceInit, PresenceNext,
   PTL DEF Spec

\* What a session has been told, or is bound to be told, of every other user
\* adds up to the router's session map.
THEOREM PresenceAgrees == Spec => []PresenceConverges
<1>1. PresenceInv => PresenceConverges
  BY DEF PresenceInv
<1> QED  BY <1>1, PresenceHolds, PTL

-----------------------------------------------------------------------------
(* What a client is told of its groups.                                    *)

\* u hears group g once the events in the queue, and those of `soon`, are taken.
Joins(soon, u, g) == u \in subs[g] \/ UserJoinedGroup(u, g) \in Posted \cup soon

Reaches(soon, c, g) ==
  \/ Joins(soon, me[c], g)
  \/ \E e \in Posted \cup soon : e.type = "UserConnected" /\ e.sender = c /\ g \in e.groups

\* What m tells the client of c of its groups is so once they are taken.
SoundFor(soon, c, m) ==
  \A g \in GroupsTold(m) :
    /\ me[c] \in UserId
    /\ Reaches(soon, c, g) \/ (m.type = "AddedToGroup" /\ Invites(me[c], g))

\* An alert goes to a user who is subscribed by then, and to whoever invited them.
SoundAlert(soon, e) ==
  (e.type = "RouteMessage" /\ GroupsTold(e.message) # {}) =>
    /\ e.message.type = "AddedToGroup" /\ e.target.kind = "user"
    /\ Joins(soon, e.target.user, e.message.group)
    /\ e.from = e.target.user \/ Invites(e.from, e.message.group)

\* So it is with what an actor awaits.  Whom it makes a member is its own user,
\* or somebody that user has invited.
SoundAwait(soon, c, a) ==
  /\ a.do \in {"insertMember", "groupName"} =>
       me[c] \in UserId /\ (a.user = me[c] \/ Invites(me[c], a.group))
  /\ a.do = "groupName" => Joins(soon, a.user, a.group)
  /\ a.do \in {"toSelf", "toClient"} => SoundFor(soon, c, a.msg)
  /\ a.do = "toRouter" => SoundAlert(soon, a.event)

SoundAwaits(soon, c) == {a \in Await : SoundAwait(soon, c, a)}

\* The event that these awaits post before anything else.
Upfront(awaits) ==
  IF awaits # <<>> /\ Head(awaits).do = "toRouter" THEN {Head(awaits).event} ELSE {}

PlansSound(c) ==
  \A soon : soon = Upfront(script[c]) => script[c] \in Seq(SoundAwaits(soon, c))

\* What was told, or will be, while the actor is there.
TalkSound(c) ==
  phase[c] # "closed" => \A m \in Range(wire[c]) \cup Range(chan[c]) : SoundFor({}, c, m)

SendSound(d) == phase[d.to] # "closed" => SoundFor({}, d.to, d.msg)

ToldInv ==
  /\ \A c \in Conn : PlansSound(c) /\ TalkSound(c)
  /\ \A i \in DOMAIN fanout : SendSound(fanout[i])
  /\ \A e \in Posted : SoundAlert({}, e)

-----------------------------------------------------------------------------
(* What is sound stays sound.                                              *)

\* Subscriptions are only added, an event that is taken leaves its own, and an
\* invitation that was heard was heard.
Grows ==
  /\ \A g \in GroupId : subs[g] \subseteq subs'[g]
  /\ \A e \in Posted :
       \/ e \in Posted'
       \/ /\ e.type = "UserJoinedGroup" => e.user \in subs'[e.group]
          /\ e.type = "UserConnected" => \A g \in e.groups : e.user \in subs'[g]
  /\ \A d \in Conn : me[d] \in UserId =>
       me'[d] = me[d] /\ Range(heard[d]) \subseteq Range(heard'[d])

LEMMA InvitesStay ==
  ASSUME Grows, NEW u \in UserId, NEW g, Invites(u, g)
  PROVE  Invites(u, g)'
BY DEF Grows, Invites

LEMMA JoinsStay ==
  ASSUME Grows, NEW X, NEW Y, X \subseteq Posted' \cup Y, NEW u \in UserId, NEW g \in GroupId,
         Joins(X, u, g)
  PROVE  Joins(Y, u, g)'
BY DEF Grows, Joins, UserJoinedGroup

LEMMA ReachesStays ==
  ASSUME SessionInv, Grows, NEW X, NEW Y, X \subseteq Posted' \cup Y,
         NEW c \in Conn, me[c] \in UserId, NEW g \in GroupId, Reaches(X, c, g)
  PROVE  Reaches(Y, c, g)'
<1>0. me'[c] = me[c]
  BY DEF Grows
<1>1. CASE Joins(X, me[c], g)
  BY <1>0, <1>1, JoinsStay DEF Reaches, Joins, UserJoinedGroup
<1>2. ASSUME NEW e \in Posted \cup X, e.type = "UserConnected", e.sender = c, g \in e.groups
      PROVE  \/ me[c] \in subs'[g]
             \/ \E f \in Posted' \cup Y : f.type = "UserConnected" /\ f.sender = c /\ g \in f.groups
  <2>1. CASE e \in X \/ e \in Posted'
    BY <1>2, <2>1
  <2>2. CASE e \in Posted /\ e \notin Posted'
    <3>1. e.user = me[c]
      BY <1>2, <2>2 DEF SessionInv, OwnSessions
    <3> QED  BY <1>2, <2>2, <3>1 DEF Grows
  <2> QED  BY <2>1, <2>2
<1> QED  BY <1>0, <1>1, <1>2 DEF Reaches, Joins

\* The groups a message tells of.
LEMMA ToldTypes ==
  ASSUME NEW m \in ServerMessage
  PROVE  GroupsTold(m) \subseteq GroupId
BY DEF GroupsTold, ServerMessage, ChatMessage

LEMMA SoundForStays ==
  ASSUME SessionInv, Grows, NEW X, NEW Y, X \subseteq Posted' \cup Y,
         NEW c \in Conn, NEW m \in ServerMessage, SoundFor(X, c, m)
  PROVE  SoundFor(Y, c, m)'
<1> SUFFICES ASSUME NEW g \in GroupsTold(m)
             PROVE  /\ me'[c] \in UserId
                    /\ Reaches(Y, c, g)' \/ (m.type = "AddedToGroup" /\ Invites(me[c], g)')
  BY DEF SoundFor
<1>1. me[c] \in UserId /\ me'[c] = me[c] /\ g \in GroupId
  BY ToldTypes DEF SoundFor, Grows
<1>2. CASE Reaches(X, c, g)
  BY <1>1, <1>2, ReachesStays
<1>3. CASE m.type = "AddedToGroup" /\ Invites(me[c], g)
  BY <1>1, <1>3, InvitesStay DEF Invites
<1> QED  BY <1>2, <1>3 DEF SoundFor

LEMMA SoundAlertStays ==
  ASSUME Grows, NEW X, NEW Y, X \subseteq Posted' \cup Y, NEW e \in RouterEvent, SoundAlert(X, e)
  PROVE  SoundAlert(Y, e)'
<1> SUFFICES ASSUME e.type = "RouteMessage", GroupsTold(e.message) # {}
             PROVE  /\ e.message.type = "AddedToGroup" /\ e.target.kind = "user"
                    /\ Joins(Y, e.target.user, e.message.group)'
                    /\ e.from = e.target.user \/ Invites(e.from, e.message.group)'
  BY DEF SoundAlert
<1>1. /\ e.message.type = "AddedToGroup" /\ e.target.kind = "user"
      /\ Joins(X, e.target.user, e.message.group)
      /\ e.from = e.target.user \/ Invites(e.from, e.message.group)
  BY DEF SoundAlert
<1>2. e.from \in UserId /\ e.target \in Target /\ e.message \in ServerMessage
  BY DEF RouterEvent
<1>3. e.target.user \in UserId /\ e.message.group \in GroupId
  BY <1>1, <1>2 DEF Target, UserTarget, GroupTarget, Broadcast, ServerMessage, ChatMessage
<1>4. Joins(Y, e.target.user, e.message.group)'
  BY <1>1, <1>3, JoinsStay
<1>5. e.from = e.target.user \/ Invites(e.from, e.message.group)'
  BY <1>1, <1>2, InvitesStay
<1> QED  BY <1>1, <1>4, <1>5

LEMMA SoundAwaitsStay ==
  ASSUME SessionInv, Grows, NEW X, NEW Y, X \subseteq Posted' \cup Y, NEW c \in Conn
  PROVE  SoundAwaits(X, c) \subseteq SoundAwaits(Y, c)'
<1> SUFFICES ASSUME NEW a \in Await, SoundAwait(X, c, a) PROVE SoundAwait(Y, c, a)'
  BY DEF SoundAwaits
<1>1. a.do \in {"insertMember", "groupName"} =>
        /\ me'[c] \in UserId /\ me'[c] = me[c] /\ (a.user = me[c] \/ Invites(me[c], a.group)')
        /\ a.user \in UserId /\ a.group \in GroupId
  BY InvitesStay, AwaitFields DEF SoundAwait, Grows
<1>2. a.do = "groupName" => Joins(Y, a.user, a.group)'
  BY <1>1, JoinsStay DEF SoundAwait
<1>3. a.do \in {"toSelf", "toClient"} => SoundFor(Y, c, a.msg)'
  BY SoundForStays, AwaitFields DEF SoundAwait
<1>4. a.do = "toRouter" => SoundAlert(Y, a.event)'
  BY SoundAlertStays, AwaitFields DEF SoundAwait
<1> QED  BY <1>1, <1>2, <1>3, <1>4 DEF SoundAwait, Invites

\* The events in the queue after a step of an actor.
LEMMA PostedAfter ==
  ASSUME TypeInv, NEW c \in Conn, NEW steps, StepShape(c, steps)
  PROVE  /\ Posted \subseteq Posted'
         /\ ~Awaiting(c, "toRouter") => Posted' = Posted
         /\ Posted' \subseteq Posted \cup Upfront(script[c])
<1>1. CASE UNCHANGED rxq
  BY <1>1 DEF Posted, Range
<1>2. CASE Awaiting(c, "toRouter") /\ rxq' = Append(rxq, Head(script[c]).event)
  <2>1. rxq \in Seq(RouterEvent)
    BY DEF TypeInv, TypeOK, RouterOK
  <2>2. Posted' = Posted \cup {Head(script[c]).event}
    BY <1>2, <2>1 DEF Posted, Range
  <2> QED  BY <1>2, <2>2 DEF Upfront, Awaiting
<1> QED  BY <1>1, <1>2 DEF StepShape

LEMMA GrowsByActor ==
  ASSUME TypeInv, Founded, SessionInv, [Next]_vars, NEW c \in Conn, Actor(c) \/ Client(c)
  PROVE  Grows
<1>1. PICK steps : StepShape(c, steps)
  BY ShapeOfStep
<1>2. UNCHANGED subs /\ Posted \subseteq Posted'
  BY <1>1, PostedAfter DEF StepShape
<1>3. ASSUME NEW d \in Conn, me[d] \in UserId
      PROVE  me'[d] = me[d] /\ Range(heard[d]) \subseteq Range(heard'[d])
  BY <1>3, HeardStays, NullAssumption DEF Range
<1> QED  BY <1>2, <1>3 DEF Grows

LEMMA GrowsByRouter ==
  ASSUME TypeInv, RouterTask
  PROVE  Grows
<1>1. UNCHANGED <<me, heard>>
  BY QueueOfRouter
<1>2. subs \in [GroupId -> SUBSET UserId]
  BY DEF TypeInv, TypeOK, RouterOK
<1>3. \A g \in GroupId : subs[g] \subseteq subs'[g]
  BY <1>2 DEF RouterTask, RouterStep, OnUserConnected, OnUserDisconnected, OnUserJoinedGroup,
              OnRouteMessage, Deliver, JoinSubscription, Subscribe
<1>4. ASSUME NEW e \in Posted, e \notin Posted'
      PROVE  /\ e.type = "UserJoinedGroup" => e.user \in subs'[e.group]
             /\ e.type = "UserConnected" => \A g \in e.groups : e.user \in subs'[g]
  <2>1. rxq # <<>> /\ e = Head(rxq) /\ e \in RouterEvent
    BY <1>4, QueueOfRouter DEF Posted, Range
  <2>2. ~Deliver
    BY <1>4 DEF Deliver, Posted, Range
  <2>3. e.type = "UserJoinedGroup" => OnUserJoinedGroup /\ e.group \in GroupId
    BY <2>1, <2>2 DEF RouterTask, RouterStep, OnUserConnected, OnUserDisconnected, OnRouteMessage, Take,
                      RouterEvent
  <2>4. e.type = "UserConnected" => OnUserConnected /\ e.groups \subseteq GroupId
    BY <2>1, <2>2 DEF RouterTask, RouterStep, OnUserJoinedGroup, OnUserDisconnected, OnRouteMessage, Take,
                      RouterEvent
  <2>5. e.type = "UserJoinedGroup" => e.user \in subs'[e.group]
    BY <1>2, <2>1, <2>3 DEF OnUserJoinedGroup, JoinSubscription, Subscribe
  <2>6. e.type = "UserConnected" => \A g \in e.groups : e.user \in subs'[g]
    BY <1>2, <2>1, <2>4 DEF OnUserConnected, Subscribe
  <2> QED  BY <2>5, <2>6
<1> QED  BY <1>1, <1>3, <1>4 DEF Grows

-----------------------------------------------------------------------------
(* What an actor plans.                                                    *)

LEMMA UpfrontOf ==
  ASSUME NEW S, NEW s \in Seq(S), NEW t \in Seq(S)
  PROVE  /\ s # <<>> => s \o t # <<>> /\ Head(s \o t) = Head(s)
         /\ s = <<>> => s \o t = t
OBVIOUS

\* The new awaits of a step are sound once the first of them is posted.
LEMMA PlansFollow ==
  ASSUME TypeInv, SessionInv, PostsFirst, Grows, NEW c \in Conn, PlansSound(c),
         ~Awaiting(c, "toRouter"), NEW steps \in Seq(Await), NEW soon, soon = Upfront(steps),
         steps \in Seq(SoundAwaits(soon, c)'), Scripted(c, steps)
  PROVE  PlansSound(c)'
<1> DEFINE S == SoundAwaits(soon, c)'
<1>1. script \in [Conn -> Seq(Await)]
  BY DEF TypeInv, TypeOK, ConnOK
<1>2. CASE script' = [script EXCEPT ![c] = steps]
  <2>1. script'[c] = steps
    BY <1>1, <1>2
  <2> QED  BY <2>1 DEF PlansSound
<1>3. CASE script[c] # <<>> /\ Continue(c, steps)
  <2>1. script'[c] = steps \o Tail(script[c])
    BY <1>1, <1>3 DEF Continue
  <2>2. script[c] \in Seq(SoundAwaits({}, c))
    BY DEF PlansSound, Upfront, Awaiting
  <2>3. SoundAwaits({}, c) \subseteq S
    BY SoundAwaitsStay
  <2>4. Tail(script[c]) \in Seq(S)
    BY <1>3, <2>2, <2>3, TailTypes, SeqSubset
  <2>5. script'[c] \in Seq(S)
    <3> HIDE DEF S
    <3> QED  BY <2>1, <2>4, ConcatTypes DEF S
  <2>6. Upfront(script'[c]) = soon
    <3>1. Tail(script[c]) \in Seq(Await) /\ Tail(script[c]) \in Seq(NoPost)
      BY <1>1, <1>3, TailTypes DEF PostsFirst
    <3>2. CASE steps # <<>>
      <4>1. script'[c] # <<>> /\ Head(script'[c]) = Head(steps)
        BY <2>1, <3>1, <3>2, UpfrontOf
      <4> QED  BY <3>2, <4>1 DEF Upfront
    <3>3. CASE steps = <<>>
      <4>1. script'[c] = Tail(script[c])
        BY <2>1, <3>1, <3>3, UpfrontOf
      <4>2. script'[c] # <<>> => Head(script'[c]) \in NoPost
        BY <3>1, <4>1, TailTypes
      <4> QED  BY <3>3, <4>2 DEF Upfront, NoPost
    <3> QED  BY <3>2, <3>3
  <2> QED  BY <2>5, <2>6 DEF PlansSound
<1> QED  BY <1>2, <1>3 DEF Scripted

\* What was upfront is in the queue once it is posted.
LEMMA PlansPosted ==
  ASSUME TypeInv, SessionInv, PostsFirst, Grows, NEW c \in Conn, PlansSound(c),
         Awaiting(c, "toRouter"), Upfront(script[c]) \subseteq Posted',
         script'[c] \in {<<>>, Tail(script[c])}
  PROVE  PlansSound(c)'
<1>1. PICK soon : soon = Upfront(script[c])
  OBVIOUS
<1>2. script[c] # <<>> /\ script[c] \in Seq(SoundAwaits(soon, c))
  BY <1>1 DEF Awaiting, PlansSound
<1>3. SoundAwaits(soon, c) \subseteq SoundAwaits({}, c)'
  BY <1>1, SoundAwaitsStay
<1>4. script'[c] \in Seq(SoundAwaits({}, c)')
  <2>1. Tail(script[c]) \in Seq(SoundAwaits({}, c)')
    BY <1>2, <1>3, TailTypes, SeqSubset
  <2>2. <<>> \in Seq(SoundAwaits({}, c)')
    OBVIOUS
  <2> QED  BY <2>1, <2>2
<1>5. Upfront(script'[c]) = {}
  <2>1. Tail(script[c]) \in Seq(NoPost)
    BY <1>2 DEF PostsFirst
  <2>2. script'[c] # <<>> => Head(script'[c]) \in NoPost
    BY <2>1, TailTypes
  <2> QED  BY <2>2 DEF Upfront, NoPost
<1> QED  BY <1>4, <1>5 DEF PlansSound

LEMMA PlansStay ==
  ASSUME SessionInv, Grows, NEW c \in Conn, PlansSound(c), script'[c] = script[c]
  PROVE  PlansSound(c)'
<1> SUFFICES ASSUME NEW soon, soon = Upfront(script[c])
             PROVE  script[c] \in Seq(SoundAwaits(soon, c)')
  BY DEF PlansSound
<1>1. script[c] \in Seq(SoundAwaits(soon, c))
  BY DEF PlansSound
<1>2. SoundAwaits(soon, c) \subseteq SoundAwaits(soon, c)'
  BY SoundAwaitsStay
<1> QED  BY <1>1, <1>2, SeqSubset

\* Awaits that tell nobody of a group, and make nobody a member.
Silent ==
  {a \in Await :
     /\ a.do \notin {"insertMember", "groupName"}
     /\ a.do \in {"toSelf", "toClient"} => GroupsTold(a.msg) = {}
     /\ a.do = "toRouter" /\ a.event.type = "RouteMessage" => GroupsTold(a.event.message) = {}}

LEMMA SilentIsSound ==
  ASSUME NEW c \in Conn, NEW soon
  PROVE  Silent \subseteq SoundAwaits(soon, c)'
BY DEF Silent, SoundAwaits, SoundAwait, SoundFor, SoundAlert

LEMMA SilentPlans ==
  ASSUME NEW c \in Conn, script'[c] \in Seq(Silent)
  PROVE  PlansSound(c)'
<1> SUFFICES ASSUME NEW soon PROVE script'[c] \in Seq(SoundAwaits(soon, c)')
  BY DEF PlansSound
<1> QED  BY SilentIsSound, SeqSubset

LEMMA SilentFollow ==
  ASSUME TypeInv, SessionInv, PostsFirst, Grows, NEW c \in Conn, PlansSound(c),
         ~Awaiting(c, "toRouter"), NEW steps \in Seq(Silent), Scripted(c, steps)
  PROVE  PlansSound(c)'
<1>1. PICK soon : soon = Upfront(steps)
  OBVIOUS
<1>2. steps \in Seq(Await)
  <2>1. Silent \subseteq Await
    BY DEF Silent
  <2> QED  BY <2>1, SeqSubset
<1>3. steps \in Seq(SoundAwaits(soon, c)')
  BY SilentIsSound, SeqSubset
<1> QED  BY <1>1, <1>2, <1>3, PlansFollow

-----------------------------------------------------------------------------
(* What each step of an actor plans.                                       *)

LEMMA SilentAwaits ==
  /\ \A q \in {"fetchGroups", "fetchUsers", "insertGroup"} : Query(q) \in Silent
  /\ \A q \in {"insertCreator", "fetchMembers", "groupInfo"}, g \in GroupId : QueryGroup(q, g) \in Silent
  /\ \A q \in {"login", "nameCheck", "insertUser"}, n \in Name, p \in Password :
       QueryAccount(q, n, p) \in Silent
  /\ \A t \in Timestamp : QuerySince("history", t) \in Silent
  /\ \A m \in ServerMessage : GroupsTold(m) = {} => ToSelf(m) \in Silent /\ ToClient(m) \in Silent
  /\ \A e \in RouterEvent :
       (e.type = "RouteMessage" => GroupsTold(e.message) = {}) => ToRouter(e) \in Silent
BY DEF Silent, Await, Query, QueryGroup, QueryAccount, QuerySince, ToSelf, ToClient, ToRouter

LEMMA RangeAppend ==
  ASSUME NEW S, NEW s \in Seq(S), NEW e
  PROVE  Range(Append(s, e)) = Range(s) \cup {e}
<1>1. \A x \in Range(Append(s, e)) : x \in Range(s) \cup {e}
  BY Appended DEF Range
<1>2. \A i \in DOMAIN s : s[i] \in Range(Append(s, e))
  BY Appended DEF Range
<1>3. Append(s, e)[Len(s) + 1] = e /\ Len(s) + 1 \in DOMAIN Append(s, e)
  BY Appended
<1> QED  BY <1>1, <1>2, <1>3 DEF Range

LEMMA TellsNoGroup ==
  ASSUME NEW m, m.type \notin {"GroupsList", "GroupCreated", "AddedToGroup"}
  PROVE  GroupsTold(m) = {}
BY DEF GroupsTold

LEMMA PlansOfAccount ==
  ASSUME TypeInv, SessionInv, PostsFirst, Grows, NEW c \in Conn, PlansSound(c),
         LoginUser(c) \/ CheckName(c) \/ RegisterUser(c)
  PROVE  PlansSound(c)'
<1> DEFINE q == Head(script[c])
<1> USE HasEntries DEF Entries
<1>1. ASSUME NEW error \in ServerError, Reject(c, error) PROVE PlansSound(c)'
  <2>1. Error(error) \in ServerMessage /\ GroupsTold(Error(error)) = {}
    BY MessageTypes, TellsNoGroup DEF Error
  <2>2. <<ToClient(Error(error))>> \in Seq(Silent)
    BY <2>1, SilentAwaits
  <2> QED  BY <1>1, <2>2, SilentPlans DEF Reject
<1>2. ASSUME NEW u, Welcome(c, u) PROVE PlansSound(c)'
  <2>1. <<Query("fetchGroups")>> \in Seq(Silent)
    BY SilentAwaits
  <2> QED  BY <1>2, <2>1, SilentPlans DEF Welcome
<1>3. CASE CheckName(c) /\ Continue(c, <<QueryAccount("insertUser", q.name, q.password)>>)
  <2>1. q \in Await /\ q.do = "nameCheck" /\ script[c] # <<>> /\ ~Awaiting(c, "toRouter")
    BY <1>3, WhoAwaits DEF CheckName, Awaiting
  <2>2. QueryAccount("insertUser", q.name, q.password) \in Silent
    BY <2>1, AwaitFields, SilentAwaits
  <2>3. <<QueryAccount("insertUser", q.name, q.password)>> \in Seq(Silent)
    BY <2>2
  <2> QED  BY <1>3, <2>1, <2>3, SilentFollow DEF Scripted
<1> QED  BY <1>1, <1>2, <1>3 DEF LoginUser, CheckName, RegisterUser, ServerError

\* The groups on the list are those the router is told first.
LEMMA PlansOfGreeting ==
  ASSUME TypeInv, SessionInv, PostsFirst, Grows, NEW c \in Conn, PlansSound(c),
         FetchGroups(c) \/ FetchUsers(c)
  PROVE  PlansSound(c)'
<1>1. script[c] # <<>> /\ ~Awaiting(c, "toRouter") /\ me[c] \in UserId /\ me'[c] = me[c]
  BY WhoAwaits DEF FetchGroups, FetchUsers, Awaiting, OnlyScript
<1>2. CASE FetchGroups(c)
  <2>1. PICK gs \in SUBSET GroupId : Continue(c, Greeting(me[c], gs, c))
    BY <1>2, TableQueries DEF FetchGroups
  <2>2. PICK e \in RouterEvent : e = UserConnected(me[c], gs, c)
    BY <1>1, EventTypes
  <2>3. PICK soon : soon = {e}
    OBVIOUS
  <2> DEFINE S == SoundAwaits(soon, c)'
  <2>4. ToRouter(e) \in S /\ ToRouter(e) \in Await
    <3>1. ToRouter(e) \in Silent
      BY <2>2, SilentAwaits DEF UserConnected
    <3> QED  BY <3>1, SilentIsSound DEF Silent
  <2>5. ToClient(GroupsList(gs)) \in S /\ ToClient(GroupsList(gs)) \in Await
    <3>1. ToClient(GroupsList(gs)) \in Await
      BY MessageTypes, AwaitTypes DEF LoopAwait
    <3>2. SoundFor(soon, c, GroupsList(gs))'
      BY <1>1, <2>2, <2>3 DEF SoundFor, GroupsTold, GroupsList, Reaches, UserConnected
    <3>3. SoundAwait(soon, c, ToClient(GroupsList(gs)))'
      BY <3>2 DEF SoundAwait, ToClient
    <3> QED  BY <3>1, <3>3 DEF SoundAwaits
  <2>6. /\ ToClient(AuthSuccess(me[c])) \in S /\ ToClient(AuthSuccess(me[c])) \in Await
        /\ Query("fetchUsers") \in S /\ Query("fetchUsers") \in Await
    <3>1. AuthSuccess(me[c]) \in ServerMessage /\ GroupsTold(AuthSuccess(me[c])) = {}
      BY <1>1, MessageTypes, TellsNoGroup DEF AuthSuccess
    <3>2. ToClient(AuthSuccess(me[c])) \in Silent /\ Query("fetchUsers") \in Silent
      BY <3>1, SilentAwaits
    <3> QED  BY <3>2, SilentIsSound DEF Silent
  <2> DEFINE steps == Greeting(me[c], gs, c)
  <2>7. steps \in Seq(S) /\ steps \in Seq(Await)
    <3> HIDE DEF S
    <3> QED  BY <2>2, <2>4, <2>5, <2>6 DEF Greeting
  <2>8. soon = Upfront(steps)
    BY <2>2, <2>3 DEF Greeting, Upfront, ToRouter
  <2>9. Scripted(c, steps)
    BY <1>1, <2>1 DEF Scripted
  <2> QED  BY <1>1, <2>7, <2>8, <2>9, PlansFollow
<1>3. CASE FetchUsers(c)
  <2>1. PICK us \in SUBSET UserId : Continue(c, <<ToClient(UsersList(us))>>)
    BY <1>3, TableQueries DEF FetchUsers
  <2>2. UsersList(us) \in ServerMessage /\ GroupsTold(UsersList(us)) = {}
    BY MessageTypes, TellsNoGroup DEF UsersList
  <2>3. <<ToClient(UsersList(us))>> \in Seq(Silent)
    BY <2>2, SilentAwaits
  <2> QED  BY <1>1, <2>1, <2>3, SilentFollow DEF Scripted
<1> QED  BY <1>2, <1>3

LEMMA PlansOfSend ==
  ASSUME TypeInv, SessionInv, PostsFirst, Grows, NEW c \in Conn, PlansSound(c), TalkSound(c),
         PostToRouter(c) \/ PostToSelf(c) \/ WriteToClient(c) \/ ReceiveRouted(c)
  PROVE  PlansSound(c)'
<1> USE HasEntries DEF Entries
<1>0. <<>> \in Seq(Silent) /\ \A s \in Seq(Await) : <<>> \o s = s
  OBVIOUS
<1>1. CASE PostToRouter(c)
  <2>1. Awaiting(c, "toRouter") /\ script[c] # <<>>
    BY <1>1 DEF PostToRouter, Awaiting
  <2>2. Tail(script[c]) \in Seq(Await)
    BY <2>1, TailTypes
  <2>3. script'[c] \in {<<>>, Tail(script[c])}
    BY <1>0, <1>1, <2>2 DEF PostToRouter, Return, Continue
  <2>4. Upfront(script[c]) \subseteq Posted'
    <3>1. rxq \in Seq(RouterEvent) /\ Head(script[c]).event \in RouterEvent
      BY <2>1, WhoAwaits, AwaitFields DEF Awaiting, TypeInv, TypeOK, RouterOK
    <3>2. Head(script[c]).event \in Range(Append(rxq, Head(script[c]).event))
      BY <3>1, RangeAppend
    <3> QED  BY <1>1, <3>2 DEF PostToRouter, Upfront, Posted, Range
  <2> QED  BY <2>1, <2>3, <2>4, PlansPosted
<1>2. CASE PostToSelf(c) \/ WriteToClient(c)
  <2>1. script[c] # <<>> /\ ~Awaiting(c, "toRouter")
    BY <1>2 DEF PostToSelf, WriteToClient, Awaiting
  <2>2. script' = [script EXCEPT ![c] = <<>>] \/ Continue(c, <<>>)
    BY <1>2 DEF PostToSelf, WriteToClient, Return
  <2> QED  BY <1>0, <2>1, <2>2, SilentFollow DEF Scripted
<1>3. CASE ReceiveRouted(c)
  <2>1. phase[c] = "serving" /\ script[c] = <<>> /\ chan[c] # <<>>
    BY <1>3 DEF ReceiveRouted, Idle
  <2>2. PICK m \in ServerMessage : m = Head(chan[c]) /\ SoundFor({}, c, m)
    <3>1. Head(chan[c]) \in ServerMessage /\ Head(chan[c]) \in Range(chan[c])
      BY <2>1, TailTypes DEF Range
    <3> QED  BY <2>1, <3>1 DEF TalkSound
  <2>3. SoundFor({}, c, m)'
    BY <2>2, SoundForStays
  <2>4. ToClient(m) \in Await /\ SoundAwait({}, c, ToClient(m))'
    BY <2>3, AwaitTypes DEF LoopAwait, SoundAwait, ToClient
  <2>5. <<ToClient(m)>> \in Seq(SoundAwaits({}, c)') /\ <<ToClient(m)>> \in Seq(Await)
    BY <2>4 DEF SoundAwaits
  <2>6. {} = Upfront(<<ToClient(m)>>)
    BY DEF Upfront, ToClient
  <2>7. Scripted(c, <<ToClient(m)>>) /\ ~Awaiting(c, "toRouter")
    BY <1>3, <2>1, <2>2 DEF ReceiveRouted, Scripted, Awaiting
  <2> QED  BY <2>5, <2>6, <2>7, PlansFollow
<1> QED  BY <1>1, <1>2, <1>3

\* One sound event, then a silent or a sound await.
LEMMA PlansOfInvite ==
  ASSUME TypeInv, SessionInv, PostsFirst, Grows, NEW c \in Conn, PlansSound(c),
         Invite(c) \/ AlertInvited(c)
  PROVE  PlansSound(c)'
<1> DEFINE q == Head(script[c])
<1>1. /\ script[c] # <<>> /\ ~Awaiting(c, "toRouter") /\ me[c] \in UserId /\ me'[c] = me[c]
      /\ q.do \in {"insertMember", "groupName"} /\ q \in Await
      /\ q.group \in GroupId /\ q.user \in UserId
  BY WhoAwaits, AwaitFields DEF Invite, AlertInvited, Awaiting, OnlyScript
<1>0. PICK g \in GroupId, u \in UserId, w \in UserId : g = q.group /\ u = q.user /\ w = me[c]
  BY <1>1
<1>2. q \in SoundAwaits({}, c)
  BY <1>1, TailTypes DEF PlansSound, Upfront, Awaiting
<1>3. w = me'[c] /\ (u = w \/ Invites(w, g)')
  <2>1. u = w \/ Invites(w, g)
    BY <1>0, <1>1, <1>2 DEF SoundAwaits, SoundAwait
  <2> QED  BY <1>0, <1>1, <2>1, InvitesStay
<1>4. <<>> \in Seq(Silent)
  OBVIOUS
<1>5. CASE Continue(c, <<>>)
  BY <1>1, <1>4, <1>5, SilentFollow DEF Scripted
<1>6. CASE Invite(c) /\ Continue(c, JoinedSteps(g, u))
  <2>1. PICK e \in RouterEvent : e = UserJoinedGroup(u, g)
    BY <1>1, EventTypes
  <2>2. PICK soon : soon = {e}
    OBVIOUS
  <2> DEFINE S == SoundAwaits(soon, c)'
             a == QueryMember("groupName", g, u)
             steps == <<ToRouter(e), a>>
  <2>3. ToRouter(e) \in S /\ ToRouter(e) \in Await
    <3>1. ToRouter(e) \in Silent
      BY <2>1, SilentAwaits DEF UserJoinedGroup
    <3> QED  BY <3>1, SilentIsSound DEF Silent
  <2>4. a \in S /\ a \in Await
    <3>1. a \in Await /\ a.do = "groupName" /\ a.group = g /\ a.user = u
      BY <1>1, AwaitTypes DEF LoopAwait, QueryMember
    <3>2. Joins(soon, u, g)'
      BY <2>1, <2>2 DEF Joins
    <3>3. SoundAwait(soon, c, a)'
      BY <1>0, <1>1, <1>3, <3>1, <3>2 DEF SoundAwait, Invites
    <3> QED  BY <3>1, <3>3 DEF SoundAwaits
  <2>5. steps \in Seq(S) /\ steps \in Seq(Await)
    <3> HIDE DEF S, a
    <3> QED  BY <2>3, <2>4
  <2>6. soon = Upfront(steps)
    BY <2>2 DEF Upfront, ToRouter
  <2>7. Scripted(c, steps)
    BY <1>1, <1>6, <2>1 DEF Scripted, JoinedSteps
  <2> QED  BY <1>1, <2>5, <2>6, <2>7, PlansFollow
<1>7. CASE AlertInvited(c) /\ Continue(c, <<ToRouter(RouteMessage(me[c], UserTarget(u), AddedToGroup(g)))>>)
  <2>1. PICK e \in RouterEvent : e = RouteMessage(w, UserTarget(u), AddedToGroup(g))
    BY <1>0, <1>1, EventTypes, TargetTypes, MessageTypes
  <2>2. PICK soon : soon = {e}
    OBVIOUS
  <2>3. Joins(soon, u, g)'
    <3>1. Joins({}, u, g)
      BY <1>0, <1>2, <1>7 DEF AlertInvited, Awaiting, SoundAwaits, SoundAwait
    <3> QED  BY <1>1, <3>1, JoinsStay
  <2>4. SoundAlert(soon, e)'
    BY <1>0, <1>3, <2>1, <2>3 DEF SoundAlert, RouteMessage, UserTarget, AddedToGroup
  <2>5. ToRouter(e) \in Await /\ SoundAwait(soon, c, ToRouter(e))'
    BY <2>4, AwaitTypes DEF LoopAwait, SoundAwait, ToRouter
  <2>6. <<ToRouter(e)>> \in Seq(SoundAwaits(soon, c)') /\ <<ToRouter(e)>> \in Seq(Await)
    BY <2>5 DEF SoundAwaits
  <2>7. soon = Upfront(<<ToRouter(e)>>)
    BY <2>2 DEF Upfront, ToRouter
  <2>8. Scripted(c, <<ToRouter(e)>>)
    BY <1>0, <1>1, <1>7, <2>1 DEF Scripted
  <2> QED  BY <1>1, <2>6, <2>7, <2>8, PlansFollow
<1> QED  BY <1>0, <1>5, <1>6, <1>7 DEF Invite, AlertInvited

LEMMA PlansOfCreate ==
  ASSUME TypeInv, SessionInv, PostsFirst, Grows, NEW c \in Conn, PlansSound(c), AddCreator(c)
  PROVE  PlansSound(c)'
<1>0. PICK g, w : g = Head(script[c]).group /\ w = me[c]
  OBVIOUS
<1>1. /\ script[c] # <<>> /\ ~Awaiting(c, "toRouter") /\ w \in UserId /\ me'[c] = w
      /\ g \in GroupId /\ Continue(c, CreatedSteps(w, g))
  BY <1>0, WhoAwaits, AwaitFields DEF AddCreator, Awaiting, OnlyScript
<1>2. PICK e \in RouterEvent : e = UserJoinedGroup(w, g)
  BY <1>1, EventTypes
<1>3. PICK soon : soon = {e}
  OBVIOUS
<1> DEFINE S == SoundAwaits(soon, c)'
           a == ToSelf(GroupCreated(g))
           steps == <<ToRouter(e), a>>
<1>4. ToRouter(e) \in S /\ ToRouter(e) \in Await
  <2>1. ToRouter(e) \in Silent
    BY <1>2, SilentAwaits DEF UserJoinedGroup
  <2> QED  BY <2>1, SilentIsSound DEF Silent
<1>5. a \in S /\ a \in Await
  <2>1. a \in Await
    BY <1>1, MessageTypes, AwaitTypes DEF LoopAwait
  <2>2. SoundFor(soon, c, GroupCreated(g))'
    <3>1. Joins(soon, w, g)'
      BY <1>1, <1>2, <1>3 DEF Joins
    <3> QED  BY <1>1, <3>1 DEF SoundFor, GroupsTold, GroupCreated, Reaches, Joins
  <2>3. SoundAwait(soon, c, a)'
    BY <2>2 DEF SoundAwait, ToSelf
  <2> QED  BY <2>1, <2>3 DEF SoundAwaits
<1>6. steps \in Seq(S) /\ steps \in Seq(Await)
  <2> HIDE DEF S, a
  <2> QED  BY <1>4, <1>5
<1>7. soon = Upfront(steps)
  BY <1>3 DEF Upfront, ToRouter
<1>8. Scripted(c, steps)
  BY <1>1, <1>2 DEF Scripted, CreatedSteps
<1> QED  BY <1>1, <1>6, <1>7, <1>8, PlansFollow

LEMMA PlansOfFetch ==
  ASSUME TypeInv, SessionInv, PostsFirst, Grows, NEW c \in Conn, PlansSound(c),
         NewGroup(c) \/ FetchMembers(c) \/ FetchInfo(c) \/ SyncMessages(c)
  PROVE  PlansSound(c)'
<1> DEFINE q == Head(script[c])
<1>1. script[c] # <<>> /\ ~Awaiting(c, "toRouter") /\ q \in Await
  BY WhoAwaits DEF NewGroup, FetchMembers, FetchInfo, SyncMessages, Awaiting
<1>2. ASSUME NEW steps \in Seq(Silent), Continue(c, steps) PROVE PlansSound(c)'
  BY <1>1, <1>2, SilentFollow DEF Scripted
<1>3. <<>> \in Seq(Silent)
  OBVIOUS
<1>4. ASSUME NEW m \in ServerMessage, m.type \notin {"GroupsList", "GroupCreated", "AddedToGroup"}
      PROVE  <<ToSelf(m)>> \in Seq(Silent)
  <2>1. ToSelf(m) \in Silent
    BY <1>4, TellsNoGroup, SilentAwaits
  <2> QED  BY <2>1
<1>5. CASE NewGroup(c)
  <2>1. ASSUME NEW g \in GroupId PROVE <<QueryGroup("insertCreator", g)>> \in Seq(Silent)
    <3>1. QueryGroup("insertCreator", g) \in Silent
      BY SilentAwaits
    <3> QED  BY <3>1
  <2> QED  BY <1>2, <1>3, <1>5, <2>1 DEF NewGroup
<1>6. CASE FetchMembers(c)
  <2>1. q.group \in GroupId
    BY <1>1, <1>6, AwaitFields DEF FetchMembers, Awaiting
  <2>2. GroupMembersList(q.group, MembersOf(q.group)) \in ServerMessage
    BY <2>1, TableQueries, MessageTypes
  <2>3. <<ToSelf(GroupMembersList(q.group, MembersOf(q.group)))>> \in Seq(Silent)
    BY <1>4, <2>2 DEF GroupMembersList
  <2> QED  BY <1>2, <1>3, <1>6, <2>3 DEF FetchMembers
<1>7. CASE FetchInfo(c)
  <2>1. q.group \in GroupId
    BY <1>1, <1>7, AwaitFields DEF FetchInfo, Awaiting
  <2>2. <<ToSelf(GroupInfo(q.group))>> \in Seq(Silent)
    BY <1>4, <2>1, MessageTypes DEF GroupInfo
  <2>3. \A e \in ServerError : <<ToSelf(Error(e))>> \in Seq(Silent)
    BY <1>4, MessageTypes DEF Error
  <2> QED  BY <1>2, <1>7, <2>2, <2>3 DEF FetchInfo, ServerError
<1>8. CASE SyncMessages(c)
  <2>1. ASSUME NEW b \in HistoryBatches(me[c], q.since) PROVE <<ToSelf(SyncBatch(b))>> \in Seq(Silent)
    <3>1. SyncBatch(b) \in ServerMessage
      BY BatchTypes, MessageTypes
    <3> QED  BY <1>4, <3>1 DEF SyncBatch
  <2> QED  BY <1>2, <1>3, <1>8, <2>1 DEF SyncMessages
<1> QED  BY <1>5, <1>6, <1>7, <1>8

\* Only an invitation plans to make somebody else a member, and it was heard.
LEMMA PlansOfFrame ==
  ASSUME TypeInv, SessionInv, PostsFirst, Grows, NEW c \in Conn, PlansSound(c),
         NEW m \in ClientMessage, HandleFrame(c, m)
  PROVE  PlansSound(c)'
<1> USE HasEntries DEF Entries
<1>1. me[c] \in UserId /\ clock \in Timestamp /\ script'[c] = Handler(me[c], m)
  BY DEF HandleFrame, Idle, TypeInv, TypeOK, UsersKnown, LoggedIn
<1>2. CASE m.type = "InviteToGroup"
  <2> DEFINE a == QueryMember("insertMember", m.group, m.user)
  <2>1. m.group \in GroupId /\ m.user \in UserId
    BY <1>2 DEF ClientMessage, AuthMessage, CreateGroup
  <2>2. a \in Await /\ a.do = "insertMember" /\ a.group = m.group /\ a.user = m.user
    BY <2>1, AwaitTypes DEF LoopAwait, QueryMember
  <2>3. script'[c] = <<a>>
    BY <1>1, <1>2 DEF Handler
  <2>4. me'[c] = me[c] /\ m \in Range(heard'[c])
    <3>1. heard'[c] = Append(heard[c], m) /\ me'[c] = me[c]
      BY DEF HandleFrame
    <3> QED  BY <3>1, RangeAppend
  <2>5. a.user = me'[c] \/ Invites(me[c], a.group)'
    BY <1>2, <2>2, <2>4 DEF Invites
  <2>6. SoundAwait({}, c, a)'
    BY <1>1, <2>2, <2>4, <2>5 DEF SoundAwait, Invites
  <2>7. <<a>> \in Seq(SoundAwaits({}, c)')
    BY <2>2, <2>6 DEF SoundAwaits
  <2>8. Upfront(<<a>>) = {}
    BY DEF Upfront, QueryMember
  <2> QED  BY <2>3, <2>7, <2>8 DEF PlansSound
<1>3. CASE m.type # "InviteToGroup"
  <2>1. Handler(me[c], m) \in Seq(Await)
    BY <1>1, HandlerTypes, SeqSubset DEF LoopAwait
  <2>2. PICK a : /\ Handler(me[c], m) = <<a>>
                 /\ a.do \notin {"insertMember", "groupName"}
                 /\ a.do \in {"toSelf", "toClient"} => a.msg.type = "Error"
                 /\ a.do = "toRouter" => a.event.message.type = "NewMessage"
    BY <1>3 DEF Handler, SendSteps, Outgoing, ClientMessage, AuthMessage, CreateGroup, ToSelf, ToRouter,
           RouteMessage, NewMessage, Error, Query, QueryGroup, QueryMember, QuerySince
  <2>3. a \in Await
    BY <2>1, <2>2
  <2>4. a \in Silent
    BY <2>2, <2>3, TellsNoGroup DEF Silent
  <2>5. script'[c] \in Seq(Silent)
    BY <1>1, <2>2, <2>4
  <2> QED  BY <2>5, SilentPlans
<1> QED  BY <1>2, <1>3

LEMMA PlansOfClient ==
  ASSUME TypeInv, SessionInv, PostsFirst, Grows, NEW c \in Conn, PlansSound(c), Client(c)
  PROVE  PlansSound(c)'
<1> USE HasEntries DEF Entries
<1>0. <<>> \in Seq(Silent)
  OBVIOUS
<1>1. CASE Accept(c)
  BY <1>1, PlansStay DEF Accept
<1>2. CASE Authenticate(c)
  <2>1. PICK m \in ClientMessage : FirstFrame(c, m)
    BY <1>2, RequestAssumption DEF Authenticate
  <2>2. \E a \in Silent : script'[c] = <<a>>
    <3>1. CASE m.type \in {"Login", "Register"}
      <4>1. m.name \in Name /\ m.password \in Password
        BY <3>1 DEF ClientMessage, AuthMessage, CreateGroup
      <4> QED  BY <2>1, <3>1, <4>1, SilentAwaits DEF FirstFrame
    <3>2. CASE m.type \notin {"Login", "Register"}
      <4>1. Error("FirstMessageNotAuth") \in ServerMessage /\ GroupsTold(Error("FirstMessageNotAuth")) = {}
        BY MessageTypes, TellsNoGroup DEF Error, ServerError
      <4> QED  BY <2>1, <3>2, <4>1, SilentAwaits DEF FirstFrame
    <3> QED  BY <3>1, <3>2
  <2>3. script'[c] \in Seq(Silent)
    BY <2>2
  <2> QED  BY <2>3, SilentPlans
<1>3. CASE Request(c)
  BY <1>3, PlansOfFrame, RequestAssumption DEF Request
<1>4. CASE Disconnect(c) \/ LoseWrite(c)
  <2>1. script'[c] = <<>> \/ (me[c] \in UserId /\ script'[c] = <<ToRouter(UserDisconnected(me[c]))>>)
    BY <1>4 DEF Disconnect, HangUp, NoFirstFrame, LoseWrite, WriteFails, Break, Return, Idle,
                TypeInv, UsersKnown, LoggedIn
  <2>2. me[c] \in UserId => <<ToRouter(UserDisconnected(me[c]))>> \in Seq(Silent)
    <3> SUFFICES ASSUME me[c] \in UserId PROVE ToRouter(UserDisconnected(me[c])) \in Silent
      OBVIOUS
    <3>1. UserDisconnected(me[c]) \in RouterEvent /\ UserDisconnected(me[c]).type # "RouteMessage"
      BY EventTypes DEF UserDisconnected
    <3> QED  BY <3>1, SilentAwaits
  <2> QED  BY <1>0, <2>1, <2>2, SilentPlans
<1> QED  BY <1>1, <1>2, <1>3, <1>4 DEF Client

LEMMA PlansByActor ==
  ASSUME TypeInv, SessionInv, PostsFirst, Grows, NEW c \in Conn, PlansSound(c), TalkSound(c),
         Actor(c) \/ Client(c)
  PROVE  PlansSound(c)'
BY PlansOfAccount, PlansOfGreeting, PlansOfSend, PlansOfInvite, PlansOfCreate, PlansOfFetch,
   PlansOfClient DEF Actor, ConnStep

-----------------------------------------------------------------------------
(* Each step keeps what is told sound.                                     *)

\* What an actor writes to its client, or puts into its own channel, is sound.
LEMMA AwaitedIsSound ==
  ASSUME TypeInv, SessionInv, Grows, NEW c \in Conn, PlansSound(c),
         Awaiting(c, "toClient") \/ Awaiting(c, "toSelf")
  PROVE  /\ Head(script[c]).msg \in ServerMessage
         /\ \A m : m = Head(script[c]).msg => SoundFor({}, c, m)'
<1>1. script[c] # <<>> /\ Head(script[c]).do \in {"toClient", "toSelf"}
  BY DEF Awaiting
<1>2. script[c] \in Seq(SoundAwaits({}, c))
  BY <1>1 DEF PlansSound, Upfront
<1>3. Head(script[c]) \in SoundAwaits({}, c)
  BY <1>1, <1>2, TailTypes
<1>4. Head(script[c]).msg \in ServerMessage /\ SoundFor({}, c, Head(script[c]).msg)
  BY <1>1, <1>3, AwaitFields DEF SoundAwaits, SoundAwait
<1>5. ASSUME NEW m, m = Head(script[c]).msg PROVE SoundFor({}, c, m)'
  BY <1>4, <1>5, SoundForStays
<1> QED  BY <1>4, <1>5

LEMMA TalkByActor ==
  ASSUME TypeInv, SessionInv, Grows, NEW c \in Conn, PlansSound(c), TalkSound(c),
         Actor(c) \/ Client(c)
  PROVE  TalkSound(c)'
<1> USE HasEntries DEF Entries
<1> SUFFICES ASSUME phase'[c] # "closed", NEW m \in Range(wire'[c]) \cup Range(chan'[c])
             PROVE  SoundFor({}, c, m)'
  BY DEF TalkSound
<1>1. phase[c] # "closed"
  BY ClosedForGood
<1>2. ASSUME m \in Range(wire[c]) \cup Range(chan[c]) PROVE SoundFor({}, c, m)'
  <2>1. m \in ServerMessage
    BY <1>2 DEF Range
  <2>2. SoundFor({}, c, m)
    BY <1>1, <1>2 DEF TalkSound
  <2> QED  BY <2>1, <2>2, SoundForStays
<1>3. CASE m \in Range(wire'[c])
  <2>1. CASE wire'[c] = wire[c]
    BY <1>2, <1>3, <2>1
  <2>2. CASE WriteToClient(c)
    <3>1. Awaiting(c, "toClient") /\ wire'[c] = Append(wire[c], Head(script[c]).msg)
      BY <2>2 DEF WriteToClient
    <3>2. m \in Range(wire[c]) \/ m = Head(script[c]).msg
      BY <1>3, <3>1, RangeAppend
    <3> QED  BY <1>2, <3>1, <3>2, AwaitedIsSound
  <2> QED  BY <2>1, <2>2, CarriedByStep DEF Carried
<1>4. CASE m \in Range(chan'[c])
  <2>1. CASE chan'[c] = chan[c] \/ chan'[c] = <<>>
    BY <1>2, <1>4, <2>1 DEF Range
  <2>2. CASE ReceiveRouted(c)
    <3>1. chan[c] # <<>> /\ chan'[c] = Tail(chan[c])
      BY <2>2 DEF ReceiveRouted
    <3>2. m \in Range(chan[c])
      BY <1>4, <3>1, RangeTail
    <3> QED  BY <1>2, <3>2
  <2>3. CASE PostToSelf(c)
    <3>1. Awaiting(c, "toSelf") /\ chan'[c] = Append(chan[c], Head(script[c]).msg)
      BY <2>3 DEF PostToSelf
    <3>2. m \in Range(chan[c]) \/ m = Head(script[c]).msg
      BY <1>4, <3>1, RangeAppend
    <3> QED  BY <1>2, <3>1, <3>2, AwaitedIsSound
  <2> QED  BY <2>1, <2>2, <2>3, CarriedByStep DEF Carried
<1> QED  BY <1>3, <1>4

\* What was written to d, or is in its channel, stays sound while that stays.
LEMMA TalkStays ==
  ASSUME TypeInv, SessionInv, Grows, NEW d \in Conn, TalkSound(d),
         phase'[d] = phase[d], wire'[d] = wire[d], chan'[d] = chan[d]
  PROVE  TalkSound(d)'
<1> USE HasEntries DEF Entries
<1> SUFFICES ASSUME phase[d] # "closed", NEW m \in Range(wire[d]) \cup Range(chan[d])
             PROVE  SoundFor({}, d, m)'
  BY DEF TalkSound
<1>1. m \in ServerMessage /\ SoundFor({}, d, m)
  BY DEF TalkSound, Range
<1> QED  BY <1>1, SoundForStays

\* A send stays sound: its actor does not come back.
LEMMA SendStays ==
  ASSUME TypeInv, SessionInv, Grows, NEW d \in Delivery, SendSound(d),
         phase[d.to] = "closed" => phase'[d.to] = "closed"
  PROVE  SendSound(d)'
<1> SUFFICES ASSUME phase'[d.to] # "closed" PROVE SoundFor({}, d.to, d.msg)'
  BY DEF SendSound
<1>1. d.to \in Conn /\ d.msg \in ServerMessage /\ SoundFor({}, d.to, d.msg)
  BY DEF SendSound, Delivery
<1> QED  BY <1>1, SoundForStays

\* An event that is posted was sound with itself; now it is in the queue.
LEMMA AlertsByActor ==
  ASSUME TypeInv, Founded, SessionInv, Grows, NEW c \in Conn, PlansSound(c), Actor(c) \/ Client(c),
         \A e \in Posted : SoundAlert({}, e), NEW e \in Posted'
  PROVE  SoundAlert({}, e)'
<1>1. PICK steps : StepShape(c, steps)
  BY ShapeOfStep
<1>2. rxq \in Seq(RouterEvent)
  BY DEF TypeInv, TypeOK, RouterOK
<1>3. CASE e \in Posted
  <2>1. e \in RouterEvent /\ SoundAlert({}, e)
    BY <1>2, <1>3 DEF Posted, Range
  <2> QED  BY <2>1, SoundAlertStays
<1>4. CASE e \notin Posted
  <2>1. e \in Upfront(script[c])
    BY <1>1, <1>4, PostedAfter
  <2>2. PICK soon : soon = Upfront(script[c])
    OBVIOUS
  <2>3. script[c] # <<>> /\ Head(script[c]).do = "toRouter" /\ e = Head(script[c]).event /\ soon = {e}
    BY <2>1, <2>2 DEF Upfront
  <2>4. script[c] \in Seq(SoundAwaits(soon, c))
    BY <2>2 DEF PlansSound
  <2>5. Head(script[c]) \in SoundAwaits(soon, c)
    BY <2>3, <2>4, TailTypes
  <2>6. e \in RouterEvent /\ SoundAlert(soon, e)
    BY <2>3, <2>5, AwaitFields DEF SoundAwaits, SoundAwait
  <2> QED  BY <2>3, <2>6, SoundAlertStays
<1> QED  BY <1>3, <1>4

LEMMA ToldByActor ==
  ASSUME TypeInv, Founded, SessionInv, PostsFirst, ToldInv, [Next]_vars,
         NEW c \in Conn, Actor(c) \/ Client(c)
  PROVE  ToldInv'
<1> USE DEF ToldInv
<1>1. Grows
  BY GrowsByActor
<1>2. ASSUME NEW d \in Conn PROVE PlansSound(d)' /\ TalkSound(d)'
  <2>1. CASE d = c
    BY <1>1, <2>1, PlansByActor, TalkByActor
  <2>2. CASE d # c
    <3>1. Aside(d)
      BY <2>2, OthersStand
    <3> QED  BY <1>1, <3>1, PlansStay, TalkStays DEF Aside
  <2> QED  BY <2>1, <2>2
<1>3. ASSUME NEW i \in DOMAIN fanout' PROVE SendSound(fanout[i])'
  <2>1. PICK d \in Delivery : i \in DOMAIN fanout /\ d = fanout[i]
    BY <1>3, FanoutIsRouters DEF TypeInv, TypeOK, RouterOK
  <2>2. fanout' = fanout /\ SendSound(d)
    BY <2>1, FanoutIsRouters
  <2>3. d.to \in Conn
    BY DEF Delivery
  <2>4. SendSound(d)'
    BY <1>1, <2>2, <2>3, SendStays, ClosedForGood
  <2> QED  BY <2>1, <2>2, <2>4
<1>4. \A e \in Posted' : SoundAlert({}, e)'
  BY <1>1, AlertsByActor
<1>5. UNCHANGED fanout
  BY FanoutIsRouters
<1> QED  BY <1>2, <1>3, <1>4, <1>5

\* Whom the sends of an alert reach.
LEMMA PrivateReach ==
  ASSUME TypeInv, NEW from \in UserId, NEW to \in UserId, NEW m \in ServerMessage,
         NEW i \in DOMAIN PrivateSends(from, to, m)
  PROVE  \/ to \in Online /\ PrivateSends(from, to, m)[i] = To(sessions[to], m)
         \/ from # to /\ from \in Online /\ PrivateSends(from, to, m)[i] = To(sessions[from], m)
BY DEF PrivateSends, SendTo

LEMMA SendsByRouter ==
  ASSUME TypeInv, SessionInv, ToldInv, Grows, RouterTask, ~Deliver, NEW i \in DOMAIN fanout',
         NEW d, d = fanout'[i]
  PROVE  SendSound(d)'
<1>1. d \in Delivery
  BY WhatIsSent
<1>2. CASE GroupsTold(d.msg) = {}
  BY <1>2 DEF SendSound, SoundFor
<1>3. CASE GroupsTold(d.msg) # {}
  <2>1. rxq # <<>> /\ Head(rxq).type = "RouteMessage" /\ d.msg = Head(rxq).message
    BY <1>3, WhatIsSent, TellsNoGroup
  <2>2. PICK e \in RouterEvent : e = Head(rxq) /\ e \in Posted
    BY <2>1, QueueOfRouter
  <2>3. /\ e.type = "RouteMessage" /\ e.message.type = "AddedToGroup" /\ e.target.kind = "user"
        /\ Joins({}, e.target.user, e.message.group)
        /\ e.from = e.target.user \/ Invites(e.from, e.message.group)
    BY <1>3, <2>1, <2>2 DEF ToldInv, SoundAlert
  <2>4. e.from \in UserId /\ e.target \in Target /\ e.message \in ServerMessage
    BY <2>3 DEF RouterEvent
  <2>5. e.target.user \in UserId /\ e.message.group \in GroupId
    BY <2>3, <2>4 DEF Target, UserTarget, GroupTarget, Broadcast, ServerMessage, ChatMessage
  <2>6. fanout' = PrivateSends(e.from, e.target.user, e.message)
    BY <2>2, <2>3, QueueOfRouter DEF RouterTask, RouterStep, OnUserConnected, OnUserDisconnected,
                                OnUserJoinedGroup, OnRouteMessage, Take, Fanouts
  <2>7. UNCHANGED <<me, sessions, heard>>
    BY <2>3, <2>2, QueueOfRouter DEF RouterTask, RouterStep, OnUserConnected, OnUserDisconnected,
                                OnUserJoinedGroup, OnRouteMessage, Take
  <2>8. PICK u \in UserId, g \in GroupId :
          /\ g = e.message.group /\ d.to \in Conn /\ me[d.to] = u
          /\ Joins({}, u, g) \/ Invites(u, g)
    <3>1. \E u \in {e.from, e.target.user} :
            /\ u \in Online /\ d = To(sessions[u], e.message)
            /\ u = e.target.user \/ e.from # e.target.user
      BY <2>4, <2>5, <2>6, PrivateReach
    <3>2. PICK u \in UserId : /\ u \in {e.from, e.target.user}
                              /\ u \in Online /\ d = To(sessions[u], e.message)
                              /\ u = e.target.user \/ e.from # e.target.user
      BY <2>4, <2>5, <3>1
    <3>3. me[d.to] = u /\ d.to \in Conn
      BY <1>1, <3>2 DEF SessionInv, OwnSessions, To, Delivery
    <3> QED  BY <2>3, <2>5, <3>2, <3>3
  <2>9. Joins({}, u, g)' \/ Invites(u, g)'
    BY <2>8, JoinsStay, InvitesStay
  <2>10. GroupsTold(d.msg) = {g} /\ d.msg.type = "AddedToGroup"
    BY <2>1, <2>2, <2>3, <2>8 DEF GroupsTold
  <2>11. SoundFor({}, d.to, d.msg)'
    BY <2>7, <2>8, <2>9, <2>10 DEF SoundFor, Reaches, Joins, Invites
  <2> QED  BY <2>11 DEF SendSound
<1> QED  BY <1>2, <1>3

LEMMA ToldByRouter ==
  ASSUME TypeInv, SessionInv, ToldInv, RouterTask
  PROVE  ToldInv'
<1> USE HasEntries DEF Entries
<1>1. Grows
  BY GrowsByRouter
<1>2. UNCHANGED <<phase, script, wire>>
  BY QueueOfRouter
<1>3. \A c \in Conn : PlansSound(c)'
  BY <1>1, <1>2, PlansStay DEF ToldInv
<1>4. ASSUME NEW e \in Posted' PROVE SoundAlert({}, e)'
  <2>1. e \in Posted /\ e \in RouterEvent
    <3>1. e \in Posted
      <4>1. CASE UNCHANGED rxq
        BY <1>4, <4>1 DEF Posted
      <4>2. CASE Posted' \subseteq Posted
        BY <1>4, <4>2
      <4> QED  BY <4>1, <4>2, QueueOfRouter
    <3> QED  BY <3>1 DEF Posted, Range, TypeInv, TypeOK, RouterOK
  <2> QED  BY <1>1, <2>1, SoundAlertStays DEF ToldInv
<1>5. CASE ~Deliver
  <2>1. UNCHANGED chan
    BY <1>5 DEF RouterTask, RouterStep, OnUserConnected, OnUserDisconnected, OnUserJoinedGroup,
                OnRouteMessage, chanVars
  <2>2. \A c \in Conn : TalkSound(c)'
    BY <1>1, <1>2, <2>1, TalkStays DEF ToldInv
  <2>3. \A i \in DOMAIN fanout' : SendSound(fanout[i])'
    <3>1. ASSUME NEW i \in DOMAIN fanout' PROVE SendSound(fanout[i])'
      <4>1. PICK d : d = fanout'[i]
        OBVIOUS
      <4>2. SendSound(d)'
        BY <1>1, <1>5, <4>1, SendsByRouter
      <4> QED  BY <4>1, <4>2
    <3> QED  BY <3>1
  <2> QED  BY <1>3, <1>4, <2>2, <2>3 DEF ToldInv
<1>6. CASE Deliver
  <2>1. PICK d \in Delivery : d = Head(fanout) /\ SendSound(d)
    <3>1. fanout # <<>> /\ fanout \in Seq(Delivery)
      BY <1>6 DEF Deliver, TypeInv, TypeOK, RouterOK
    <3>2. Head(fanout) = fanout[1] /\ 1 \in DOMAIN fanout /\ Head(fanout) \in Delivery
      BY <3>1
    <3> QED  BY <3>2 DEF ToldInv
  <2>2. d.to \in Conn /\ d.msg \in ServerMessage
    BY DEF Delivery
  <2>3. SendSound(d)'
    BY <1>1, <1>2, <2>1, <2>2, SendStays
  <2>4. ASSUME NEW c \in Conn PROVE TalkSound(c)'
    <3>1. CASE chan'[c] = chan[c]
      BY <1>1, <1>2, <3>1, TalkStays DEF ToldInv
    <3>2. CASE chan'[c] # chan[c]
      <4>1. c = d.to /\ chan'[c] = Append(chan[c], d.msg)
        BY <1>6, <2>1, <3>2 DEF Deliver
      <4>2. ASSUME phase[c] # "closed", NEW m \in Range(wire[c]) \cup Range(chan'[c])
            PROVE  SoundFor({}, c, m)'
        <5>1. m \in Range(wire[c]) \cup Range(chan[c]) \/ m = d.msg
          BY <4>1, <4>2, RangeAppend
        <5>2. CASE m \in Range(wire[c]) \cup Range(chan[c])
          <6>1. m \in ServerMessage /\ SoundFor({}, c, m)
            BY <4>2, <5>2 DEF ToldInv, TalkSound, Range
          <6> QED  BY <1>1, <6>1, SoundForStays
        <5>3. CASE m = d.msg
          BY <1>2, <2>3, <4>1, <4>2, <5>3 DEF SendSound
        <5> QED  BY <5>1, <5>2, <5>3
      <4> QED  BY <1>2, <4>2 DEF TalkSound
    <3> QED  BY <3>1, <3>2
  <2>5. ASSUME NEW i \in DOMAIN fanout' PROVE SendSound(fanout[i])'
    <3>1. fanout \in Seq(Delivery) /\ fanout # <<>> /\ fanout' = Tail(fanout)
      BY <1>6 DEF Deliver, TypeInv, TypeOK, RouterOK
    <3>2. PICK f \in Delivery : f = fanout'[i] /\ f = fanout[i + 1] /\ i + 1 \in DOMAIN fanout
      BY <2>5, <3>1
    <3>3. SendSound(f)'
      BY <1>1, <1>2, <3>2, SendStays DEF ToldInv
    <3> QED  BY <3>2, <3>3
  <2> QED  BY <1>3, <1>4, <2>4, <2>5 DEF ToldInv
<1> QED  BY <1>5, <1>6

LEMMA ToldInit == Init => ToldInv
<1> SUFFICES ASSUME Init PROVE ToldInv
  OBVIOUS
<1>1. ASSUME NEW c \in Conn PROVE PlansSound(c) /\ TalkSound(c)
  <2>1. script[c] = <<>> /\ wire[c] = <<>> /\ chan[c] = <<>>
    BY DEF Init, ConnInit, RouterInit
  <2>2. PlansSound(c)
    BY <2>1 DEF PlansSound
  <2> QED  BY <2>1, <2>2 DEF TalkSound, Range
<1>2. Posted = {} /\ DOMAIN fanout = {}
  BY DEF Init, RouterInit, Posted, Range
<1> QED  BY <1>1, <1>2 DEF ToldInv

LEMMA ToldNext ==
  TypeInv /\ Founded /\ SessionInv /\ PostsFirst /\ GreetingInv /\ ToldInv /\ [Next]_vars => ToldInv'
<1> SUFFICES ASSUME TypeInv, Founded, SessionInv, PostsFirst, GreetingInv, ToldInv, [Next]_vars
             PROVE  ToldInv'
  OBVIOUS
<1>1. CASE RouterTask
  BY <1>1, ToldByRouter
<1>2. ASSUME NEW c \in Conn, Actor(c) \/ Client(c) PROVE ToldInv'
  BY <1>2, ToldByActor
<1>3. CASE Crash
  <2>1. ASSUME NEW c \in Conn PROVE PlansSound(c)' /\ TalkSound(c)'
    <3>1. script'[c] = <<>> /\ chan'[c] = <<>> /\ wire'[c] = wire[c]
      BY <1>3 DEF Crash
    <3>2. PlansSound(c)'
      BY <3>1 DEF PlansSound
    <3>3. phase'[c] # "closed" => wire[c] = <<>>
      BY <1>3 DEF Crash, GreetingInv, Stage
    <3> QED  BY <3>1, <3>2, <3>3 DEF TalkSound, Range
  <2>2. Posted' = {} /\ DOMAIN fanout' = {}
    BY <1>3 DEF Crash, Posted, Range
  <2> QED  BY <2>1, <2>2 DEF ToldInv
<1>4. CASE SaveTasks \/ Tick \/ UNCHANGED vars
  <2>1. UNCHANGED <<phase, me, script, wire, heard, chan, rxq, subs, fanout>>
    BY <1>4 DEF SaveTasks, SaveMessage, Tick, vars, connVars, routerVars, chanVars
  <2>2. Grows
    BY <2>1 DEF Grows, Posted
  <2>3. \A c \in Conn : PlansSound(c)' /\ TalkSound(c)'
    BY <2>1, <2>2, PlansStay, TalkStays DEF ToldInv
  <2>4. ASSUME NEW i \in DOMAIN fanout PROVE SendSound(fanout[i])'
    <3>1. PICK d \in Delivery : d = fanout[i] /\ SendSound(d)
      BY <2>4 DEF ToldInv, TypeInv, TypeOK, RouterOK
    <3>2. SendSound(d)'
      BY <2>1, <2>2, <3>1, SendStays
    <3> QED  BY <2>1, <3>1, <3>2
  <2>5. ASSUME NEW e \in Posted PROVE SoundAlert({}, e)'
    <3>1. e \in RouterEvent /\ SoundAlert({}, e)
      BY <2>5 DEF ToldInv, Posted, Range, TypeInv, TypeOK, RouterOK
    <3> QED  BY <2>2, <3>1, SoundAlertStays
  <2>6. Posted' = Posted /\ DOMAIN fanout' = DOMAIN fanout
    BY <2>1 DEF Posted
  <2> QED  BY <2>3, <2>4, <2>5, <2>6 DEF ToldInv
<1> QED  BY <1>1, <1>2, <1>3, <1>4 DEF Next

\* While a session lasts, its client hears of no group, other than by the echo
\* of an invitation of its own, before the router has subscribed its user or has
\* the event that does in its queue: an actor posts that event before it tells
\* its client, or before it posts the alert that does.
THEOREM SubscribedFirst == Spec => []SubscribedBeforeTold
<1>1. ToldInv => SubscribedBeforeTold
  <2> SUFFICES ASSUME ToldInv, NEW c \in Conn, phase[c] = "serving", NEW m \in Range(wire[c]),
                      NEW g \in GroupsTold(m)
               PROVE  \/ me[c] \in subs[g]
                      \/ UserJoinedGroup(me[c], g) \in Posted
                      \/ \E e \in Posted : e.type = "UserConnected" /\ e.sender = c /\ g \in e.groups
                      \/ m.type = "AddedToGroup" /\ Invites(me[c], g)
    BY DEF SubscribedBeforeTold
  <2>1. SoundFor({}, c, m)
    BY DEF ToldInv, TalkSound
  <2> QED  BY <2>1 DEF SoundFor, Reaches, Joins
<1> QED  BY TypesHold, BackedInit, FoundedNext, SessionInit, SessionNext, PostsFirstNext,
            GreetingInit, GreetingNext, ToldInit, ToldNext, <1>1, PTL DEF Spec

=============================================================================
