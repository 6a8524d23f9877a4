------------------------------ MODULE ServerClaims ------------------------------
(***************************************************************************)
(* What the README and the comments say of the server, and its code does   *)
(* not do.  Each is refuted by a run of its own; the README of this        *)
(* project tells the story of each counterexample.                         *)
(***************************************************************************)
EXTENDS ServerProperties

\* Nothing is queued, being handled, being saved or being written.
Quiet ==
  /\ rxq = <<>> /\ fanout = <<>> /\ saves = {}
  /\ \A c \in Conn : script[c] = <<>> /\ chan[c] = <<>>

\* The session map "maps a user to their active TCP connection channel"
\* (router.rs:37): a user's only connection in the loop is their session, or
\* its UserConnected is still queued.
ActiveConnectionMapped ==
  \A c \in Conn :
    (phase[c] = "serving" /\ \A d \in Conn \ {c} : me[d] = me[c] => phase[d] = "closed")
      => \/ Session(c)
         \/ \E e \in Posted : e.type = "UserConnected" /\ e.sender = c

\* Channels between the actors "prevent deadlocks" (README.md:30): no actor
\* waits for room in the channel that only it empties, and none waits for the
\* router while the router waits for it.
NoCircularWait ==
  \A c \in Conn : Len(chan[c]) = ChanCap =>
    /\ ~Awaiting(c, "toSelf")
    /\ ~ /\ fanout # <<>> /\ Head(fanout).to = c
         /\ Awaiting(c, "toRouter") /\ Len(rxq) = RouterCap

\* "Clients automatically sync missed history upon login" (README.md:12): when
\* everything is quiet, a session that has synced has seen every stored message
\* addressed to it, live or in a batch.
NothingMissed ==
  Quiet => \A c \in Conn, row \in messages :
    (/\ phase[c] = "serving" /\ Session(c) /\ Sync(0) \in Range(heard[c])
     /\ row.toUser = me[c])
      => \/ \E m \in Range(wire[c]) : Live(m) /\ m.body = row.body
         \/ \E batch \in Batches(c) : row.body \in Range(Bodies(batch))
===============================================================================
