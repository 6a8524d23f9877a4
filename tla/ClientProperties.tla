--------------------------- MODULE ClientProperties ---------------------------
(***************************************************************************)
(* What the client promises its user and its server.                       *)
(***************************************************************************)
EXTENDS Client

ConnectsQueued == {i \in DOMAIN cmds : cmds[i].cmd = "Connect"}

ErrorsQueued == {i \in DOMAIN inbox : inbox[i].type = "Error"}

\* The network thread has a Connect in hand that has not failed yet, or has not
\* told so.
Engaged == net \in {"dialing", "opened", "online", "delivering", "failed"}

\* The login the client is in is in exactly one place: queued, in the hands of
\* the network thread, or over with its error on the way to the UI.  So no
\* Connect is ever ignored as a second one, and no chat page is left without a
\* connection and without the news of its end (network.rs:49, 116; auth.rs:73).
OneAttempt ==
  IF state = OnAuth
    THEN ConnectsQueued = {} /\ ~Engaged /\ ErrorsQueued = {}
    ELSE \/ ConnectsQueued = {Len(cmds)} /\ ~Engaged /\ ErrorsQueued = {}
         \/ ConnectsQueued = {} /\ Engaged /\ ErrorsQueued = {}
         \/ ConnectsQueued = {} /\ ~Engaged /\ ErrorsQueued = {Len(inbox)}

\* Whatever is written to a connection was composed in the login that opened it:
\* what was queued before a failure is refused, never sent under the next login.
OwnFrames == \A i \in DOMAIN sent : sent[i].login = logins

\* A connection carries the auth message, then one Sync from the beginning, then
\* what the user does: nothing overtakes the Sync and no second one is sent.
SyncFirst ==
  \A i \in DOMAIN sent :
    /\ sent[i].cmd = "Connect" <=> i = 1
    /\ sent[i].msg = Sync(0) <=> i = 2

\* A message handed to the UI is being drained, or a frame that will drain it
\* has been asked for, or is about to be.
NoLostWakeup ==
  inbox # <<>> => ui = "draining" \/ awake \/ net \in {"delivering", "closing"}

-----------------------------------------------------------------------------
(* Progress.                                                               *)

\* The threads run, a repaint that was asked for is drawn, and the server
\* answers a first frame or closes (LoginAnswered of the server).
ClientFairness ==
  /\ WF_clientVars(NetworkThread)
  /\ WF_clientVars(Frame)
  /\ WF_clientVars(Answer /\ UNCHANGED uiVars)

FairClient == ClientSpec /\ ClientFairness

\* The spinner never stays: every login ends in the chat page or back on the
\* auth page, whatever fails.
LoginSettles == (state = Connecting) ~> (state # Connecting)

-----------------------------------------------------------------------------

Command ==
  [cmd : {"Connect", "Send"}, msg : ClientMessage, login : 0 .. MaxLogins]

ClientTypeOK ==
  /\ cmds \in Seq(Command)
  /\ inbox \in Seq(ServerMessage \cup {Error("BadRequest")})
  /\ errors \in Seq({"Server", "TriedSendWhileDisconnected"})
  /\ awake \in BOOLEAN
  /\ net \in NetState
  /\ auth \in Command \cup {NoCommand}
  /\ sent \in Seq(Command)
  /\ down \in Seq(ServerMessage)
  /\ peer \in PeerState
  /\ state \in AppState
  /\ page \in Page
  /\ active \in Target \cup {NoChat}
  /\ asked \in Seq(Modal)
  /\ modals \in Seq(Modal)
  /\ ui \in {"idle", "draining", "modals"}
  /\ logins \in 0 .. MaxLogins
  /\ inputs \in 0 .. MaxInputs
===============================================================================
