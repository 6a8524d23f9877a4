---------------------------- MODULE NetworkManager ----------------------------
(***************************************************************************)
(* The network thread of client/src/network.rs, with the channels of       *)
(* client/src/context.rs between it and the UI thread and the server at    *)
(* the other end of its connection.                                        *)
(*                                                                         *)
(* A connection is opened by a Connect command and ends with an Error of   *)
(* the server or with a failure, which the manager reports to the UI as    *)
(* an Error of its own.  Handing a message to the UI and asking for a      *)
(* repaint are two steps: the UI thread may draw a frame between them.     *)
(***************************************************************************)
EXTENDS Protocol, SequencesExt

CONSTANTS
  News,     \* the messages a server sends after its answer to the first frame
  Refusals, \* the errors it may answer the first frame with
  Window    \* bound on the news the client has not handled yet

ASSUME NewsAssumption ==
  /\ News \subseteq ServerMessage
  /\ \A m \in News : m.type \notin {"AuthSuccess", "Error"}
  /\ Refusals \subseteq ServerError

ASSUME WindowAssumption == Window \in Nat \ {0}

VARIABLES
  cmds,    \* network_rx: commands of the UI not taken yet
  inbox,   \* server_rx: messages handed to the UI and not taken yet
  errors,  \* errors_rx: errors not shown yet
  awake,   \* a repaint was requested since the last frame began
  net,     \* where the network thread is
  auth,    \* the Connect being carried out, while dialing
  sent,    \* the frames written to the current connection
  down,    \* the frames the server wrote to it, not read yet
  peer     \* what the server's end of the connection has done

netVars  == <<net, auth, sent>>
linkVars == <<down, peer>>

\* waiting: the outer recv.  dialing: TcpStream::connect.  opened: before the
\* auth message is written.  online: the select.  delivering, closing: a message
\* was handed over, its repaint not requested yet.  failed: before the report.
NetState == {"waiting", "dialing", "opened", "online", "delivering", "closing", "failed"}

\* none: not connected.  silent: no answer yet.
PeerState == {"none", "silent", "serving", "closed"}

\* A command carries, for the properties, the login it was issued in.
Connect(m, login) == [cmd |-> "Connect", msg |-> m, login |-> login]
Send(m, login)    == [cmd |-> "Send", msg |-> m, login |-> login]

NoCommand == [cmd |-> "none"]

NetInit ==
  /\ cmds = <<>>
  /\ inbox = <<>>
  /\ errors = <<>>
  /\ awake = FALSE
  /\ net = "waiting"
  /\ auth = NoCommand
  /\ sent = <<>>
  /\ down = <<>>
  /\ peer = "none"

-----------------------------------------------------------------------------
(* Waiting for a connection.                                               *)

NextIs(kind) == cmds # <<>> /\ Head(cmds).cmd = kind

TakeConnectFirst ==
  /\ net = "waiting"
  /\ \E i \in DOMAIN cmds :
       /\ cmds[i].cmd = "Connect"
       /\ cmds' = RemoveAt(cmds, i)
       /\ auth' = cmds[i]
  /\ net' = "dialing"
  /\ UNCHANGED <<inbox, errors, awake, sent, linkVars>>

TakeConnect ==
  /\ net = "waiting"
  /\ NextIs("Connect")
  /\ cmds' = Tail(cmds)
  /\ auth' = Head(cmds)
  /\ net' = "dialing"
  /\ UNCHANGED <<inbox, errors, awake, sent, linkVars>>

\* A Send without a connection is dropped and its error queued; nothing asks
\* for the frame that would show it.
Refuse ==
  /\ net = "waiting"
  /\ NextIs("Send")
  /\ cmds' = Tail(cmds)
  /\ errors' = Append(errors, "TriedSendWhileDisconnected")
  /\ UNCHANGED <<inbox, awake, netVars, linkVars>>

-----------------------------------------------------------------------------
(* handle_connection.                                                      *)

\* The connection is over for the manager; a frame it did not read is gone.
Drop(next) ==
  /\ net' = next
  /\ auth' = NoCommand
  /\ sent' = <<>>
  /\ down' = <<>>
  /\ peer' = "none"

DialForgetsAuth ==
  /\ net = "dialing"
  /\ net' = "opened"
  /\ auth' = NoCommand
  /\ sent' = <<>>
  /\ down' = <<>>
  /\ peer' = "silent"
  /\ UNCHANGED <<cmds, inbox, errors, awake>>

Dial ==
  /\ net = "dialing"
  /\ net' = "opened"
  /\ sent' = <<>>
  /\ down' = <<>>
  /\ peer' = "silent"
  /\ UNCHANGED <<cmds, inbox, errors, awake, auth>>

WriteAuth ==
  /\ net = "opened"
  /\ net' = "online"
  /\ sent' = <<auth>>
  /\ auth' = NoCommand
  /\ UNCHANGED <<cmds, inbox, errors, awake, linkVars>>

Write ==
  /\ net = "online"
  /\ NextIs("Send")
  /\ cmds' = Tail(cmds)
  /\ sent' = Append(sent, Head(cmds))
  /\ UNCHANGED <<inbox, errors, awake, net, auth, linkVars>>

\* "Already connected." goes to the log and nowhere else.
IgnoreConnect ==
  /\ net = "online"
  /\ NextIs("Connect")
  /\ cmds' = Tail(cmds)
  /\ UNCHANGED <<inbox, errors, awake, netVars, linkVars>>

ReceiveAndStay ==
  /\ net = "online"
  /\ down # <<>>
  /\ inbox' = Append(inbox, Head(down))
  /\ net' = "delivering"
  /\ down' = Tail(down)
  /\ UNCHANGED <<cmds, errors, awake, auth, sent, peer>>

\* After an error the server is expected to close, so the manager leaves.
Receive ==
  /\ net = "online"
  /\ down # <<>>
  /\ inbox' = Append(inbox, Head(down))
  /\ IF Head(down).type = "Error"
       THEN Drop("closing")
       ELSE /\ net' = "delivering"
            /\ down' = Tail(down)
            /\ UNCHANGED <<auth, sent, peer>>
  /\ UNCHANGED <<cmds, errors, awake>>

\* The dial, a read or a write fails; a Send that was being written is lost.
Fail ==
  /\ net \in {"dialing", "opened", "online"}
  /\ \/ UNCHANGED cmds
     \/ net = "online" /\ NextIs("Send") /\ cmds' = Tail(cmds)
  /\ Drop("failed")
  /\ UNCHANGED <<inbox, errors, awake>>

\* The end of the stream, once everything before it was read.
EndOfStream ==
  /\ net = "online"
  /\ peer = "closed"
  /\ down = <<>>
  /\ Drop("failed")
  /\ UNCHANGED <<cmds, inbox, errors, awake>>

ReportToLog ==
  /\ net = "failed"
  /\ net' = "closing"
  /\ UNCHANGED <<cmds, inbox, errors, awake, auth, sent, linkVars>>

ReportAsleep ==
  /\ net = "failed"
  /\ inbox' = Append(inbox, Error("BadRequest"))
  /\ net' = "waiting"
  /\ UNCHANGED <<cmds, errors, awake, auth, sent, linkVars>>

\* "Revert UI to Auth screen and show error modal".
Report ==
  /\ net = "failed"
  /\ inbox' = Append(inbox, Error("BadRequest"))
  /\ net' = "closing"
  /\ UNCHANGED <<cmds, errors, awake, auth, sent, linkVars>>

\* egui_ctx.request_repaint().
Wake ==
  /\ net \in {"delivering", "closing"}
  /\ awake' = TRUE
  /\ net' = IF net = "delivering" THEN "online" ELSE "waiting"
  /\ UNCHANGED <<cmds, inbox, errors, auth, sent, linkVars>>

\* The steps of the thread that need nothing from outside but time.
NetStep ==
  \/ TakeConnect \/ Refuse \/ Dial \/ WriteAuth
  \/ Write \/ IgnoreConnect \/ Receive \/ EndOfStream
  \/ Report \/ Wake

-----------------------------------------------------------------------------
(* The server's end: one answer to the first frame, then news.             *)

managerVars == <<cmds, inbox, errors, awake, netVars>>

Answer ==
  /\ peer = "silent"
  /\ sent # <<>>
  /\ \/ /\ \E u \in UserId : down' = Append(down, AuthSuccess(u))
        /\ peer' = "serving"
     \/ /\ \E e \in Refusals : down' = Append(down, Error(e))
        /\ peer' = "closed"
  /\ UNCHANGED managerVars

PeerWrites ==
  /\ peer = "serving"
  /\ Len(down) + Len(inbox) < Window
  /\ \E m \in News : down' = Append(down, m)
  /\ UNCHANGED <<peer, managerVars>>

PeerCloses ==
  /\ peer \in {"silent", "serving"}
  /\ peer' = "closed"
  /\ UNCHANGED <<down, managerVars>>
===============================================================================
