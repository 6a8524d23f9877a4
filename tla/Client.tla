-------------------------------- MODULE Client --------------------------------
(***************************************************************************)
(* The client process: the network thread and the UI thread.               *)
(*                                                                         *)
(* The UI thread draws frames.  A frame drains the server's messages       *)
(* (workspace.rs), draws one page and takes what the user does on it       *)
(* (ui/pages), then handles the modals (ui/modals.rs).  Each message and   *)
(* each of these parts is one step; the network thread moves between them. *)
(***************************************************************************)
EXTENDS NetworkManager, ChatPage

CONSTANTS
  Credentials,  \* what the user may type on the auth page
  MaxLogins,    \* bound on the clicks on Login and Register
  MaxInputs     \* bound on the messages and modals of the chat page

ASSUME CredentialsAssumption == Credentials \subseteq AuthMessage

ASSUME InputsAssumption == MaxLogins \in Nat /\ MaxInputs \in Nat

VARIABLES
  state,   \* AppState
  page,    \* what page_chat keeps
  active,  \* its active_chat
  asked,   \* modals_rx: modals opened from the page and not received yet
  modals,  \* the modals shown, the last on top
  ui,      \* which part of a frame comes next
  logins,  \* clicks on Login and Register so far
  inputs   \* messages sent and modals opened so far

uiVars == <<state, page, active, asked, modals, ui, logins, inputs>>

clientVars == <<cmds, inbox, errors, awake, netVars, linkVars, uiVars>>

OnAuth     == [at |-> "Auth"]
Connecting == [at |-> "Connecting"]
InChat(u)  == [at |-> "Chat", user |-> u]

AppState == {OnAuth, Connecting} \cup [at : {"Chat"}, user : UserId]

NoChat == [kind |-> "none"]

ErrorModal == [modal |-> "error"]
CreateGroupModal == [modal |-> "create"]

\* It keeps the page's contacts as they were when it was opened.
InviteToGroupModal(g, book) == [modal |-> "invite", group |-> g, book |-> book]

Modal == {ErrorModal, CreateGroupModal}
           \cup [modal : {"invite"}, group : GroupId, book : SUBSET UserId]

ClientInit ==
  /\ NetInit
  /\ state = OnAuth
  /\ page = EmptyPage
  /\ active = NoChat
  /\ asked = <<>>
  /\ modals = <<>>
  /\ ui = "idle"
  /\ logins = 0
  /\ inputs = 0

-----------------------------------------------------------------------------
(* A frame begins: somebody asked for it, or the user touched something.   *)

Begin ==
  /\ ui = "idle"
  /\ ui' = "draining"
  /\ awake' = FALSE
  /\ UNCHANGED <<cmds, inbox, errors, netVars, linkVars,
                 state, page, active, asked, modals, logins, inputs>>

Repaint == awake /\ Begin

Touch == Begin

-----------------------------------------------------------------------------
(* process_server_messages.                                                *)

Issue(m) == cmds' = Append(cmds, Send(m, logins))

OnAuthSuccessLazy(m) ==
  /\ state' = InChat(m.user)
  /\ UNCHANGED <<cmds, errors, page>>

OnAuthSuccess(m) ==
  /\ state' = InChat(m.user)
  /\ Issue(Sync(0))
  /\ UNCHANGED <<errors, page>>

OnError ==
  /\ state' = OnAuth
  /\ errors' = Append(errors, "Server")
  /\ UNCHANGED <<cmds, page>>

\* A message for the chat page is dropped when the chat page is not shown.
OnOther(m) ==
  /\ page' = IF state.at = "Chat" THEN Apply(page, m, state.user) ELSE page
  /\ UNCHANGED <<cmds, errors, state>>

TakeMessage ==
  /\ ui = "draining"
  /\ inbox # <<>>
  /\ inbox' = Tail(inbox)
  /\ LET m == Head(inbox)
     IN  \/ m.type = "AuthSuccess" /\ OnAuthSuccess(m)
         \/ m.type = "Error" /\ OnError
         \/ ForPage(m) /\ OnOther(m)
  /\ UNCHANGED <<awake, netVars, linkVars, active, asked, modals, ui, logins, inputs>>

-----------------------------------------------------------------------------
(* The page.  A modal keeps the input from the page below it.              *)

\* The drain is over and the page is drawn.
Drawn ==
  /\ ui = "draining"
  /\ inbox = <<>>
  /\ ui' = "modals"

PageInput == modals = <<>>

\* Login and Register on the auth page.
ClickLogin ==
  /\ Drawn
  /\ PageInput
  /\ state = OnAuth
  /\ logins < MaxLogins
  /\ logins' = logins + 1
  /\ \E m \in Credentials : cmds' = Append(cmds, Connect(m, logins + 1))
  /\ state' = Connecting
  /\ UNCHANGED <<inbox, errors, awake, netVars, linkVars,
                 page, active, asked, modals, inputs>>

\* The user does nothing.  The spinner of the connecting page repaints itself.
Watch ==
  /\ Drawn
  /\ awake' = (awake \/ state = Connecting)
  /\ UNCHANGED <<cmds, inbox, errors, netVars, linkVars,
                 state, page, active, asked, modals, logins, inputs>>

\* Input on the chat page, until the bound on it is used up.
OnChat ==
  /\ Drawn
  /\ PageInput
  /\ state.at = "Chat"
  /\ inputs < MaxInputs
  /\ UNCHANGED <<inbox, errors, awake, netVars, linkVars, state, page, modals, logins>>

\* The chats on the left.
Chats ==
  {Broadcast} \cup {GroupTarget(g) : g \in page.groups}
    \cup {UserTarget(u) : u \in page.book \ {state.user}}

SelectChat ==
  /\ OnChat
  /\ active' \in Chats
  /\ UNCHANGED <<cmds, asked, inputs>>

\* A text or a file, to whatever chat is active.
SendContent ==
  /\ OnChat
  /\ active # NoChat
  /\ inputs' = inputs + 1
  /\ \E b \in Body : Issue(SendMessage(active, b))
  /\ UNCHANGED <<active, asked>>

\* Modals are opened through a channel, received later in the same frame.
OpenModal ==
  /\ OnChat
  /\ inputs' = inputs + 1
  /\ \/ asked' = Append(asked, CreateGroupModal)
     \/ /\ active.kind = "group"
        /\ asked' = Append(asked, InviteToGroupModal(active.group, page.book))
  /\ UNCHANGED <<cmds, active>>

-----------------------------------------------------------------------------
(* ModalsHandler::handle.                                                  *)

\* At most one error and one modal are received per frame.
Received ==
  modals
    \o (IF errors = <<>> THEN <<>> ELSE <<ErrorModal>>)
    \o (IF asked = <<>> THEN <<>> ELSE <<Head(asked)>>)

\* What a click in the modal sends before it closes.
Submitted(modal) ==
  CASE modal.modal = "create" -> {CreateGroup}
    [] modal.modal = "invite" -> {InviteToGroup(modal.group, u) : u \in modal.book}
    [] modal.modal = "error"  -> {}

\* Only the modal that was on top when the frame began gets input; it closes
\* on its buttons, on Escape and on a click beside it, and is then removed by
\* its index.
HandleModals ==
  /\ ui = "modals"
  /\ ui' = "idle"
  /\ errors' = IF errors = <<>> THEN <<>> ELSE Tail(errors)
  /\ asked' = IF asked = <<>> THEN <<>> ELSE Tail(asked)
  /\ \/ modals' = Received /\ UNCHANGED cmds
     \/ /\ modals # <<>>
        /\ modals' = RemoveAt(Received, Len(modals))
        /\ \/ UNCHANGED cmds
           \/ \E m \in Submitted(Last(modals)) : Issue(m)
  /\ UNCHANGED <<inbox, awake, netVars, linkVars, state, page, active, logins, inputs>>

-----------------------------------------------------------------------------

NetworkThread == NetStep /\ UNCHANGED uiVars

Network == (NetStep \/ Fail) /\ UNCHANGED uiVars

\* The frames the UI thread draws on its own, and what the user may add.
Frame == Repaint \/ TakeMessage \/ Watch \/ HandleModals

User == Touch \/ ClickLogin \/ SelectChat \/ SendContent \/ OpenModal

Peer == (Answer \/ PeerWrites \/ PeerCloses) /\ UNCHANGED uiVars

ClientNext == Network \/ Frame \/ User \/ Peer

ClientSpec == ClientInit /\ [][ClientNext]_clientVars
===============================================================================
