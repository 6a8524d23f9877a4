--------------------------------- MODULE Desk ---------------------------------
(***************************************************************************)
(* One client of client/src at work against the server, beside other users *)
(* whose clients send any frame of a set.                                  *)
(*                                                                         *)
(* Each login of the client takes a connection of its own.  What the       *)
(* client writes to it waits in `up` until the actor reads it; what the    *)
(* actor wrote to it (`wire`) is read in order, `read` frames so far.      *)
(***************************************************************************)
EXTENDS ServerProperties

CONSTANTS
  DeskConns,    \* the connections this client may open, one after the other
  OtherFrames,  \* what the clients of the other users send
  LinksBreak,   \* whether a connection of this client may break
  Refusals, News, Window, Credentials, MaxLogins, MaxInputs  \* of Client

ASSUME DeskAssumption == DeskConns \subseteq Conn /\ LinksBreak \in BOOLEAN

\* What Client assumes of its constants.
ASSUME ClientAssumption ==
  /\ News \subseteq ServerMessage
  /\ \A m \in News : m.type \notin {"AuthSuccess", "Error"}
  /\ Refusals \subseteq ServerError
  /\ Window \in Nat \ {0}
  /\ Credentials \subseteq AuthMessage
  /\ MaxLogins \in Nat
  /\ MaxInputs \in Nat

VARIABLES
  cmds, inbox, errors, awake, net, auth, sent,                    \* NetworkManager
  state, page, active, asked, modals, ui, logins, inputs,         \* Client
  dialed,  \* the connections opened so far
  cur,     \* the one the client holds, or NoConn
  up,      \* frames written by the client and not read by the server
  read,    \* frames of wire[cur] read by the client
  before   \* the page when cur was dialed

screenVars == <<state, page, active, asked, modals, ui, logins, inputs>>

clientVars == <<cmds, inbox, errors, awake, net, auth, sent, screenVars>>

socketVars == <<dialed, cur, up, read, before>>

\* The client's view of the server: its unread frames, and what it has done.
unread == IF cur = NoConn THEN <<>> ELSE SubSeq(wire[cur], read + 1, Len(wire[cur]))

Welcomed(c) == wire[c] # <<>> /\ wire[c][1].type = "AuthSuccess"

serverEnd ==
  CASE cur = NoConn           -> "none"
    [] cur # NoConn /\ phase[cur] = "closed" -> "closed"
    [] cur # NoConn /\ phase[cur] # "closed" ->
         IF Welcomed(cur) THEN "serving" ELSE "silent"

\* The client, with what is proved of it.
C == INSTANCE ClientProofs WITH down <- unread, peer <- serverEnd

DeskInit ==
  /\ Init
  /\ dialed = {}
  /\ cur = NoConn
  /\ up = [c \in DeskConns |-> <<>>]
  /\ read = 0
  /\ before = C!EmptyPage
  /\ C!ClientInit

-----------------------------------------------------------------------------
(* The client's steps, and what they do to its socket.                     *)

OffSocket == UNCHANGED <<vars, socketVars>>

\* The client lets go of the connection, whatever the server makes of it.
LetGo ==
  /\ cur' = NoConn
  /\ read' = 0
  /\ UNCHANGED <<vars, dialed, up, before>>

Dials ==
  /\ net = "dialing"
  /\ \E c \in DeskConns \ dialed : cur' = c /\ dialed' = dialed \cup {c}
  /\ read' = 0
  /\ before' = page
  /\ UNCHANGED <<vars, up>>
  /\ C!Dial

Writes1(m) ==
  /\ up' = [up EXCEPT ![cur] = Append(@, m)]
  /\ UNCHANGED <<vars, dialed, cur, read, before>>

WritesAuth == net = "opened" /\ Writes1(auth.msg) /\ C!WriteAuth

WritesSend == net = "online" /\ cmds # <<>> /\ Writes1(Head(cmds).msg) /\ C!Write

Reads ==
  /\ net = "online"
  /\ unread # <<>>
  /\ IF Head(unread).type = "Error"
       THEN LetGo
       ELSE read' = read + 1 /\ UNCHANGED <<vars, dialed, cur, up, before>>
  /\ C!Receive

HearsEnd == net = "online" /\ LetGo /\ C!EndOfStream

\* The dial or the write of the first frame fails, or the connection breaks at
\* the client's end; the server is yet to notice.
Breaks ==
  /\ LinksBreak
  /\ LetGo
  /\ C!Fail
  /\ UNCHANGED screenVars

ClientThread ==
  /\ \/ Dials \/ WritesAuth \/ WritesSend \/ Reads \/ HearsEnd
     \/ OffSocket /\ (C!TakeConnect \/ C!Refuse \/ C!IgnoreConnect \/ C!Report \/ C!Wake)
  /\ UNCHANGED screenVars

\* The user touches the screen when there is something left to do on it.
Touches ==
  /\ \/ state = C!OnAuth /\ logins < MaxLogins
     \/ inputs < MaxInputs
     \/ modals # <<>>
  /\ C!Touch

Screen ==
  /\ OffSocket
  /\ \/ C!Frame \/ Touches
     \/ C!ClickLogin \/ C!SelectChat \/ C!SendContent \/ C!OpenModal

-----------------------------------------------------------------------------
(* The server's steps.                                                     *)

Gone(c) == c \in dialed /\ c # cur

\* The actor of a connection of the client meets its frames, or its end.
Serves(c) ==
  /\ \/ c \in dialed /\ Accept(c) /\ UNCHANGED up
     \/ /\ up[c] # <<>>
        /\ Authenticate(c) \/ Request(c)
        /\ heard'[c] = Append(heard[c], Head(up[c]))
        /\ up' = [up EXCEPT ![c] = Tail(@)]
     \/ Gone(c) /\ (Disconnect(c) \/ LoseWrite(c)) /\ UNCHANGED up
  /\ UNCHANGED <<clock, crashes, dialed, cur, read, before>>

\* A connection of another user, whose client sends some of the frames only.
Visits(c) == Client(c) /\ Range(heard'[c]) \subseteq OtherFrames

\* The client has something to do by itself.  Its steps take nothing from the
\* server but frames already written and give it nothing but frames it reads
\* later, so they commute with the server's and go first here; in the runs of
\* Client they take their time.
Busy ==
  \/ ui # "idle"
  \/ modals # <<>> \/ (state = C!OnAuth /\ logins < MaxLogins)
  \/ awake /\ (state # C!Connecting \/ inbox # <<>>)
  \/ net = "waiting" /\ cmds # <<>>
  \/ net = "online" /\ (cmds # <<>> \/ unread # <<>>)
  \/ net \notin {"waiting", "online"}

ServerSide ==
  /\ ~Busy
  /\ \/ \E c \in DeskConns : Serves(c)
     \/ /\ \/ RouterTask \/ SaveTasks
           \/ \E c \in Conn : Actor(c)
           \/ \E c \in Conn \ DeskConns : Visits(c)
           \/ Crash
        /\ UNCHANGED socketVars
  /\ UNCHANGED clientVars

DeskNext ==
  ClientThread \/ Screen \/ ServerSide \/ ((net = "online" => ~Busy) /\ Breaks)

deskVars == <<vars, clientVars, socketVars>>

DeskSpec == DeskInit /\ [][DeskNext]_deskVars

-----------------------------------------------------------------------------
(* What the two promise together.                                          *)

\* The server behaves as the client's code relies on: one answer to the first
\* frame before anything else, nothing after a refusal, no second AuthSuccess
\* and no Error while the user chats (the unreachable! arms of chat.rs:405).
ClientIsServed == C!ClientSpec

\* The client shows its chat page over the connection it holds.
OnPage == cur # NoConn /\ state.at = "Chat"

\* While it chats, the page has taken in everything the server wrote since the
\* client dialed: no message comes before the AuthSuccess that opens the page.
PageHasItAll ==
  OnPage =>
    page = C!ApplyAll(before, SubSeq(wire[cur], 1, read - Len(inbox)), me[cur])

\* The server and the network have nothing left for the client.
AllRead ==
  /\ phase[cur] = "serving" /\ script[cur] = <<>> /\ \A p \in Places(cur) : p[1] = 1
  /\ unread = <<>> /\ inbox = <<>>

Mentioned(v) == \E m \in Range(wire[cur]) : m.type = "Presence" /\ m.user = v

\* What the page shows as online is the router's sessions, and those it showed
\* before this login that the server has not mentioned in it.
StatusShown ==
  (OnPage /\ AllRead /\ Session(cur)) =>
    \A v \in UserId \ {me[cur]} :
      page.presence[v] <=> v \in Online \/ (before.presence[v] /\ ~Mentioned(v))

\* What the user sent over the connection they hold is on their page, in the
\* chat they wrote it in, once it has come round through the router.
SentIsShown ==
  (/\ OnPage /\ AllRead /\ Session(cur) /\ up[cur] = <<>>
   /\ \A e \in InFlight : e.type # "RouteMessage") =>
    \A m \in Range(SelectSeq(heard[cur], Sends)) :
      (m.target.kind = "group" => me[cur] \in subs[m.target.group]) =>
        \E shown \in Range(page.tabs[m.target]) : shown.body = m.body

\* What an earlier connection has put on the page, live or by its history, the
\* server does not tell the client live on the next one: whoever was served by
\* the old session is not served again by the new.
LiveIsNew ==
  cur # NoConn =>
    \A i \in LiveAt(cur), t \in Target :
      wire[cur][i].body \notin Range(Bodies(before.tabs[t]))

\* "Real-time online/offline status indicators for all registered users"
\* (README.md:16): the page lists them all, and shows who is online.  Refuted
\* by a run: what an earlier login left on the page stays there.
StatusForAll ==
  (OnPage /\ AllRead /\ Session(cur)) =>
    \A v \in {r.id : r \in users} \ {me[cur]} :
      v \in page.book /\ (page.presence[v] <=> v \in Online)
===============================================================================
