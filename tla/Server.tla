-------------------------------- MODULE Server --------------------------------
(***************************************************************************)
(* The server process: the router, one connection actor per socket, the    *)
(* spawned save tasks and the database, with the clients, the network and  *)
(* the clock as their environment.                                         *)
(***************************************************************************)
EXTENDS Connection

CONSTANTS
  MaxRequests,  \* bound on the frames all clients together send after their first
  MaxCrashes,   \* bound on the crashes of the server process
  WritesFail,   \* the connections on which a write to the client may fail
  ClientsLeave  \* the connections the client may close

ASSUME BoundAssumption ==
  /\ MaxRequests \in Nat
  /\ MaxCrashes \in Nat
  /\ WritesFail \subseteq Conn
  /\ ClientsLeave \subseteq Conn

VARIABLE crashes  \* crashes of the server process so far

vars == <<dbVars, routerVars, chanVars, connVars, clock, crashes>>

Init ==
  /\ DbInit
  /\ RouterInit
  /\ ConnInit
  /\ clock = 1
  /\ crashes = 0

-----------------------------------------------------------------------------
(* The environment.                                                        *)

\* The frames of a type read so far, by connection and position.
Heard(type) ==
  UNION {{c} \X {i \in DOMAIN heard[c] : heard[c][i].type = type} : c \in Conn}

\* The frames read after a first one.
Later == UNION {{c} \X (2 .. Len(heard[c])) : c \in Conn}

\* A body identifies the message it is sent in.
FreshBody(m) ==
  m.type = "SendMessage" =>
    \A h \in Heard("SendMessage") : heard[h[1]][h[2]].body # m.body

\* GroupId is large enough for every group that is asked for.
IdsLeft(m) ==
  m.type = "CreateGroup" =>
    Cardinality(Heard("CreateGroup")) < Cardinality(GroupId \ InitGroups)

\* The first frame.
Authenticate(c) == \E m \in FirstFrames : FirstFrame(c, m)

\* A later frame.
Request(c) ==
  /\ Cardinality(Later) < MaxRequests
  /\ \E m \in Requests : FreshBody(m) /\ IdsLeft(m) /\ HandleFrame(c, m)

Disconnect(c) == c \in ClientsLeave /\ (HangUp(c) \/ NoFirstFrame(c))

LoseWrite(c) == c \in WritesFail /\ WriteFails(c)

\* Only a SendMessage reads the clock, so seconds are counted from the first one.
Tick ==
  /\ clock < MaxClock
  /\ Heard("SendMessage") # {}
  /\ clock' = clock + 1
  /\ UNCHANGED <<dbVars, routerVars, chanVars, connVars, crashes>>

\* The process dies and is started again: every task, queue and map is gone,
\* the tables are not.
Crash ==
  /\ crashes < MaxCrashes
  /\ crashes' = crashes + 1
  /\ phase' = [c \in Conn |-> IF phase[c] = "fresh" THEN "fresh" ELSE "closed"]
  /\ script' = [c \in Conn |-> <<>>]
  /\ rxq' = <<>>
  /\ sessions' = [u \in UserId |-> NoConn]
  /\ subs' = [g \in GroupId |-> {}]
  /\ fanout' = <<>>
  /\ saves' = {}
  /\ chan' = [c \in Conn |-> <<>>]
  /\ open' = {}
  /\ UNCHANGED <<me, wire, heard, clock, dbVars>>

-----------------------------------------------------------------------------

\* The steps the tokio runtime schedules for the actor of c.
Actor(c) == ConnStep(c) /\ UNCHANGED <<clock, crashes>>

RouterTask == RouterStep /\ UNCHANGED <<connVars, clock, crashes>>

SaveTasks == \E row \in saves : SaveMessage(row) /\ UNCHANGED <<connVars, clock, crashes>>

Client(c) ==
  /\ Accept(c) \/ Authenticate(c) \/ Request(c) \/ Disconnect(c) \/ LoseWrite(c)
  /\ UNCHANGED <<clock, crashes>>

Next ==
  \/ RouterTask
  \/ SaveTasks
  \/ \E c \in Conn : Actor(c) \/ Client(c)
  \/ Tick
  \/ Crash

Spec == Init /\ [][Next]_vars

\* A spawned task that can run is eventually run: tokio's scheduler is fair to
\* ready tasks and a socket write, a query and a spawned save complete.
Fairness ==
  /\ WF_vars(RouterTask)
  /\ WF_vars(SaveTasks)
  /\ \A c \in Conn : WF_vars(Actor(c))

FairSpec == Spec /\ Fairness

-----------------------------------------------------------------------------

TypeOK ==
  /\ DbOK
  /\ RouterOK
  /\ ChanOK
  /\ ConnOK
  /\ clock \in Timestamp
  /\ crashes \in 0 .. MaxCrashes
===============================================================================
