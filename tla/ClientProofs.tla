----------------------------- MODULE ClientProofs -----------------------------
(***************************************************************************)
(* What the client promises, for every value of the constants: the login   *)
(* is in one place, a connection carries one login's frames with one Sync  *)
(* behind the auth message, and no message waits for a frame nobody asked  *)
(* for.                                                                    *)
(***************************************************************************)
EXTENDS ClientProperties, WellFoundedInduction, TLAPS

-----------------------------------------------------------------------------
(* The inductive invariant.  A login is a token: it is asked for, tried by *)
(* the network thread, over, and back on the auth page, and the queues     *)
(* hold what belongs to the place it is in.                                *)

IsConnect(c) == c.cmd = "Connect"

IsSync(c) == c.msg = Sync(0)

Linked == net \in {"opened", "online", "delivering"}

\* The types; whoever dials has an auth message.
ClientTypes ==
  /\ cmds \in Seq(Command)
  /\ inbox \in Seq(ServerMessage \cup {Error("BadRequest")})
  /\ errors \in Seq({"Server", "TriedSendWhileDisconnected"})
  /\ awake \in BOOLEAN
  /\ net \in NetState
  /\ auth \in Command \cup {NoCommand}
  /\ net \in {"dialing", "opened"} => auth \in Command
  /\ sent \in Seq(Command)
  /\ down \in Seq(ServerMessage)
  /\ peer \in PeerState
  /\ state \in AppState
  /\ page \in Page
  /\ active \in Target \cup {NoChat}
  /\ asked \in Seq(Modal)
  /\ modals \in Seq(Modal)
  /\ ui \in {"idle", "draining", "modals"}
  /\ logins \in 0 .. MaxLogins
  /\ inputs \in 0 .. MaxInputs

NoConnect == \A i \in DOMAIN cmds : ~IsConnect(cmds[i])

LastConnects ==
  /\ cmds # <<>>
  /\ \A i \in DOMAIN cmds : IsConnect(cmds[i]) <=> i = Len(cmds)
  /\ cmds[Len(cmds)].login = logins
  /\ ~IsSync(cmds[Len(cmds)])

OwnSends == \A i \in DOMAIN cmds : ~IsConnect(cmds[i]) /\ cmds[i].login = logins

NoErrorIn(q) == \A i \in DOMAIN q : q[i].type # "Error"

LastIsError == inbox # <<>> /\ \A i \in DOMAIN inbox : inbox[i].type = "Error" <=> i = Len(inbox)

\* Where the login is.
AtRest == state = OnAuth /\ ~Engaged /\ NoConnect /\ inbox = <<>>
Asked  == state = Connecting /\ ~Engaged /\ LastConnects /\ inbox = <<>>
Tried  == state # OnAuth /\ Engaged /\ OwnSends /\ NoErrorIn(inbox)
Over   == state # OnAuth /\ ~Engaged /\ NoConnect /\ LastIsError

OnePlace == AtRest \/ Asked \/ Tried \/ Over

\* What the network thread holds belongs to the login being tried.
HeldIsOwn ==
  /\ net \in {"dialing", "opened"} =>
       IsConnect(auth) /\ auth.login = logins /\ ~IsSync(auth)
  /\ \A i \in DOMAIN sent : sent[i].login = logins
  /\ net \notin {"online", "delivering"} => sent = <<>>
  /\ net \in {"online", "delivering"} => sent # <<>>
  /\ ~Linked => down = <<>> /\ peer = "none"

\* The modals that can send are opened on the chat page, within one frame.
ModalsAreOld ==
  /\ asked # <<>> => Len(asked) = 1 /\ ui = "modals" /\ state.at = "Chat"
  /\ state = Connecting => modals \in Seq({ErrorModal})

-----------------------------------------------------------------------------
(* The first frame, its answer, and the Sync.                              *)

IsWelcome(m) == m.type = "AuthSuccess"

NoWelcomeIn(q) == \A i \in DOMAIN q : ~IsWelcome(q[i])

WelcomeFirst(q) == q # <<>> /\ \A i \in DOMAIN q : IsWelcome(q[i]) <=> i = 1

\* At most the auth message was written, and nothing waits to be.
Introduced ==
  /\ state = Connecting
  /\ cmds = <<>>
  /\ Len(sent) <= 1
  /\ sent # <<>> => IsConnect(sent[1]) /\ ~IsSync(sent[1])

Unanswered ==
  /\ Introduced
  /\ inbox = <<>>
  /\ \A i \in DOMAIN down : down[i].type = "Error"
  /\ peer # "serving"
  /\ peer = "silent" => down = <<>>

Answered == Introduced /\ inbox = <<>> /\ WelcomeFirst(down) /\ sent # <<>> /\ peer # "silent"

Welcomed == Introduced /\ WelcomeFirst(inbox) /\ NoWelcomeIn(down) /\ sent # <<>> /\ peer # "silent"

Chatty ==
  /\ state.at = "Chat"
  /\ NoWelcomeIn(inbox)
  /\ NoWelcomeIn(down)
  /\ sent # <<>>
  /\ peer # "silent"
  /\ SyncFirst
  /\ IF Len(sent) = 1
       THEN cmds # <<>> /\ \A i \in DOMAIN cmds : IsSync(cmds[i]) <=> i = 1
       ELSE \A i \in DOMAIN cmds : ~IsSync(cmds[i])

SyncSoon ==
  Linked \/ net = "dialing" => Unanswered \/ Answered \/ Welcomed \/ Chatty

ClientInv == ClientTypes /\ OnePlace /\ HeldIsOwn /\ ModalsAreOld /\ SyncSoon /\ NoLostWakeup

-----------------------------------------------------------------------------
(* Sequences.                                                              *)

LEMMA Taken ==
  ASSUME NEW S, NEW s \in Seq(S), s # <<>>
  PROVE  /\ Head(s) = s[1] /\ Head(s) \in S /\ Tail(s) \in Seq(S)
         /\ Len(s) \in Nat \ {0} /\ DOMAIN s = 1 .. Len(s)
         /\ Len(Tail(s)) = Len(s) - 1 /\ DOMAIN Tail(s) = 1 .. Len(s) - 1
         /\ \A i \in 1 .. Len(s) - 1 : Tail(s)[i] = s[i + 1]
OBVIOUS

LEMMA Added ==
  ASSUME NEW S, NEW s \in Seq(S), NEW e \in S
  PROVE  /\ Append(s, e) \in Seq(S) /\ Append(s, e) # <<>>
         /\ Len(s) \in Nat /\ DOMAIN s = 1 .. Len(s)
         /\ Len(Append(s, e)) = Len(s) + 1 /\ DOMAIN Append(s, e) = 1 .. Len(s) + 1
         /\ \A i \in 1 .. Len(s) : Append(s, e)[i] = s[i]
         /\ Append(s, e)[Len(s) + 1] = e
OBVIOUS

\* Removing an element leaves a sequence of the same kind.
LEMMA RemoveAtTypes ==
  ASSUME NEW S, NEW s \in Seq(S), NEW i \in 1 .. Len(s)
  PROVE  RemoveAt(s, i) \in Seq(S)
<1>1. SubSeq(s, 1, i - 1) \in Seq(S)
  OBVIOUS
<1>2. SubSeq(s, i + 1, Len(s)) \in Seq(S)
  OBVIOUS
<1> QED  BY <1>1, <1>2 DEF RemoveAt

LEMMA Empty ==
  ASSUME NEW S, NEW s \in Seq(S)
  PROVE  s = <<>> <=> Len(s) = 0
OBVIOUS

-----------------------------------------------------------------------------
(* What the client and its server say to each other.                       *)

Delivered == ServerMessage \cup {Error("BadRequest")}

LEMMA ServerAnswers ==
  /\ \A u \in UserId : AuthSuccess(u) \in ServerMessage /\ AuthSuccess(u).type = "AuthSuccess"
  /\ \A e \in Refusals : Error(e) \in ServerMessage /\ Error(e).type = "Error"
  /\ \A m \in News : m \in ServerMessage /\ m.type \notin {"AuthSuccess", "Error"}
<1>1. \A u \in UserId : AuthSuccess(u) \in ServerMessage /\ AuthSuccess(u).type = "AuthSuccess"
  BY DEF AuthSuccess, ServerMessage
<1>2. \A e \in Refusals : Error(e) \in ServerMessage /\ Error(e).type = "Error"
  BY NewsAssumption DEF Error, ServerMessage
<1>3. \A m \in News : m \in ServerMessage /\ m.type \notin {"AuthSuccess", "Error"}
  BY NewsAssumption
<1> QED  BY <1>1, <1>2, <1>3

LEMMA AuthMessages ==
  ASSUME NEW m \in Credentials, NEW n \in 0 .. MaxLogins
  PROVE  /\ Connect(m, n) \in Command
         /\ IsConnect(Connect(m, n)) /\ Connect(m, n).login = n /\ ~IsSync(Connect(m, n))
<1>1. m \in AuthMessage /\ m \in ClientMessage
  BY CredentialsAssumption DEF ClientMessage
<1>2. m.type \in {"Login", "Register"}
  BY <1>1 DEF AuthMessage
<1>3. m # Sync(0)
  BY <1>2 DEF Sync
<1> QED  BY <1>1, <1>3 DEF Connect, Command, IsConnect, IsSync

LEMMA SendTypes ==
  ASSUME NEW m \in ClientMessage, NEW n \in 0 .. MaxLogins
  PROVE  /\ Send(m, n) \in Command /\ ~IsConnect(Send(m, n))
         /\ Send(m, n).login = n /\ Send(m, n).cmd = "Send" /\ Send(m, n).msg = m
BY DEF Send, Command, IsConnect

LEMMA SyncTypes == Sync(0) \in ClientMessage
BY ClockAssumption DEF Sync, ClientMessage, Timestamp

LEMMA ContentTypes ==
  ASSUME NEW t \in Target, NEW b \in Body
  PROVE  SendMessage(t, b) \in ClientMessage /\ SendMessage(t, b) # Sync(0)
BY DEF SendMessage, ClientMessage, Sync

\* No modal submits a Sync, and an error modal submits nothing.
LEMMA SubmittedTypes ==
  ASSUME NEW modal \in Modal, NEW m \in Submitted(modal)
  PROVE  m \in ClientMessage /\ m # Sync(0) /\ modal # ErrorModal
<1>1. CASE modal = ErrorModal
  BY <1>1 DEF Submitted, ErrorModal
<1>2. CASE modal = CreateGroupModal
  <2>1. m = CreateGroup /\ modal # ErrorModal
    BY <1>2 DEF Submitted, CreateGroupModal, ErrorModal
  <2>2. CreateGroup # Sync(0)
    BY DEF CreateGroup, Sync
  <2> QED  BY <2>1, <2>2 DEF ClientMessage
<1>3. CASE modal \in [modal : {"invite"}, group : GroupId, book : SUBSET UserId]
  <2>1. PICK u \in UserId : m = InviteToGroup(modal.group, u)
    BY <1>3 DEF Submitted
  <2>2. m \in ClientMessage /\ m # Sync(0)
    BY <1>3, <2>1 DEF InviteToGroup, ClientMessage, Sync
  <2> QED  BY <1>3, <2>2 DEF ErrorModal
<1> QED  BY <1>1, <1>2, <1>3 DEF Modal

-----------------------------------------------------------------------------
(* The page.                                                               *)

\* A set that holds 0 and each successor holds every number.  What a recursive
\* function is for the sequences of every length is proved with such sets.
LEMMA EachNatural ==
  ASSUME NEW S, 0 \in S, \A n \in Nat : n \in S => n + 1 \in S
  PROVE  \A n \in Nat : n \in S
<1> SUFFICES ASSUME NEW m \in Nat, m \notin S
             PROVE  FALSE
  OBVIOUS
<1> DEFINE T == Nat \ S
<1>1. T \subseteq Nat /\ T # {}
  OBVIOUS
<1>2. PICK x \in T : \A y \in T : ~(<<y, x>> \in OpToRel(<, Nat))
  BY <1>1, WFMin, NatLessThanWellFounded
<1>3. x \in Nat /\ x # 0 /\ x \notin S
  BY <1>2
<1>4. x - 1 \in Nat /\ x - 1 < x /\ (x - 1) + 1 = x
  BY <1>3
<1>5. x - 1 \notin T
  BY <1>2, <1>3, <1>4 DEF OpToRel
<1> QED  BY <1>3, <1>4, <1>5

\* The tabs as each message of a batch is shown.
IsShown(f, m, tabs, ms, user) ==
  f = [n \in 0 .. m |-> IF n = 0 THEN tabs ELSE Show(f[n - 1], ms[n], user)]

LEMMA ShownExists ==
  ASSUME NEW tabs, NEW ms, NEW user
  PROVE  \A m \in Nat : \E f : IsShown(f, m, tabs, ms, user)
<1> DEFINE S == {m \in Nat : \E f : IsShown(f, m, tabs, ms, user)}
<1>1. 0 \in S
  <2>1. IsShown([n \in 0 .. 0 |-> tabs], 0, tabs, ms, user)
    BY DEF IsShown
  <2> QED  BY <2>1
<1>2. ASSUME NEW m \in Nat, m \in S
      PROVE  m + 1 \in S
  <2>1. PICK f : IsShown(f, m, tabs, ms, user)
    BY <1>2
  <2> DEFINE g == [n \in 0 .. m + 1 |-> IF n = m + 1 THEN Show(f[m], ms[m + 1], user) ELSE f[n]]
  <2>2. \A n \in 0 .. m : f[n] = IF n = 0 THEN tabs ELSE Show(f[n - 1], ms[n], user)
    BY <2>1 DEF IsShown
  <2>3. ASSUME NEW n \in 0 .. m + 1
        PROVE  g[n] = IF n = 0 THEN tabs ELSE Show(g[n - 1], ms[n], user)
    <3>1. CASE n = m + 1
      <4>1. n # 0 /\ n - 1 = m /\ m \in 0 .. m + 1 /\ m # m + 1
        BY <3>1
      <4>2. g[m] = f[m]
        BY <4>1
      <4> QED  BY <3>1, <4>1, <4>2
    <3>2. CASE n \in 0 .. m
      <4>1. g[n] = f[n] /\ (n # 0 => g[n - 1] = f[n - 1])
        BY <3>2
      <4> QED  BY <2>2, <3>2, <4>1
    <3> QED  BY <3>1, <3>2
  <2>4. IsShown(g, m + 1, tabs, ms, user)
    <3>1. g = [n \in 0 .. m + 1 |-> g[n]]
      OBVIOUS
    <3> HIDE DEF g
    <3> QED  BY <2>3, <3>1, Zenon DEF IsShown
  <2> QED  BY <2>4
<1>3. \A m \in Nat : m \in S
  <2> HIDE DEF S
  <2> QED  BY <1>1, <1>2, EachNatural
<1> QED  BY <1>3

LEMMA ShowTypes ==
  ASSUME NEW tabs \in [Target -> Seq(ChatMessage)], NEW m \in ChatMessage, NEW user \in UserId
  PROVE  Show(tabs, m, user) \in [Target -> Seq(ChatMessage)]
<1>1. TabOf(m, user) \in Target
  BY DEF TabOf, ChatMessage, Target, UserTarget
<1>2. Append(tabs[TabOf(m, user)], m) \in Seq(ChatMessage)
  BY <1>1
<1> QED  BY <1>1, <1>2 DEF Show

LEMMA ShowAllTypes ==
  ASSUME NEW tabs \in [Target -> Seq(ChatMessage)], NEW ms \in Seq(ChatMessage), NEW user \in UserId
  PROVE  ShowAll(tabs, ms, user) \in [Target -> Seq(ChatMessage)]
<1> DEFINE f == CHOOSE g : IsShown(g, Len(ms), tabs, ms, user)
           S == {n \in Nat : n <= Len(ms) => f[n] \in [Target -> Seq(ChatMessage)]}
<1>1. IsShown(f, Len(ms), tabs, ms, user)
  <2>1. Len(ms) \in Nat
    OBVIOUS
  <2>2. \E g : IsShown(g, Len(ms), tabs, ms, user)
    BY <2>1, ShownExists, Zenon
  <2> QED  BY <2>2, Zenon
<1>2. ShowAll(tabs, ms, user) = f[Len(ms)]
  BY Zenon DEF ShowAll, IsShown
<1> HIDE DEF f
<1>3. \A n \in 0 .. Len(ms) : f[n] = IF n = 0 THEN tabs ELSE Show(f[n - 1], ms[n], user)
  BY <1>1 DEF IsShown
<1>4. 0 \in S
  BY <1>3
<1>5. ASSUME NEW n \in Nat, n \in S
      PROVE  n + 1 \in S
  <2> SUFFICES ASSUME n + 1 <= Len(ms)
               PROVE  f[n + 1] \in [Target -> Seq(ChatMessage)]
    OBVIOUS
  <2>1. f[n] \in [Target -> Seq(ChatMessage)] /\ ms[n + 1] \in ChatMessage
    BY <1>5
  <2>2. f[n + 1] = Show(f[n], ms[n + 1], user)
    BY <1>3
  <2> QED  BY <2>1, <2>2, ShowTypes
<1>6. \A n \in Nat : n \in S
  <2> HIDE DEF S
  <2> QED  BY <1>4, <1>5, EachNatural
<1> QED  BY <1>2, <1>6

\* Tab t gets the message m at its end, or nothing.
TabAdds(tabs, next, t, m) ==
  \A i \in DOMAIN next[t] :
    \/ i \in DOMAIN tabs[t] /\ next[t][i] = tabs[t][i]
    \/ i = Len(tabs[t]) + 1 /\ next[t][i] = m

LEMMA ShowAdds ==
  ASSUME NEW tabs \in [Target -> Seq(ChatMessage)], NEW m \in ChatMessage, NEW user \in UserId,
         NEW t \in Target
  PROVE  /\ TabAdds(tabs, Show(tabs, m, user), t, m)
         /\ t # TabOf(m, user) => Show(tabs, m, user)[t] = tabs[t]
<1>1. tabs[t] \in Seq(ChatMessage)
  OBVIOUS
<1>2. Show(tabs, m, user)[t] = IF t = TabOf(m, user) THEN Append(tabs[t], m) ELSE tabs[t]
  BY DEF Show
<1>3. \A i \in DOMAIN Append(tabs[t], m) :
        \/ i \in DOMAIN tabs[t] /\ Append(tabs[t], m)[i] = tabs[t][i]
        \/ i = Len(tabs[t]) + 1 /\ Append(tabs[t], m)[i] = m
  BY <1>1
<1> QED  BY <1>2, <1>3 DEF TabAdds

HasBodyAt(tab, i, b) == i \in DOMAIN tab /\ tab[i].body = b

\* A tab with a message at i that none of a batch repeats had it there before
\* the batch was shown.
LEMMA ShowAllKeeps ==
  ASSUME NEW tabs \in [Target -> Seq(ChatMessage)], NEW ms \in Seq(ChatMessage), NEW user \in UserId,
         NEW t \in Target, NEW i, NEW b, \A j \in DOMAIN ms : ms[j].body # b
  PROVE  HasBodyAt(ShowAll(tabs, ms, user)[t], i, b) => HasBodyAt(tabs[t], i, b)
<1> DEFINE f == CHOOSE g : IsShown(g, Len(ms), tabs, ms, user)
           At(s) == HasBodyAt(s[t], i, b)
           S == {n \in Nat : n <= Len(ms) =>
                   f[n] \in [Target -> Seq(ChatMessage)] /\ (At(f[n]) => At(tabs))}
<1>1. IsShown(f, Len(ms), tabs, ms, user)
  <2>1. Len(ms) \in Nat
    OBVIOUS
  <2>2. \E g : IsShown(g, Len(ms), tabs, ms, user)
    BY <2>1, ShownExists, Zenon
  <2> QED  BY <2>2, Zenon
<1>2. ShowAll(tabs, ms, user) = f[Len(ms)]
  BY Zenon DEF ShowAll, IsShown
<1> HIDE DEF f
<1>3. \A n \in 0 .. Len(ms) : f[n] = IF n = 0 THEN tabs ELSE Show(f[n - 1], ms[n], user)
  BY <1>1 DEF IsShown
<1>4. 0 \in S
  <2>1. Len(ms) \in Nat /\ 0 \in 0 .. Len(ms)
    OBVIOUS
  <2>2. f[0] = tabs
    BY <1>3, <2>1, Zenon
  <2> QED  BY <2>1, <2>2
<1>5. ASSUME NEW n \in Nat, n \in S
      PROVE  n + 1 \in S
  <2> SUFFICES ASSUME n + 1 <= Len(ms)
               PROVE  f[n + 1] \in [Target -> Seq(ChatMessage)] /\ (At(f[n + 1]) => At(tabs))
    OBVIOUS
  <2> DEFINE m == ms[n + 1]
  <2>1. /\ f[n] \in [Target -> Seq(ChatMessage)] /\ (At(f[n]) => At(tabs))
        /\ m \in ChatMessage /\ m.body # b
    BY <1>5
  <2>2. f[n + 1] = Show(f[n], m, user)
    <3>1. n + 1 \in 0 .. Len(ms) /\ n + 1 # 0 /\ (n + 1) - 1 = n
      OBVIOUS
    <3> QED  BY <1>3, <3>1, Zenon
  <2>3. f[n + 1] \in [Target -> Seq(ChatMessage)]
    BY <2>1, <2>2, ShowTypes
  <2>4. TabAdds(f[n], f[n + 1], t, m)
    BY <2>1, <2>2, ShowAdds
  <2>5. At(f[n + 1]) => At(f[n])
    BY <2>1, <2>4 DEF TabAdds, HasBodyAt
  <2> QED  BY <2>1, <2>3, <2>5
<1>6. \A n \in Nat : n \in S
  <2> HIDE DEF S
  <2> QED  BY <1>4, <1>5, EachNatural
<1>7. Len(ms) \in Nat
  OBVIOUS
<1> QED  BY <1>2, <1>6, <1>7

\* Whatever a message does to the page, it stays a page: its tabs hold chat
\* messages, and what the user can pick from it can be sent.
LEMMA ApplyTypes ==
  ASSUME NEW p \in Page, NEW m \in Delivered, NEW u \in UserId, ForPage(m)
  PROVE  Apply(p, m, u) \in Page
<1> USE DEF Page
<1>1. CASE m.type = "UsersList"
  <2>1. m.users \in SUBSET UserId
    BY <1>1 DEF Delivered, ServerMessage, ChatMessage, Error
  <2>2. Apply(p, m, u) = [p EXCEPT !.book = @ \cup m.users]
    BY <1>1 DEF Apply
  <2> QED  BY <2>1, <2>2
<1>2. CASE m.type = "GroupsList"
  <2>1. m.groups \in SUBSET GroupId
    BY <1>2 DEF Delivered, ServerMessage, ChatMessage, Error
  <2>2. Apply(p, m, u) = [p EXCEPT !.groups = m.groups]
    BY <1>2 DEF Apply
  <2> QED  BY <2>1, <2>2
<1>3. CASE m.type = "NewMessage"
  <2>1. m \in ChatMessage
    BY <1>3 DEF Delivered, ServerMessage, ChatMessage, Error
  <2>2. Apply(p, m, u) = [p EXCEPT !.tabs = Show(p.tabs, m, u)]
    BY <1>3 DEF Apply
  <2>3. Show(p.tabs, m, u) \in [Target -> Seq(ChatMessage)]
    BY <2>1, ShowTypes
  <2> QED  BY <2>2, <2>3
<1>4. CASE m.type = "SyncBatch"
  <2>1. m.batch \in Seq(ChatMessage)
    BY <1>4 DEF Delivered, ServerMessage, ChatMessage, Error
  <2>2. Apply(p, m, u) = [p EXCEPT !.tabs = ShowAll(p.tabs, m.batch, u)]
    BY <1>4 DEF Apply
  <2>3. ShowAll(p.tabs, m.batch, u) \in [Target -> Seq(ChatMessage)]
    BY <2>1, ShowAllTypes
  <2> QED  BY <2>2, <2>3
<1>5. CASE m.type = "Presence"
  <2>1. m.user \in UserId /\ m.online \in BOOLEAN
    BY <1>5 DEF Delivered, ServerMessage, ChatMessage, Error
  <2>2. Apply(p, m, u) = [p EXCEPT !.presence = [p.presence EXCEPT ![m.user] = m.online]]
    BY <1>5 DEF Apply
  <2>3. [p.presence EXCEPT ![m.user] = m.online] \in [UserId -> BOOLEAN]
    BY <2>1
  <2> QED  BY <2>2, <2>3
<1>6. CASE m.type \in {"GroupCreated", "AddedToGroup", "GroupInfo"}
  <2>1. m.group \in GroupId
    BY <1>6 DEF Delivered, ServerMessage, ChatMessage, Error
  <2>2. Apply(p, m, u) = [p EXCEPT !.groups = @ \cup {m.group}]
    BY <1>6 DEF Apply
  <2> QED  BY <2>1, <2>2
<1>7. CASE m.type = "GroupMembersList"
  <2>1. m.group \in GroupId /\ m.users \in SUBSET UserId
    BY <1>7 DEF Delivered, ServerMessage, ChatMessage, Error
  <2>2. Apply(p, m, u) = [p EXCEPT !.rosters = [p.rosters EXCEPT ![m.group] = m.users]]
    BY <1>7 DEF Apply
  <2>3. [p.rosters EXCEPT ![m.group] = m.users] \in [GroupId -> SUBSET UserId]
    BY <2>1
  <2> QED  BY <2>2, <2>3
<1>8. m.type \in {"UsersList", "GroupsList", "NewMessage", "SyncBatch", "Presence",
                  "GroupCreated", "AddedToGroup", "GroupInfo", "GroupMembersList"}
  BY DEF Delivered, ServerMessage, ChatMessage, ForPage, Error
<1> QED  BY <1>1, <1>2, <1>3, <1>4, <1>5, <1>6, <1>7, <1>8

\* The page as each message of a sequence comes in.
IsApplied(f, m, start, ms, user) ==
  f = [n \in 0 .. m |->
         IF n = 0 THEN start
         ELSE IF ForPage(ms[n]) THEN Apply(f[n - 1], ms[n], user) ELSE f[n - 1]]

LEMMA AppliedExists ==
  ASSUME NEW start, NEW ms, NEW user
  PROVE  \A m \in Nat : \E f : IsApplied(f, m, start, ms, user)
<1> DEFINE S == {m \in Nat : \E f : IsApplied(f, m, start, ms, user)}
<1>1. 0 \in S
  <2>1. IsApplied([n \in 0 .. 0 |-> start], 0, start, ms, user)
    BY DEF IsApplied
  <2> QED  BY <2>1
<1>2. ASSUME NEW m \in Nat, m \in S
      PROVE  m + 1 \in S
  <2>1. PICK f : IsApplied(f, m, start, ms, user)
    BY <1>2
  <2> DEFINE After(n, last) == IF ForPage(ms[n]) THEN Apply(last, ms[n], user) ELSE last
             g == [n \in 0 .. m + 1 |-> IF n = m + 1 THEN After(m + 1, f[m]) ELSE f[n]]
  <2>2. \A n \in 0 .. m : f[n] = IF n = 0 THEN start ELSE After(n, f[n - 1])
    BY <2>1 DEF IsApplied
  <2>3. ASSUME NEW n \in 0 .. m + 1
        PROVE  g[n] = IF n = 0 THEN start ELSE After(n, g[n - 1])
    <3> HIDE DEF After
    <3>1. CASE n = m + 1
      <4>1. n # 0 /\ n - 1 = m /\ m \in 0 .. m + 1 /\ m # m + 1
        BY <3>1
      <4>2. g[m] = f[m]
        BY <4>1
      <4> QED  BY <3>1, <4>1, <4>2
    <3>2. CASE n \in 0 .. m
      <4>1. g[n] = f[n] /\ (n # 0 => g[n - 1] = f[n - 1])
        BY <3>2
      <4> QED  BY <2>2, <3>2, <4>1
    <3> QED  BY <3>1, <3>2
  <2>4. IsApplied(g, m + 1, start, ms, user)
    <3>1. g = [n \in 0 .. m + 1 |-> g[n]]
      OBVIOUS
    <3> HIDE DEF g
    <3> QED  BY <2>3, <3>1, Zenon DEF IsApplied
  <2> QED  BY <2>4
<1>3. \A m \in Nat : m \in S
  <2> HIDE DEF S
  <2> QED  BY <1>1, <1>2, EachNatural
<1> QED  BY <1>3

\* The pages of a sequence are the pages of whatever begins with it.
LEMMA AppliedAgree ==
  ASSUME NEW k \in Nat, NEW l \in Nat, NEW start, NEW ms, NEW more, NEW user, NEW f, NEW g,
         k <= l, \A n \in 1 .. k : more[n] = ms[n],
         IsApplied(f, k, start, ms, user), IsApplied(g, l, start, more, user)
  PROVE  \A n \in 0 .. k : g[n] = f[n]
<1> DEFINE S == {n \in Nat : n <= k => g[n] = f[n]}
<1>1. \A n \in 0 .. k :
        f[n] = IF n = 0 THEN start
               ELSE IF ForPage(ms[n]) THEN Apply(f[n - 1], ms[n], user) ELSE f[n - 1]
  BY DEF IsApplied
<1>2. \A n \in 0 .. l :
        g[n] = IF n = 0 THEN start
               ELSE IF ForPage(more[n]) THEN Apply(g[n - 1], more[n], user) ELSE g[n - 1]
  BY DEF IsApplied
<1>3. 0 \in S
  BY <1>1, <1>2
<1>4. ASSUME NEW n \in Nat, n \in S
      PROVE  n + 1 \in S
  <2> SUFFICES ASSUME n + 1 <= k
               PROVE  g[n + 1] = f[n + 1]
    OBVIOUS
  <2>1. n + 1 \in 0 .. k /\ n + 1 \in 0 .. l /\ n + 1 # 0 /\ (n + 1) - 1 = n /\ n + 1 \in 1 .. k
    OBVIOUS
  <2>2. g[n] = f[n] /\ more[n + 1] = ms[n + 1]
    BY <1>4, <2>1
  <2> QED  BY <1>1, <1>2, <2>1, <2>2
<1>5. \A n \in Nat : n \in S
  <2> HIDE DEF S
  <2> QED  BY <1>3, <1>4, EachNatural
<1> QED  BY <1>5

LEMMA AppliedIs ==
  ASSUME NEW S, NEW ms \in Seq(S), NEW start, NEW user
  PROVE  \E f : IsApplied(f, Len(ms), start, ms, user) /\ ApplyAll(start, ms, user) = f[Len(ms)]
<1> DEFINE f == CHOOSE g : IsApplied(g, Len(ms), start, ms, user)
<1>1. Len(ms) \in Nat
  OBVIOUS
<1>2. \E g : IsApplied(g, Len(ms), start, ms, user)
  BY <1>1, AppliedExists, Zenon
<1>3. IsApplied(f, Len(ms), start, ms, user)
  BY <1>2, Zenon
<1>4. ApplyAll(start, ms, user) = f[Len(ms)]
  BY Zenon DEF ApplyAll, IsApplied
<1> QED  BY <1>3, <1>4, Zenon

LEMMA ApplyNone ==
  ASSUME NEW start, NEW user
  PROVE  ApplyAll(start, <<>>, user) = start
<1>1. <<>> \in Seq({}) /\ Len(<<>>) = 0
  OBVIOUS
<1>2. PICK f : IsApplied(f, 0, start, <<>>, user) /\ ApplyAll(start, <<>>, user) = f[0]
  BY <1>1, AppliedIs
<1>3. f[0] = start
  BY <1>2 DEF IsApplied
<1> QED  BY <1>2, <1>3

\* A message more is applied to the page the ones before it made.
LEMMA ApplyOneMore ==
  ASSUME NEW S, NEW ms \in Seq(S), NEW m \in S, NEW start, NEW user
  PROVE  ApplyAll(start, Append(ms, m), user) =
           IF ForPage(m) THEN Apply(ApplyAll(start, ms, user), m, user)
           ELSE ApplyAll(start, ms, user)
<1> DEFINE more == Append(ms, m)
<1>1. /\ more \in Seq(S) /\ Len(ms) \in Nat /\ Len(more) = Len(ms) + 1
      /\ (\A n \in 1 .. Len(ms) : more[n] = ms[n]) /\ more[Len(ms) + 1] = m
  BY Added
<1> HIDE DEF more
<1>2. PICK f : IsApplied(f, Len(ms), start, ms, user) /\ ApplyAll(start, ms, user) = f[Len(ms)]
  BY AppliedIs
<1>3. PICK g : IsApplied(g, Len(more), start, more, user) /\ ApplyAll(start, more, user) = g[Len(more)]
  BY <1>1, AppliedIs
<1>4. g[Len(ms)] = f[Len(ms)]
  <2>1. Len(ms) \in Nat /\ Len(more) \in Nat /\ Len(ms) <= Len(more) /\ Len(ms) \in 0 .. Len(ms)
    BY <1>1
  <2>2. \A n \in 0 .. Len(ms) : g[n] = f[n]
    BY <1>1, <1>2, <1>3, <2>1, AppliedAgree
  <2> QED  BY <2>1, <2>2
<1>5. g[Len(ms) + 1] = IF ForPage(m) THEN Apply(g[Len(ms)], m, user) ELSE g[Len(ms)]
  <2>1. \A n \in 0 .. Len(ms) + 1 :
          g[n] = IF n = 0 THEN start
                 ELSE IF ForPage(more[n]) THEN Apply(g[n - 1], more[n], user) ELSE g[n - 1]
    BY <1>1, <1>3 DEF IsApplied
  <2>2. Len(ms) + 1 \in 0 .. Len(ms) + 1 /\ Len(ms) + 1 # 0 /\ (Len(ms) + 1) - 1 = Len(ms)
    BY <1>1
  <2> QED  BY <1>1, <2>1, <2>2
<1> QED  BY <1>1, <1>2, <1>3, <1>4, <1>5 DEF more

-----------------------------------------------------------------------------
(* Where the login is, from what a step asks.                              *)

LEMMA Lengths ==
  ASSUME ClientTypes
  PROVE  /\ Len(cmds) \in Nat /\ DOMAIN cmds = 1 .. Len(cmds) /\ (cmds = <<>> <=> Len(cmds) = 0)
         /\ Len(inbox) \in Nat /\ DOMAIN inbox = 1 .. Len(inbox) /\ (inbox = <<>> <=> Len(inbox) = 0)
         /\ Len(sent) \in Nat /\ DOMAIN sent = 1 .. Len(sent) /\ (sent = <<>> <=> Len(sent) = 0)
         /\ Len(down) \in Nat /\ DOMAIN down = 1 .. Len(down) /\ (down = <<>> <=> Len(down) = 0)
         /\ Len(asked) \in Nat /\ DOMAIN asked = 1 .. Len(asked) /\ (asked = <<>> <=> Len(asked) = 0)
         /\ Len(modals) \in Nat /\ DOMAIN modals = 1 .. Len(modals) /\ (modals = <<>> <=> Len(modals) = 0)
BY Empty DEF ClientTypes

\* A Connect that the network thread takes is the last command there is.
LEMMA ConnectIsLast ==
  ASSUME ClientInv, net = "waiting", NextIs("Connect")
  PROVE  /\ state = Connecting /\ inbox = <<>>
         /\ Head(cmds) = cmds[1] /\ Head(cmds) \in Command /\ Tail(cmds) = <<>>
         /\ IsConnect(cmds[1]) /\ cmds[1].login = logins /\ ~IsSync(cmds[1])
<1> USE DEF ClientInv
<1>1. cmds \in Seq(Command) /\ cmds # <<>> /\ Head(cmds) = cmds[1] /\ 1 \in DOMAIN cmds /\ Head(cmds) \in Command
  BY Taken DEF NextIs, ClientTypes
<1>2. IsConnect(cmds[1]) /\ ~NoConnect
  BY <1>1 DEF NextIs, IsConnect, NoConnect
<1>3. Asked
  BY <1>2 DEF OnePlace, AtRest, Tried, Over, Engaged
<1>4. Len(cmds) = 1
  BY <1>1, <1>2, <1>3 DEF Asked, LastConnects
<1>5. Tail(cmds) = <<>>
  <2>1. Tail(cmds) \in Seq(Command) /\ Len(Tail(cmds)) = 0
    BY <1>1, <1>4, Taken
  <2> QED  BY <2>1, Empty
<1> QED  BY <1>1, <1>2, <1>3, <1>4, <1>5 DEF Asked, LastConnects

LEMMA EngagedIsTried ==
  ASSUME ClientInv, Engaged
  PROVE  Tried
BY DEF ClientInv, OnePlace, AtRest, Asked, Over

\* Another Send of the login at hand disturbs nothing outside Connecting.
LEMMA IssueKeeps ==
  ASSUME ClientInv, state # Connecting, NEW m \in ClientMessage, m # Sync(0), Issue(m),
         UNCHANGED <<inbox, net, auth, sent, down, peer, state, logins>>
  PROVE  cmds' \in Seq(Command) /\ OnePlace' /\ SyncSoon'
<1> USE DEF ClientInv, Issue
<1>1. /\ Send(m, logins) \in Command /\ ~IsConnect(Send(m, logins)) /\ ~IsSync(Send(m, logins))
      /\ Send(m, logins).login = logins
  BY SendTypes DEF ClientTypes, IsSync
<1>2. /\ cmds' \in Seq(Command) /\ cmds' # <<>>
      /\ Len(cmds) \in Nat /\ DOMAIN cmds = 1 .. Len(cmds) /\ DOMAIN cmds' = 1 .. Len(cmds) + 1
      /\ (\A i \in 1 .. Len(cmds) : cmds'[i] = cmds[i]) /\ cmds'[Len(cmds) + 1] = Send(m, logins)
  <2>1. cmds \in Seq(Command) /\ cmds' = Append(cmds, Send(m, logins))
    BY DEF ClientTypes
  <2> QED  BY <1>1, <2>1, Added
<1>3. NoConnect => NoConnect'
  BY <1>1, <1>2 DEF NoConnect, IsConnect
<1>4. OwnSends => OwnSends'
  BY <1>1, <1>2 DEF OwnSends, IsConnect
<1>5. OnePlace'
  BY <1>3, <1>4 DEF OnePlace, AtRest, Asked, Tried, Over, Engaged, NoErrorIn, LastIsError
<1>6. ASSUME Chatty
      PROVE  Chatty'
  <2>1. SyncFirst' /\ NoWelcomeIn(inbox') /\ NoWelcomeIn(down')
    BY <1>6 DEF Chatty, SyncFirst, NoWelcomeIn
  <2>2. CASE Len(sent) = 1
    <3>1. cmds # <<>> /\ Len(cmds) > 0 /\ \A i \in DOMAIN cmds : IsSync(cmds[i]) <=> i = 1
      BY <1>2, <1>6, <2>2, Lengths DEF Chatty
    <3>2. \A i \in DOMAIN cmds' : IsSync(cmds'[i]) <=> i = 1
      BY <1>1, <1>2, <3>1 DEF IsSync
    <3> QED  BY <1>2, <1>6, <2>1, <2>2, <3>2 DEF Chatty
  <2>3. CASE Len(sent) # 1
    <3>1. \A i \in DOMAIN cmds' : ~IsSync(cmds'[i])
      BY <1>1, <1>2, <1>6, <2>3 DEF Chatty, IsSync
    <3> QED  BY <1>6, <2>1, <2>3, <3>1 DEF Chatty
  <2> QED  BY <2>2, <2>3
<1>7. SyncSoon'
  BY <1>6 DEF SyncSoon, Linked, Unanswered, Answered, Welcomed, Introduced
<1> QED  BY <1>2, <1>5, <1>7

\* Error modals go to the list of modals, and modals of the page as they were asked.
LEMMA ReceivedTypes ==
  ASSUME ClientTypes
  PROVE  /\ Received \in Seq(Modal) /\ Len(modals) <= Len(Received)
         /\ (asked = <<>> /\ modals \in Seq({ErrorModal})) => Received \in Seq({ErrorModal})
<1> DEFINE shown == IF errors = <<>> THEN <<>> ELSE <<ErrorModal>>
           more  == IF asked = <<>> THEN <<>> ELSE <<Head(asked)>>
<1>1. shown \in Seq({ErrorModal}) /\ shown \in Seq(Modal)
  BY DEF Modal
<1>2. more \in Seq(Modal) /\ (asked = <<>> => more \in Seq({ErrorModal}))
  BY Taken DEF ClientTypes
<1>3. modals \in Seq(Modal)
  BY DEF ClientTypes
<1>4. Received = (modals \o shown) \o more
  BY DEF Received
<1> HIDE DEF shown, more
<1>5. (modals \o shown) \in Seq(Modal) /\ Len(modals \o shown) = Len(modals) + Len(shown)
  BY <1>1, <1>3
<1>6. Received \in Seq(Modal) /\ Len(Received) = Len(modals) + Len(shown) + Len(more)
  BY <1>2, <1>4, <1>5
<1>7. Len(modals) <= Len(Received)
  BY <1>1, <1>2, <1>3, <1>6
<1>8. ASSUME asked = <<>>, modals \in Seq({ErrorModal})
      PROVE  Received \in Seq({ErrorModal})
  <2>1. (modals \o shown) \in Seq({ErrorModal})
    BY <1>1, <1>8
  <2> QED  BY <1>2, <1>4, <1>8, <2>1
<1> QED  BY <1>6, <1>7, <1>8


-----------------------------------------------------------------------------
(* The network thread.                                                     *)

LEMMA TakeConnectStep ==
  ASSUME ClientInv, TakeConnect, UNCHANGED uiVars
  PROVE  ClientInv'
<1> USE DEF ClientInv, TakeConnect, uiVars, netVars, linkVars, NextIs, Drop
<1>a. /\ state = Connecting /\ inbox = <<>> /\ auth' = cmds[1] /\ cmds' = <<>>
      /\ IsConnect(cmds[1]) /\ cmds[1].login = logins /\ ~IsSync(cmds[1])
  BY ConnectIsLast
<1>b. sent = <<>> /\ down = <<>> /\ peer = "none"
  BY DEF HeldIsOwn, Linked
<1>c. DOMAIN cmds' = {} /\ DOMAIN inbox' = {} /\ DOMAIN sent' = {} /\ DOMAIN down' = {}
  BY <1>a, <1>b
<1>1. ClientTypes'
  BY DEF ClientTypes, NetState, PeerState
<1>2. OnePlace'
  <2>1. Tried'
    BY <1>a, <1>c DEF Tried, Engaged, OwnSends, NoErrorIn, Connecting, OnAuth
  <2> QED  BY <2>1 DEF OnePlace
<1>3. HeldIsOwn'
  BY <1>a, <1>b, <1>c DEF HeldIsOwn, Linked, IsConnect, IsSync
<1>4. ModalsAreOld'
  BY DEF ModalsAreOld, ClientTypes
<1>5. SyncSoon'
  <2>1. Introduced'
    BY <1>a, <1>b DEF Introduced
  <2> QED  BY <1>a, <1>b, <1>c, <2>1 DEF SyncSoon, Unanswered, NoWelcomeIn
<1>6. NoLostWakeup'
  BY DEF NoLostWakeup, ClientTypes
<1> QED  BY <1>1, <1>2, <1>3, <1>4, <1>5, <1>6

LEMMA RefuseStep ==
  ASSUME ClientInv, Refuse, UNCHANGED uiVars
  PROVE  ClientInv'
<1> USE DEF ClientInv, Refuse, uiVars, netVars, linkVars, NextIs, Drop
<1>a. /\ cmds # <<>> /\ ~IsConnect(cmds[1]) /\ Len(cmds) \in Nat \ {0}
      /\ DOMAIN cmds = 1 .. Len(cmds) /\ DOMAIN cmds' = 1 .. Len(cmds) - 1 /\ Len(cmds') = Len(cmds) - 1
      /\ \A i \in 1 .. Len(cmds) - 1 : cmds'[i] = cmds[i + 1]
  BY Taken DEF ClientTypes, IsConnect
<1>1. ClientTypes'
  <2>1. errors' \in Seq({"Server", "TriedSendWhileDisconnected"})
    BY Added DEF ClientTypes
  <2>2. cmds' \in Seq(Command)
    BY Taken DEF ClientTypes
  <2> QED  BY <2>1, <2>2 DEF ClientTypes
<1>2. OnePlace'
  <2>1. CASE AtRest
    <3>1. AtRest'
      BY <1>a, <2>1 DEF AtRest, NoConnect, Engaged, IsConnect
    <3> QED  BY <3>1 DEF OnePlace
  <2>2. CASE Asked
    <3>1. Len(cmds) > 1
      BY <1>a, <2>2 DEF Asked, LastConnects
    <3>2. cmds' # <<>>
      BY <1>a, <3>1
    <3>3. \A i \in DOMAIN cmds' : IsConnect(cmds'[i]) <=> i = Len(cmds')
      BY <1>a, <2>2, <3>1 DEF Asked, LastConnects, IsConnect
    <3>4. cmds'[Len(cmds')] = cmds[Len(cmds)]
      BY <1>a, <3>1
    <3>5. LastConnects'
      BY <2>2, <3>2, <3>3, <3>4 DEF Asked, LastConnects, IsConnect, IsSync
    <3>6. Asked'
      BY <2>2, <3>5 DEF Asked, Engaged
    <3> QED  BY <3>6 DEF OnePlace
  <2>3. CASE Over
    <3>1. Over'
      BY <1>a, <2>3 DEF Over, NoConnect, LastIsError, Engaged, IsConnect
    <3> QED  BY <3>1 DEF OnePlace
  <2> QED  BY <2>1, <2>2, <2>3 DEF OnePlace, Tried, Engaged
<1>3. HeldIsOwn'
  BY DEF HeldIsOwn, Linked, IsConnect, IsSync, ClientTypes
<1>4. ModalsAreOld'
  BY DEF ModalsAreOld, ClientTypes
<1>5. SyncSoon'
  BY DEF SyncSoon, Linked, Unanswered, Answered, Welcomed, Chatty, Introduced, NoWelcomeIn, WelcomeFirst, IsWelcome, SyncFirst, IsConnect, IsSync, ClientTypes
<1>6. NoLostWakeup'
  BY DEF NoLostWakeup, ClientTypes
<1> QED  BY <1>1, <1>2, <1>3, <1>4, <1>5, <1>6

LEMMA DialStep ==
  ASSUME ClientInv, Dial, UNCHANGED uiVars
  PROVE  ClientInv'
<1> USE DEF ClientInv, Dial, uiVars, netVars, linkVars, NextIs, Drop
<1>a. Unanswered
  <2>1. sent = <<>>
    BY DEF HeldIsOwn
  <2> QED  BY <2>1 DEF SyncSoon, Answered, Welcomed, Chatty
<1>1. ClientTypes'
  BY DEF ClientTypes, NetState, PeerState
<1>2. OnePlace'
  BY DEF OnePlace, AtRest, Asked, Tried, Over, NoConnect, LastConnects, OwnSends, NoErrorIn, LastIsError, Engaged, IsConnect, IsSync, ClientTypes
<1>3. HeldIsOwn'
  BY DEF HeldIsOwn, Linked, IsConnect, IsSync, ClientTypes
<1>4. ModalsAreOld'
  BY DEF ModalsAreOld, ClientTypes
<1>5. SyncSoon'
  <2>1. Introduced'
    BY <1>a DEF Unanswered, Introduced
  <2> QED  BY <1>a, <2>1 DEF SyncSoon, Unanswered, NoWelcomeIn
<1>6. NoLostWakeup'
  BY DEF NoLostWakeup, ClientTypes
<1> QED  BY <1>1, <1>2, <1>3, <1>4, <1>5, <1>6

LEMMA WriteAuthStep ==
  ASSUME ClientInv, WriteAuth, UNCHANGED uiVars
  PROVE  ClientInv'
<1> USE DEF ClientInv, WriteAuth, uiVars, netVars, linkVars, NextIs, Drop
<1>a. Unanswered
  <2>1. sent = <<>>
    BY DEF HeldIsOwn
  <2> QED  BY <2>1 DEF SyncSoon, Linked, Answered, Welcomed, Chatty
<1>b. auth \in Command /\ IsConnect(auth) /\ ~IsSync(auth)
  BY DEF HeldIsOwn, ClientTypes
<1>1. ClientTypes'
  BY DEF ClientTypes, NetState, PeerState
<1>2. OnePlace'
  BY DEF OnePlace, AtRest, Asked, Tried, Over, NoConnect, LastConnects, OwnSends, NoErrorIn, LastIsError, Engaged, IsConnect, IsSync, ClientTypes
<1>3. HeldIsOwn'
  BY DEF HeldIsOwn, Linked, IsConnect, IsSync, ClientTypes
<1>4. ModalsAreOld'
  BY DEF ModalsAreOld, ClientTypes
<1>5. SyncSoon'
  <2>1. Introduced'
    BY <1>a, <1>b DEF Unanswered, Introduced, IsConnect, IsSync
  <2> QED  BY <1>a, <2>1 DEF SyncSoon, Unanswered, NoWelcomeIn
<1>6. NoLostWakeup'
  BY DEF NoLostWakeup, ClientTypes
<1> QED  BY <1>1, <1>2, <1>3, <1>4, <1>5, <1>6

LEMMA WriteStep ==
  ASSUME ClientInv, Write, UNCHANGED uiVars
  PROVE  ClientInv'
<1> USE DEF ClientInv, Write, uiVars, netVars, linkVars, NextIs, Drop
<1>a. /\ cmds # <<>> /\ ~IsConnect(cmds[1]) /\ Head(cmds) = cmds[1] /\ Len(cmds) \in Nat \ {0}
      /\ DOMAIN cmds = 1 .. Len(cmds) /\ DOMAIN cmds' = 1 .. Len(cmds) - 1 /\ Len(cmds') = Len(cmds) - 1
      /\ \A i \in 1 .. Len(cmds) - 1 : cmds'[i] = cmds[i + 1]
  BY Taken DEF ClientTypes, IsConnect
<1>b. /\ Len(sent) \in Nat /\ DOMAIN sent = 1 .. Len(sent) /\ DOMAIN sent' = 1 .. Len(sent) + 1
      /\ Len(sent') = Len(sent) + 1 /\ sent' # <<>>
      /\ (\A i \in 1 .. Len(sent) : sent'[i] = sent[i]) /\ sent'[Len(sent) + 1] = cmds[1]
  <2>1. sent \in Seq(Command) /\ cmds[1] \in Command /\ sent' = Append(sent, cmds[1])
    BY <1>a, Taken DEF ClientTypes
  <2> QED  BY <2>1, Added
<1>c. Tried
  BY EngagedIsTried DEF Engaged
<1>1. ClientTypes'
  BY DEF ClientTypes, NetState, PeerState
<1>2. OnePlace'
  BY DEF OnePlace, AtRest, Asked, Tried, Over, NoConnect, LastConnects, OwnSends, NoErrorIn, LastIsError, Engaged, IsConnect, IsSync, ClientTypes
<1>3. HeldIsOwn'
  <2>1. cmds[1].login = logins
    BY <1>a, <1>c DEF Tried, OwnSends
  <2>2. \A i \in DOMAIN sent' : sent'[i].login = logins
    BY <1>b, <2>1 DEF HeldIsOwn
  <2> QED  BY <1>b, <2>2 DEF HeldIsOwn, Linked
<1>4. ModalsAreOld'
  BY DEF ModalsAreOld, ClientTypes
<1>5. SyncSoon'
  <2>1. Chatty
    BY <1>a DEF SyncSoon, Linked, Unanswered, Answered, Welcomed, Introduced
  <2>2. Len(sent) > 0 /\ SyncFirst
    BY <1>b, <2>1 DEF Chatty
  <2>3. IsSync(cmds[1]) <=> Len(sent) = 1
    BY <1>a, <2>1 DEF Chatty
  <2>4. SyncFirst'
    BY <1>a, <1>b, <2>2, <2>3 DEF SyncFirst, IsSync, IsConnect
  <2>5. \A i \in DOMAIN cmds' : ~IsSync(cmds'[i])
    BY <1>a, <2>1 DEF Chatty, IsSync
  <2>6. Chatty'
    BY <1>b, <2>1, <2>2, <2>4, <2>5 DEF Chatty, NoWelcomeIn
  <2> QED  BY <2>6 DEF SyncSoon
<1>6. NoLostWakeup'
  BY DEF NoLostWakeup, ClientTypes
<1> QED  BY <1>1, <1>2, <1>3, <1>4, <1>5, <1>6

LEMMA IgnoreConnectStep ==
  ASSUME ClientInv, IgnoreConnect, UNCHANGED uiVars
  PROVE  ClientInv'
<1> USE DEF ClientInv, IgnoreConnect, uiVars, netVars, linkVars, NextIs, Drop
<1>a. FALSE
  <2>1. cmds[1] = Head(cmds) /\ 1 \in DOMAIN cmds
    BY Taken DEF ClientTypes
  <2> QED  BY <2>1, EngagedIsTried DEF Engaged, Tried, OwnSends, IsConnect
<1>1. ClientTypes'
  BY <1>a
<1>2. OnePlace'
  BY <1>a
<1>3. HeldIsOwn'
  BY <1>a
<1>4. ModalsAreOld'
  BY <1>a
<1>5. SyncSoon'
  BY <1>a
<1>6. NoLostWakeup'
  BY <1>a
<1> QED  BY <1>1, <1>2, <1>3, <1>4, <1>5, <1>6

LEMMA ReceiveStep ==
  ASSUME ClientInv, Receive, UNCHANGED uiVars
  PROVE  ClientInv'
<1> USE DEF ClientInv, Receive, uiVars, netVars, linkVars, NextIs, Drop
<1>a. /\ Head(down) = down[1] /\ Len(down) \in Nat \ {0} /\ DOMAIN down = 1 .. Len(down)
      /\ Head(down) \in ServerMessage /\ Tail(down) \in Seq(ServerMessage)
      /\ Len(Tail(down)) = Len(down) - 1 /\ DOMAIN Tail(down) = 1 .. Len(down) - 1
      /\ \A i \in 1 .. Len(down) - 1 : Tail(down)[i] = down[i + 1]
  BY Taken DEF ClientTypes
<1>b. /\ inbox' \in Seq(Delivered) /\ inbox' # <<>> /\ Len(inbox') = Len(inbox) + 1
      /\ Len(inbox) \in Nat /\ DOMAIN inbox = 1 .. Len(inbox) /\ DOMAIN inbox' = 1 .. Len(inbox) + 1
      /\ (inbox = <<>> <=> Len(inbox) = 0)
      /\ (\A i \in 1 .. Len(inbox) : inbox'[i] = inbox[i]) /\ inbox'[Len(inbox) + 1] = down[1]
  <2>1. inbox \in Seq(Delivered) /\ down[1] \in Delivered /\ inbox' = Append(inbox, down[1])
    BY <1>a DEF ClientTypes, Delivered
  <2> QED  BY <2>1, Added, Empty
<1>1. ClientTypes'
  <2>1. inbox' \in Seq(ServerMessage \cup {Error("BadRequest")})
    BY <1>b DEF Delivered
  <2>2. net' \in NetState /\ peer' \in PeerState
    BY DEF NetState, PeerState, ClientTypes
  <2>4. sent' \in {sent, <<>>} /\ down' \in {Tail(down), <<>>}
    BY <1>a
  <2>5. sent \in Seq(Command) /\ <<>> \in Seq(Command) /\ <<>> \in Seq(ServerMessage)
    BY DEF ClientTypes
  <2>6. sent' \in Seq(Command) /\ down' \in Seq(ServerMessage)
    BY <1>a, <2>4, <2>5
  <2>3. net' \notin {"dialing", "opened"}
    OBVIOUS
  <2> QED  BY <2>1, <2>2, <2>3, <2>6 DEF ClientTypes
<1>2. OnePlace'
  <2>1. Tried
    BY EngagedIsTried DEF Engaged
  <2>3. CASE down[1].type = "Error"
    <3>1. net' = "closing"
      BY <1>a, <2>3
    <3>2. LastIsError'
      BY <1>b, <2>1, <2>3 DEF Tried, NoErrorIn, LastIsError
    <3>3. Over'
      BY <2>1, <3>1, <3>2 DEF Tried, Over, Engaged, OwnSends, NoConnect
    <3> QED  BY <3>3 DEF OnePlace
  <2>4. CASE down[1].type # "Error"
    <3>1. net' = "delivering"
      BY <1>a, <2>4
    <3>2. NoErrorIn(inbox')
      BY <1>b, <2>1, <2>4 DEF Tried, NoErrorIn
    <3>3. Tried'
      BY <2>1, <3>1, <3>2 DEF Tried, Engaged, OwnSends, NoErrorIn
    <3> QED  BY <3>3 DEF OnePlace
  <2> QED  BY <2>3, <2>4
<1>3. HeldIsOwn'
  BY DEF HeldIsOwn, Linked, IsConnect, IsSync, ClientTypes
<1>4. ModalsAreOld'
  BY DEF ModalsAreOld, ClientTypes
<1>5. SyncSoon'
  <2>1. CASE down[1].type = "Error"
    <3>1. net' = "closing"
      BY <1>a, <2>1
    <3> QED  BY <3>1 DEF SyncSoon, Linked
  <2> SUFFICES ASSUME down[1].type # "Error"
               PROVE  Unanswered' \/ Answered' \/ Welcomed' \/ Chatty'
    BY <2>1 DEF SyncSoon
  <2>2. /\ net' = "delivering" /\ down' = Tail(down) /\ peer' = peer /\ sent' = sent /\ cmds' = cmds
    BY <1>a
  <2>3. CASE Unanswered
    <3>1. 1 \in DOMAIN down
      BY <1>a
    <3> QED  BY <2>3, <3>1 DEF Unanswered
  <2>4. CASE Answered
    <3>1. Introduced'
      BY <2>2, <2>4 DEF Answered, Introduced
    <3>2. IsWelcome(down[1]) /\ inbox = <<>> /\ Len(inbox) = 0
      BY <1>a, <1>b, <2>4 DEF Answered, WelcomeFirst
    <3>3. WelcomeFirst(inbox')
      BY <1>b, <3>2 DEF WelcomeFirst
    <3>4. NoWelcomeIn(down')
      BY <1>a, <2>2, <2>4 DEF Answered, WelcomeFirst, NoWelcomeIn
    <3> QED  BY <2>2, <2>4, <3>1, <3>3, <3>4 DEF Answered, Welcomed, WelcomeFirst, NoWelcomeIn, IsWelcome
  <2>5. CASE Welcomed
    <3>1. Introduced'
      BY <2>2, <2>5 DEF Welcomed, Introduced
    <3>2. ~IsWelcome(down[1]) /\ Len(inbox) > 0
      BY <1>a, <1>b, <2>5 DEF Welcomed, WelcomeFirst, NoWelcomeIn
    <3>3. WelcomeFirst(inbox')
      BY <1>b, <2>5, <3>2 DEF Welcomed, WelcomeFirst
    <3>4. NoWelcomeIn(down')
      BY <1>a, <2>2, <2>5 DEF Welcomed, NoWelcomeIn
    <3> QED  BY <2>2, <2>5, <3>1, <3>3, <3>4 DEF Welcomed, WelcomeFirst, NoWelcomeIn, IsWelcome
  <2>6. CASE Chatty
    <3>1. ~IsWelcome(down[1])
      BY <1>a, <2>6 DEF Chatty, NoWelcomeIn
    <3>2. NoWelcomeIn(inbox')
      BY <1>b, <2>6, <3>1 DEF Chatty, NoWelcomeIn
    <3>3. NoWelcomeIn(down')
      BY <1>a, <2>2, <2>6 DEF Chatty, NoWelcomeIn
    <3> QED  BY <2>2, <2>6, <3>2, <3>3 DEF Chatty, NoWelcomeIn, SyncFirst, IsSync, IsWelcome
  <2> QED  BY <2>3, <2>4, <2>5, <2>6 DEF SyncSoon, Linked
<1>6. NoLostWakeup'
  BY DEF NoLostWakeup, ClientTypes
<1> QED  BY <1>1, <1>2, <1>3, <1>4, <1>5, <1>6

LEMMA FailStep ==
  ASSUME ClientInv, Fail, UNCHANGED uiVars
  PROVE  ClientInv'
<1> USE DEF ClientInv, Fail, uiVars, netVars, linkVars, NextIs, Drop
<1>a. cmds' = cmds \/ (cmds # <<>> /\ cmds' = Tail(cmds))
  OBVIOUS
<1>b. /\ cmds' \in Seq(Command)
      /\ cmds # <<>> => /\ DOMAIN cmds = 1 .. Len(cmds) /\ Len(cmds) \in Nat
                         /\ DOMAIN Tail(cmds) = 1 .. Len(cmds) - 1
                         /\ \A i \in 1 .. Len(cmds) - 1 : Tail(cmds)[i] = cmds[i + 1]
  <2>1. cmds \in Seq(Command)
    BY DEF ClientTypes
  <2>2. CASE cmds = <<>>
    BY <1>a, <2>1, <2>2
  <2>3. CASE cmds # <<>>
    <3> HIDE DEF Fail
    <3> QED  BY <1>a, <2>1, <2>3, Taken
  <2> QED  BY <2>2, <2>3
<1>1. ClientTypes'
  BY <1>b DEF ClientTypes, NetState, PeerState
<1>2. OnePlace'
  <2>1. Tried
    BY EngagedIsTried DEF Engaged
  <2>2. OwnSends'
    BY <1>a, <1>b, <2>1 DEF Tried, OwnSends, IsConnect
  <2>3. Tried'
    BY <2>1, <2>2 DEF Tried, Engaged, NoErrorIn
  <2> QED  BY <2>3 DEF OnePlace
<1>3. HeldIsOwn'
  BY DEF HeldIsOwn, Linked, IsConnect, IsSync, ClientTypes
<1>4. ModalsAreOld'
  BY DEF ModalsAreOld, ClientTypes
<1>5. SyncSoon'
  BY DEF SyncSoon, Linked, Unanswered, Answered, Welcomed, Chatty, Introduced, NoWelcomeIn, WelcomeFirst, IsWelcome, SyncFirst, IsConnect, IsSync, ClientTypes
<1>6. NoLostWakeup'
  BY DEF NoLostWakeup, ClientTypes
<1> QED  BY <1>1, <1>2, <1>3, <1>4, <1>5, <1>6

LEMMA EndOfStreamStep ==
  ASSUME ClientInv, EndOfStream, UNCHANGED uiVars
  PROVE  ClientInv'
<1> USE DEF ClientInv, EndOfStream, uiVars, netVars, linkVars, NextIs, Drop
<1>1. ClientTypes'
  BY DEF ClientTypes, NetState, PeerState
<1>2. OnePlace'
  BY DEF OnePlace, AtRest, Asked, Tried, Over, NoConnect, LastConnects, OwnSends, NoErrorIn, LastIsError, Engaged, IsConnect, IsSync, ClientTypes
<1>3. HeldIsOwn'
  BY DEF HeldIsOwn, Linked, IsConnect, IsSync, ClientTypes
<1>4. ModalsAreOld'
  BY DEF ModalsAreOld, ClientTypes
<1>5. SyncSoon'
  BY DEF SyncSoon, Linked, Unanswered, Answered, Welcomed, Chatty, Introduced, NoWelcomeIn, WelcomeFirst, IsWelcome, SyncFirst, IsConnect, IsSync, ClientTypes
<1>6. NoLostWakeup'
  BY DEF NoLostWakeup, ClientTypes
<1> QED  BY <1>1, <1>2, <1>3, <1>4, <1>5, <1>6

LEMMA ReportStep ==
  ASSUME ClientInv, Report, UNCHANGED uiVars
  PROVE  ClientInv'
<1> USE DEF ClientInv, Report, uiVars, netVars, linkVars, NextIs, Drop
<1>a. /\ inbox' \in Seq(Delivered) /\ inbox' # <<>>
      /\ Len(inbox) \in Nat /\ DOMAIN inbox = 1 .. Len(inbox) /\ DOMAIN inbox' = 1 .. Len(inbox) + 1
      /\ Len(inbox') = Len(inbox) + 1
      /\ (\A i \in 1 .. Len(inbox) : inbox'[i] = inbox[i])
      /\ inbox'[Len(inbox) + 1] = Error("BadRequest")
  <2>1. inbox \in Seq(Delivered) /\ Error("BadRequest") \in Delivered /\ inbox' = Append(inbox, Error("BadRequest"))
    BY DEF ClientTypes, Delivered
  <2> QED  BY <2>1, Added
<1>1. ClientTypes'
  BY DEF ClientTypes, NetState, PeerState
<1>2. OnePlace'
  <2>1. Tried
    BY EngagedIsTried DEF Engaged
  <2>2. LastIsError'
    BY <1>a, <2>1 DEF Tried, NoErrorIn, LastIsError, Error
  <2>3. Over'
    BY <2>1, <2>2 DEF Tried, Over, Engaged, OwnSends, NoConnect, IsConnect
  <2> QED  BY <2>3 DEF OnePlace
<1>3. HeldIsOwn'
  BY DEF HeldIsOwn, Linked, IsConnect, IsSync, ClientTypes
<1>4. ModalsAreOld'
  BY DEF ModalsAreOld, ClientTypes
<1>5. SyncSoon'
  BY DEF SyncSoon, Linked, Unanswered, Answered, Welcomed, Chatty, Introduced, NoWelcomeIn, WelcomeFirst, IsWelcome, SyncFirst, IsConnect, IsSync, ClientTypes
<1>6. NoLostWakeup'
  BY DEF NoLostWakeup, ClientTypes
<1> QED  BY <1>1, <1>2, <1>3, <1>4, <1>5, <1>6

LEMMA WakeStep ==
  ASSUME ClientInv, Wake, UNCHANGED uiVars
  PROVE  ClientInv'
<1> USE DEF ClientInv, Wake, uiVars, netVars, linkVars, NextIs, Drop
<1>1. ClientTypes'
  BY DEF ClientTypes, NetState, PeerState
<1>2. OnePlace'
  BY DEF OnePlace, AtRest, Asked, Tried, Over, NoConnect, LastConnects, OwnSends, NoErrorIn, LastIsError, Engaged, IsConnect, IsSync, ClientTypes
<1>3. HeldIsOwn'
  BY DEF HeldIsOwn, Linked, IsConnect, IsSync, ClientTypes
<1>4. ModalsAreOld'
  BY DEF ModalsAreOld, ClientTypes
<1>5. SyncSoon'
  BY DEF SyncSoon, Linked, Unanswered, Answered, Welcomed, Chatty, Introduced, NoWelcomeIn, WelcomeFirst, IsWelcome, SyncFirst, IsConnect, IsSync, ClientTypes
<1>6. NoLostWakeup'
  BY DEF NoLostWakeup, ClientTypes
<1> QED  BY <1>1, <1>2, <1>3, <1>4, <1>5, <1>6

-----------------------------------------------------------------------------
(* The UI thread.                                                          *)

LEMMA BeginStep ==
  ASSUME ClientInv, Begin
  PROVE  ClientInv'
<1> USE DEF ClientInv, Begin, netVars, linkVars
<1>1. ClientTypes'
  BY DEF ClientTypes, NetState, PeerState
<1>2. OnePlace'
  BY DEF OnePlace, AtRest, Asked, Tried, Over, NoConnect, LastConnects, OwnSends, NoErrorIn, LastIsError, Engaged, IsConnect, IsSync, ClientTypes
<1>3. HeldIsOwn'
  BY DEF HeldIsOwn, Linked, IsConnect, IsSync, ClientTypes
<1>4. ModalsAreOld'
  BY DEF ModalsAreOld, ClientTypes
<1>5. SyncSoon'
  BY DEF SyncSoon, Linked, Unanswered, Answered, Welcomed, Chatty, Introduced, NoWelcomeIn, WelcomeFirst, IsWelcome, SyncFirst, IsConnect, IsSync, ClientTypes
<1>6. NoLostWakeup'
  BY DEF NoLostWakeup, ClientTypes
<1> QED  BY <1>1, <1>2, <1>3, <1>4, <1>5, <1>6

LEMMA TakeMessageStep ==
  ASSUME ClientInv, TakeMessage
  PROVE  ClientInv'
<1> USE DEF ClientInv, TakeMessage, netVars, linkVars
<1>m. PICK m : m = Head(inbox)
  OBVIOUS
<1>a. /\ m = inbox[1] /\ m \in Delivered /\ inbox' \in Seq(Delivered)
      /\ Len(inbox) \in Nat \ {0} /\ DOMAIN inbox = 1 .. Len(inbox)
      /\ DOMAIN inbox' = 1 .. Len(inbox) - 1 /\ Len(inbox') = Len(inbox) - 1
      /\ \A i \in 1 .. Len(inbox) - 1 : inbox'[i] = inbox[i + 1]
  BY <1>m, Taken DEF ClientTypes, Delivered
<1>b. \/ m.type = "AuthSuccess" /\ OnAuthSuccess(m)
      \/ m.type = "Error" /\ OnError
      \/ ForPage(m) /\ OnOther(m)
  BY <1>m
<1>c. UNCHANGED <<awake, net, auth, sent, down, peer, active, asked, modals, ui, logins, inputs>>
  OBVIOUS
<1>d. (inbox' = <<>> <=> Len(inbox') = 0) /\ inbox # <<>> /\ ui = "draining"
  BY <1>a, Empty
<1>e. Send(Sync(0), logins) \in Command
  BY SyncTypes, SendTypes DEF ClientTypes
<1>f. m.type = "AuthSuccess" => m.user \in UserId
  BY <1>a DEF Delivered, ServerMessage, ChatMessage, Error
<1> HIDE DEF TakeMessage
<1>1. ClientTypes'
  <2>1. cmds' \in Seq(Command)
    <3>1. CASE OnAuthSuccess(m)
      <4>1. cmds' = Append(cmds, Send(Sync(0), logins))
        BY <3>1 DEF OnAuthSuccess, Issue
      <4> QED  BY <1>e, <4>1, Added DEF ClientTypes
    <3>2. CASE cmds' = cmds
      BY <3>2 DEF ClientTypes
    <3> QED  BY <1>b, <3>1, <3>2 DEF OnError, OnOther
  <2>2. errors' \in Seq({"Server", "TriedSendWhileDisconnected"})
    <3>1. CASE errors' = Append(errors, "Server")
      BY <3>1, Added DEF ClientTypes
    <3>2. CASE errors' = errors
      BY <3>2 DEF ClientTypes
    <3> QED  BY <1>b, <3>1, <3>2 DEF OnError, OnOther, OnAuthSuccess
  <2>3. state' \in AppState
    BY <1>b, <1>f DEF OnError, OnOther, OnAuthSuccess, AppState, InChat, ClientTypes
  <2>4. page' \in Page
    <3>1. page \in Page /\ state \in AppState
      BY DEF ClientTypes
    <3>2. CASE page' = page
      BY <3>1, <3>2
    <3>3. CASE ForPage(m) /\ state.at = "Chat" /\ page' = Apply(page, m, state.user)
      <4>1. state.user \in UserId
        BY <3>1, <3>3 DEF AppState, OnAuth, Connecting
      <4>2. Apply(page, m, state.user) \in Page
        BY <1>a, <3>1, <3>3, <4>1, ApplyTypes
      <4> QED  BY <3>3, <4>2
    <3> QED  BY <1>b, <3>2, <3>3 DEF OnError, OnOther, OnAuthSuccess
  <2>5. inbox' \in Seq(ServerMessage \cup {Error("BadRequest")})
    BY <1>a DEF Delivered
  <2> QED  BY <1>c, <2>1, <2>2, <2>3, <2>4, <2>5 DEF ClientTypes
<1>2. OnePlace'
  <2>1. Tried \/ Over
    BY <1>d DEF OnePlace, AtRest, Asked
  <2>2. CASE m.type = "AuthSuccess" /\ OnAuthSuccess(m)
    <3>1. state' # OnAuth
      BY <2>2 DEF OnAuthSuccess, InChat, OnAuth
    <3>2. /\ ~IsConnect(Send(Sync(0), logins)) /\ Send(Sync(0), logins).login = logins
      BY SyncTypes, SendTypes DEF ClientTypes
    <3>3. /\ Len(cmds) \in Nat /\ DOMAIN cmds = 1 .. Len(cmds) /\ DOMAIN cmds' = 1 .. Len(cmds) + 1
          /\ (\A i \in 1 .. Len(cmds) : cmds'[i] = cmds[i])
          /\ cmds'[Len(cmds) + 1] = Send(Sync(0), logins)
      BY <1>e, <2>2, Added DEF ClientTypes, OnAuthSuccess, Issue
    <3>4. CASE Tried
      <4>1. OwnSends'
        BY <1>c, <3>2, <3>3, <3>4 DEF Tried, OwnSends, IsConnect
      <4>2. NoErrorIn(inbox')
        BY <1>a, <3>4 DEF Tried, NoErrorIn
      <4>3. Tried'
        BY <1>c, <3>1, <3>4, <4>1, <4>2 DEF Tried, Engaged, NoErrorIn
      <4> QED  BY <4>3 DEF OnePlace
    <3>5. CASE Over
      <4>1. NoConnect'
        BY <3>2, <3>3, <3>5 DEF Over, NoConnect, IsConnect
      <4>2. Len(inbox) # 1
        BY <1>a, <2>2, <3>5 DEF Over, LastIsError
      <4>3. LastIsError'
        BY <1>a, <1>d, <3>5, <4>2 DEF Over, LastIsError
      <4>4. Over'
        BY <1>c, <3>1, <3>5, <4>1, <4>3 DEF Over, Engaged
      <4> QED  BY <4>4 DEF OnePlace
    <3> QED  BY <2>1, <3>4, <3>5
  <2>3. CASE m.type = "Error" /\ OnError
    <3>1. Over /\ Len(inbox) = 1
      BY <1>a, <2>1, <2>3 DEF Tried, NoErrorIn, Over, LastIsError
    <3>2. AtRest'
      BY <1>a, <1>c, <1>d, <2>3, <3>1 DEF Over, AtRest, OnError, Engaged, NoConnect
    <3> QED  BY <3>2 DEF OnePlace
  <2>4. CASE ForPage(m) /\ OnOther(m)
    <3>1. CASE Tried
      <4>1. Tried'
        BY <1>a, <1>c, <2>4, <3>1 DEF Tried, OnOther, OwnSends, NoErrorIn, Engaged
      <4> QED  BY <4>1 DEF OnePlace
    <3>2. CASE Over
      <4>1. Len(inbox) # 1
        BY <1>a, <2>4, <3>2 DEF Over, LastIsError, ForPage
      <4>2. LastIsError'
        BY <1>a, <1>d, <3>2, <4>1 DEF Over, LastIsError
      <4>3. Over'
        BY <1>c, <2>4, <3>2, <4>2 DEF Over, OnOther, NoConnect, Engaged
      <4> QED  BY <4>3 DEF OnePlace
    <3> QED  BY <2>1, <3>1, <3>2
  <2> QED  BY <1>b, <2>2, <2>3, <2>4
<1>3. HeldIsOwn'
  BY <1>c DEF HeldIsOwn, Linked, IsConnect, IsSync
<1>4. ModalsAreOld'
  <2>1. asked' = <<>>
    BY <1>c, <1>d DEF ModalsAreOld
  <2>2. state' = Connecting => state = Connecting
    BY <1>b DEF OnAuthSuccess, OnError, OnOther, InChat, OnAuth, Connecting
  <2> QED  BY <1>c, <2>1, <2>2 DEF ModalsAreOld
<1>5. SyncSoon'
  <2> SUFFICES ASSUME Linked \/ net = "dialing"
               PROVE  Unanswered' \/ Answered' \/ Welcomed' \/ Chatty'
    BY <1>c DEF SyncSoon, Linked
  <2>1. Welcomed \/ Chatty
    BY <1>d DEF SyncSoon, Unanswered, Answered
  <2>2. Tried
    BY EngagedIsTried DEF Engaged, Linked
  <2>3. m.type # "Error"
    BY <1>a, <2>2 DEF Tried, NoErrorIn
  <2>4. CASE Welcomed
    <3>1. IsWelcome(m)
      BY <1>a, <2>4 DEF Welcomed, WelcomeFirst
    <3>2. OnAuthSuccess(m)
      BY <1>b, <3>1 DEF IsWelcome, ForPage
    <3>3. cmds' = Append(<<>>, Send(Sync(0), logins)) /\ state'.at = "Chat"
      BY <2>4, <3>2 DEF OnAuthSuccess, Issue, Welcomed, Introduced, InChat
    <3>4. cmds' # <<>> /\ DOMAIN cmds' = {1} /\ IsSync(cmds'[1])
      BY <3>3 DEF Send, IsSync
    <3>5. Len(sent) = 1 /\ DOMAIN sent = {1} /\ IsConnect(sent[1]) /\ ~IsSync(sent[1])
      BY <2>4, Lengths DEF Welcomed, Introduced
    <3>6. SyncFirst'
      BY <1>c, <3>5 DEF SyncFirst, IsConnect, IsSync
    <3>7. NoWelcomeIn(inbox') /\ NoWelcomeIn(down')
      BY <1>a, <1>c, <2>4 DEF Welcomed, WelcomeFirst, NoWelcomeIn, IsWelcome
    <3>8. Chatty'
      BY <1>c, <2>4, <3>3, <3>4, <3>5, <3>6, <3>7 DEF Chatty, Welcomed
    <3> QED  BY <3>8
  <2>5. CASE Chatty
    <3>1. ~IsWelcome(m)
      BY <1>a, <2>5 DEF Chatty, NoWelcomeIn
    <3>2. OnOther(m)
      BY <1>b, <2>3, <3>1 DEF IsWelcome
    <3>3. NoWelcomeIn(inbox') /\ NoWelcomeIn(down')
      BY <1>a, <1>c, <2>5 DEF Chatty, NoWelcomeIn, IsWelcome
    <3>4. SyncFirst'
      BY <1>c, <2>5 DEF Chatty, SyncFirst
    <3>5. Chatty'
      BY <1>c, <2>5, <3>2, <3>3, <3>4 DEF Chatty, OnOther, IsSync
    <3> QED  BY <3>5
  <2> QED  BY <2>1, <2>4, <2>5
<1>6. NoLostWakeup'
  BY <1>c, <1>d DEF NoLostWakeup
<1> QED  BY <1>1, <1>2, <1>3, <1>4, <1>5, <1>6

LEMMA ClickLoginStep ==
  ASSUME ClientInv, ClickLogin
  PROVE  ClientInv'
<1> USE DEF ClientInv, ClickLogin, Drawn, PageInput, netVars, linkVars
<1>m. PICK m \in Credentials : cmds' = Append(cmds, Connect(m, logins + 1))
  OBVIOUS
<1>n. logins + 1 \in 0 .. MaxLogins /\ logins' = logins + 1
  BY InputsAssumption DEF ClientTypes
<1>a. /\ Connect(m, logins + 1) \in Command /\ IsConnect(Connect(m, logins + 1))
      /\ Connect(m, logins + 1).login = logins + 1 /\ ~IsSync(Connect(m, logins + 1))
  BY <1>n, AuthMessages
<1>b. /\ cmds' \in Seq(Command) /\ cmds' # <<>>
      /\ Len(cmds) \in Nat /\ DOMAIN cmds = 1 .. Len(cmds) /\ DOMAIN cmds' = 1 .. Len(cmds) + 1
      /\ Len(cmds') = Len(cmds) + 1
      /\ (\A i \in 1 .. Len(cmds) : cmds'[i] = cmds[i]) /\ cmds'[Len(cmds) + 1] = Connect(m, logins + 1)
  BY <1>a, <1>m, Added DEF ClientTypes
<1>c. AtRest
  BY DEF OnePlace, Asked, Tried, Over, OnAuth, Connecting
<1>d. /\ inbox = <<>> /\ modals = <<>> /\ asked = <<>> /\ ui' = "modals" /\ state' = Connecting
      /\ UNCHANGED <<inbox, errors, awake, net, auth, sent, down, peer, page, active, asked, modals>>
  BY DEF ModalsAreOld
<1>e. net \in {"waiting", "closing"}
  BY <1>c DEF AtRest, Engaged, ClientTypes, NetState
<1> HIDE DEF ClickLogin
<1>1. ClientTypes'
  <2>1. inputs' = inputs /\ state' \in AppState
    BY <1>d DEF ClickLogin, AppState
  <2> QED  BY <1>b, <1>d, <1>n, <2>1 DEF ClientTypes
<1>2. OnePlace'
  <2>1. \A i \in DOMAIN cmds' : IsConnect(cmds'[i]) <=> i = Len(cmds')
    BY <1>a, <1>b, <1>c DEF AtRest, NoConnect, IsConnect
  <2>2. LastConnects'
    BY <1>a, <1>b, <1>n, <2>1 DEF LastConnects, IsConnect, IsSync
  <2>3. Asked'
    BY <1>d, <1>e, <2>2 DEF Asked, Engaged
  <2> QED  BY <2>3 DEF OnePlace
<1>3. HeldIsOwn'
  <2>1. sent = <<>> /\ DOMAIN sent' = {}
    BY <1>d, <1>e DEF HeldIsOwn
  <2> QED  BY <1>d, <1>e, <2>1 DEF HeldIsOwn, Linked
<1>4. ModalsAreOld'
  BY <1>d DEF ModalsAreOld
<1>5. SyncSoon'
  BY <1>d, <1>e DEF SyncSoon, Linked
<1>6. NoLostWakeup'
  BY <1>d DEF NoLostWakeup
<1> QED  BY <1>1, <1>2, <1>3, <1>4, <1>5, <1>6

LEMMA WatchStep ==
  ASSUME ClientInv, Watch
  PROVE  ClientInv'
<1> USE DEF ClientInv, Watch, Drawn, netVars, linkVars
<1>1. ClientTypes'
  BY DEF ClientTypes, NetState, PeerState
<1>2. OnePlace'
  BY DEF OnePlace, AtRest, Asked, Tried, Over, NoConnect, LastConnects, OwnSends, NoErrorIn, LastIsError, Engaged, IsConnect, IsSync, ClientTypes
<1>3. HeldIsOwn'
  BY DEF HeldIsOwn, Linked, IsConnect, IsSync, ClientTypes
<1>4. ModalsAreOld'
  BY DEF ModalsAreOld, ClientTypes
<1>5. SyncSoon'
  BY DEF SyncSoon, Linked, Unanswered, Answered, Welcomed, Chatty, Introduced, NoWelcomeIn, WelcomeFirst, IsWelcome, SyncFirst, IsConnect, IsSync, ClientTypes
<1>6. NoLostWakeup'
  BY DEF NoLostWakeup, ClientTypes
<1> QED  BY <1>1, <1>2, <1>3, <1>4, <1>5, <1>6

LEMMA SelectChatStep ==
  ASSUME ClientInv, SelectChat
  PROVE  ClientInv'
<1> USE DEF ClientInv, SelectChat, OnChat, Drawn, PageInput, netVars, linkVars
<1>1. ClientTypes'
  <2>1. active' \in Target
    <3>1. page.groups \subseteq GroupId /\ page.book \subseteq UserId
      BY DEF ClientTypes, Page
    <3> QED  BY <3>1 DEF Chats, Target, GroupTarget, UserTarget
  <2> QED  BY <2>1 DEF ClientTypes
<1>2. OnePlace'
  BY DEF OnePlace, AtRest, Asked, Tried, Over, NoConnect, LastConnects, OwnSends, NoErrorIn, LastIsError, Engaged, IsConnect, IsSync, ClientTypes
<1>3. HeldIsOwn'
  BY DEF HeldIsOwn, Linked, IsConnect, IsSync, ClientTypes
<1>4. ModalsAreOld'
  BY DEF ModalsAreOld, ClientTypes
<1>5. SyncSoon'
  BY DEF SyncSoon, Linked, Unanswered, Answered, Welcomed, Chatty, Introduced, NoWelcomeIn, WelcomeFirst, IsWelcome, SyncFirst, IsConnect, IsSync, ClientTypes
<1>6. NoLostWakeup'
  BY DEF NoLostWakeup, ClientTypes
<1> QED  BY <1>1, <1>2, <1>3, <1>4, <1>5, <1>6

LEMMA SendContentStep ==
  ASSUME ClientInv, SendContent
  PROVE  ClientInv'
<1> USE DEF ClientInv, SendContent, OnChat, Drawn, PageInput, netVars, linkVars
<1>m. PICK b \in Body : Issue(SendMessage(active, b))
  OBVIOUS
<1>a. SendMessage(active, b) \in ClientMessage /\ SendMessage(active, b) # Sync(0)
  BY ContentTypes DEF ClientTypes
<1>b. state # Connecting
  BY DEF Connecting
<1>c. cmds' \in Seq(Command) /\ OnePlace' /\ SyncSoon'
  BY <1>m, <1>a, <1>b, IssueKeeps
<1> HIDE DEF Issue
<1>1. ClientTypes'
  <2>1. inputs' \in 0 .. MaxInputs
    BY InputsAssumption DEF ClientTypes
  <2> QED  BY <1>c, <2>1 DEF ClientTypes
<1>2. OnePlace'
  BY <1>c
<1>3. HeldIsOwn'
  BY DEF HeldIsOwn, Linked, IsConnect, IsSync, ClientTypes
<1>4. ModalsAreOld'
  BY DEF ModalsAreOld, ClientTypes
<1>5. SyncSoon'
  BY <1>c
<1>6. NoLostWakeup'
  BY DEF NoLostWakeup, ClientTypes
<1> QED  BY <1>1, <1>2, <1>3, <1>4, <1>5, <1>6

LEMMA OpenModalStep ==
  ASSUME ClientInv, OpenModal
  PROVE  ClientInv'
<1> USE DEF ClientInv, OpenModal, OnChat, Drawn, PageInput, netVars, linkVars
<1>a. PICK modal \in Modal : asked' = Append(asked, modal)
  <2>1. CASE asked' = Append(asked, CreateGroupModal)
    BY <2>1 DEF Modal
  <2>2. CASE active.kind = "group" /\ asked' = Append(asked, InviteToGroupModal(active.group, page.book))
    <3>1. active.group \in GroupId
      BY <2>2 DEF ClientTypes, Target, Broadcast, NoChat
    <3>2. page.book \in SUBSET UserId
      BY DEF ClientTypes, Page
    <3>3. InviteToGroupModal(active.group, page.book) \in Modal
      BY <3>1, <3>2 DEF Modal, InviteToGroupModal
    <3> QED  BY <2>2, <3>3
  <2> QED  BY <2>1, <2>2
<1>b. asked = <<>>
  BY DEF ModalsAreOld
<1>c. asked' \in Seq(Modal) /\ Len(asked') = 1
  BY <1>a, <1>b
<1>1. ClientTypes'
  <2>1. inputs' \in 0 .. MaxInputs
    BY InputsAssumption DEF ClientTypes
  <2> QED  BY <1>c, <2>1 DEF ClientTypes
<1>2. OnePlace'
  BY DEF OnePlace, AtRest, Asked, Tried, Over, NoConnect, LastConnects, OwnSends, NoErrorIn, LastIsError, Engaged, IsConnect, IsSync, ClientTypes
<1>3. HeldIsOwn'
  BY DEF HeldIsOwn, Linked, IsConnect, IsSync, ClientTypes
<1>4. ModalsAreOld'
  BY <1>c DEF ModalsAreOld, Connecting
<1>5. SyncSoon'
  BY DEF SyncSoon, Linked, Unanswered, Answered, Welcomed, Chatty, Introduced, NoWelcomeIn, WelcomeFirst, IsWelcome, SyncFirst, IsConnect, IsSync, ClientTypes
<1>6. NoLostWakeup'
  BY DEF NoLostWakeup, ClientTypes
<1> QED  BY <1>1, <1>2, <1>3, <1>4, <1>5, <1>6

LEMMA HandleModalsStep ==
  ASSUME ClientInv, HandleModals
  PROVE  ClientInv'
<1> USE DEF ClientInv, HandleModals, netVars, linkVars
<1>a. asked' \in Seq(Modal) /\ asked' = <<>>
  <2>1. asked \in Seq(Modal)
    BY DEF ClientTypes
  <2>2. CASE asked = <<>>
    BY <2>1, <2>2
  <2>3. CASE asked # <<>>
    <3>1. asked' = Tail(asked) /\ Len(asked) = 1
      BY <2>3 DEF ModalsAreOld
    <3>2. Tail(asked) \in Seq(Modal) /\ Len(Tail(asked)) = 0
      BY <2>1, <2>3, <3>1, Taken
    <3> QED  BY <3>1, <3>2, Empty
  <2> QED  BY <2>2, <2>3
<1>b. modals \in Seq(Modal) /\ Received \in Seq(Modal) /\ Len(modals) <= Len(Received)
  BY ReceivedTypes DEF ClientTypes
<1>c. \/ modals' = Received /\ UNCHANGED cmds
      \/ /\ modals # <<>>
         /\ modals' = RemoveAt(Received, Len(modals))
         /\ UNCHANGED cmds \/ \E m \in Submitted(Last(modals)) : Issue(m)
  OBVIOUS
<1>d. modals # <<>> => Len(modals) \in 1 .. Len(Received) /\ Last(modals) \in Modal
  BY <1>b, Taken DEF Last
<1>e. modals' \in Seq(Modal)
  BY <1>b, <1>c, <1>d, RemoveAtTypes
<1>f. /\ UNCHANGED <<inbox, awake, net, auth, sent, down, peer, state, page, active, logins, inputs>>
      /\ ui' = "idle"
  OBVIOUS
<1>g. errors' \in Seq({"Server", "TriedSendWhileDisconnected"})
  <2>1. errors' \in {errors, Tail(errors)} /\ (errors = <<>> => errors' = errors)
    OBVIOUS
  <2>2. errors \in Seq({"Server", "TriedSendWhileDisconnected"})
    BY DEF ClientTypes
  <2>3. CASE errors = <<>>
    BY <2>1, <2>2, <2>3
  <2>4. CASE errors # <<>>
    <3>1. Tail(errors) \in Seq({"Server", "TriedSendWhileDisconnected"})
      BY <2>2, <2>4, Taken
    <3> QED  BY <2>1, <2>2, <3>1
  <2> QED  BY <2>3, <2>4
<1> HIDE DEF HandleModals
<1>h. state = Connecting => modals' \in Seq({ErrorModal})
  <2> SUFFICES ASSUME state = Connecting
               PROVE  modals' \in Seq({ErrorModal})
    OBVIOUS
  <2>1. asked = <<>> /\ modals \in Seq({ErrorModal})
    BY DEF ModalsAreOld, Connecting
  <2>2. Received \in Seq({ErrorModal})
    BY <2>1, ReceivedTypes
  <2> QED  BY <1>c, <1>d, <2>2, RemoveAtTypes
<1>i. cmds' \in Seq(Command) /\ OnePlace' /\ SyncSoon'
  <2>1. CASE UNCHANGED cmds
    BY <1>f, <2>1 DEF ClientTypes, OnePlace, AtRest, Asked, Tried, Over, Engaged, NoConnect, LastConnects,
       OwnSends, NoErrorIn, LastIsError, SyncSoon, Linked, Unanswered, Answered, Welcomed, Chatty,
       Introduced, SyncFirst, NoWelcomeIn, WelcomeFirst, IsConnect, IsSync
  <2>2. ASSUME modals # <<>>, NEW m \in Submitted(Last(modals)), Issue(m)
        PROVE  cmds' \in Seq(Command) /\ OnePlace' /\ SyncSoon'
    <3>1. m \in ClientMessage /\ m # Sync(0) /\ Last(modals) # ErrorModal
      BY <1>d, <2>2, SubmittedTypes
    <3>2. state # Connecting
      <4>1. modals \in Seq({ErrorModal}) => Last(modals) = ErrorModal
        BY <2>2, Taken DEF Last
      <4> QED  BY <3>1, <4>1 DEF ModalsAreOld
    <3> QED  BY <1>f, <2>2, <3>1, <3>2, IssueKeeps
  <2> QED  BY <1>c, <2>1, <2>2
<1>1. ClientTypes'
  BY <1>a, <1>e, <1>f, <1>g, <1>i DEF ClientTypes
<1>2. OnePlace'
  BY <1>i
<1>3. HeldIsOwn'
  BY <1>f DEF HeldIsOwn, Linked, IsConnect, IsSync
<1>4. ModalsAreOld'
  BY <1>a, <1>f, <1>h DEF ModalsAreOld
<1>5. SyncSoon'
  BY <1>i
<1>6. NoLostWakeup'
  BY <1>f DEF NoLostWakeup, HandleModals
<1> QED  BY <1>1, <1>2, <1>3, <1>4, <1>5, <1>6

-----------------------------------------------------------------------------
(* The server's end.                                                       *)

LEMMA AnswerStep ==
  ASSUME ClientInv, Answer, UNCHANGED uiVars
  PROVE  ClientInv'
<1> USE DEF ClientInv, Answer, managerVars, netVars, uiVars
<1>a. Linked
  BY DEF HeldIsOwn
<1>b. Unanswered
  BY <1>a DEF SyncSoon, Answered, Welcomed, Chatty
<1>c. down = <<>>
  BY <1>b DEF Unanswered
<1>d. PICK m \in ServerMessage :
        /\ down' = Append(down, m)
        /\ \/ m.type = "AuthSuccess" /\ peer' = "serving"
           \/ m.type = "Error" /\ peer' = "closed"
  BY ServerAnswers
<1>e. /\ down' \in Seq(ServerMessage) /\ down' # <<>> /\ DOMAIN down' = {1} /\ down'[1] = m
  BY <1>c, <1>d
<1>1. ClientTypes'
  BY <1>d, <1>e DEF ClientTypes, PeerState
<1>2. OnePlace'
  BY DEF OnePlace, AtRest, Asked, Tried, Over, NoConnect, LastConnects, OwnSends, NoErrorIn, LastIsError, Engaged, IsConnect, IsSync, ClientTypes
<1>3. HeldIsOwn'
  BY DEF HeldIsOwn, Linked, IsConnect, IsSync, ClientTypes
<1>4. ModalsAreOld'
  BY DEF ModalsAreOld, ClientTypes
<1>5. SyncSoon'
  <2>1. Introduced'
    BY <1>b DEF Unanswered, Introduced, IsConnect, IsSync
  <2>2. CASE m.type = "AuthSuccess" /\ peer' = "serving"
    <3>1. WelcomeFirst(down')
      BY <1>e, <2>2 DEF WelcomeFirst, IsWelcome
    <3>2. Answered'
      BY <1>b, <2>1, <2>2, <3>1 DEF Answered, Unanswered, WelcomeFirst
    <3> QED  BY <3>2 DEF SyncSoon
  <2>3. CASE m.type = "Error" /\ peer' = "closed"
    <3>1. Unanswered'
      BY <1>b, <1>e, <2>1, <2>3 DEF Unanswered
    <3> QED  BY <3>1 DEF SyncSoon
  <2> QED  BY <1>d, <2>2, <2>3
<1>6. NoLostWakeup'
  BY DEF NoLostWakeup, ClientTypes
<1> QED  BY <1>1, <1>2, <1>3, <1>4, <1>5, <1>6

LEMMA PeerWritesStep ==
  ASSUME ClientInv, PeerWrites, UNCHANGED uiVars
  PROVE  ClientInv'
<1> USE DEF ClientInv, PeerWrites, managerVars, netVars, uiVars
<1>m. PICK m \in News : down' = Append(down, m)
  OBVIOUS
<1>a. m \in ServerMessage /\ ~IsWelcome(m)
  BY ServerAnswers DEF IsWelcome
<1>b. /\ down' \in Seq(ServerMessage) /\ down' # <<>>
      /\ Len(down) \in Nat /\ DOMAIN down = 1 .. Len(down) /\ DOMAIN down' = 1 .. Len(down) + 1
      /\ (\A i \in 1 .. Len(down) : down'[i] = down[i]) /\ down'[Len(down) + 1] = m
  <2>1. down \in Seq(ServerMessage)
    BY DEF ClientTypes
  <2> QED  BY <1>m, <1>a, <2>1, Added
<1>c. Linked
  BY DEF HeldIsOwn
<1>d. UNCHANGED <<cmds, inbox, net, sent, peer, state>>
  OBVIOUS
<1>e. NoWelcomeIn(down) => NoWelcomeIn(down')
  BY <1>a, <1>b DEF NoWelcomeIn
<1>1. ClientTypes'
  BY <1>b DEF ClientTypes
<1>2. OnePlace'
  BY DEF OnePlace, AtRest, Asked, Tried, Over, NoConnect, LastConnects, OwnSends, NoErrorIn, LastIsError, Engaged, IsConnect, IsSync, ClientTypes
<1>3. HeldIsOwn'
  BY DEF HeldIsOwn, Linked, IsConnect, IsSync, ClientTypes
<1>4. ModalsAreOld'
  BY DEF ModalsAreOld, ClientTypes
<1>5. SyncSoon'
  <2>1. Introduced => Introduced'
    BY <1>d DEF Introduced, IsConnect, IsSync
  <2>2. CASE Answered
    <3>1. WelcomeFirst(down')
      BY <1>a, <1>b, <2>2, Lengths DEF Answered, WelcomeFirst
    <3>2. Answered'
      BY <1>d, <2>1, <2>2, <3>1 DEF Answered, WelcomeFirst
    <3> QED  BY <3>2 DEF SyncSoon
  <2>3. CASE Welcomed
    <3>1. Welcomed'
      BY <1>d, <1>e, <2>1, <2>3 DEF Welcomed, WelcomeFirst, NoWelcomeIn
    <3> QED  BY <3>1 DEF SyncSoon
  <2>4. CASE Chatty
    <3>1. Chatty'
      BY <1>d, <1>e, <2>4 DEF Chatty, NoWelcomeIn, SyncFirst, IsSync
    <3> QED  BY <3>1 DEF SyncSoon
  <2> QED  BY <1>c, <2>2, <2>3, <2>4 DEF SyncSoon, Unanswered
<1>6. NoLostWakeup'
  BY DEF NoLostWakeup, ClientTypes
<1> QED  BY <1>1, <1>2, <1>3, <1>4, <1>5, <1>6

LEMMA PeerClosesStep ==
  ASSUME ClientInv, PeerCloses, UNCHANGED uiVars
  PROVE  ClientInv'
<1> USE DEF ClientInv, PeerCloses, managerVars, netVars, uiVars
<1>1. ClientTypes'
  BY DEF ClientTypes, NetState, PeerState
<1>2. OnePlace'
  BY DEF OnePlace, AtRest, Asked, Tried, Over, NoConnect, LastConnects, OwnSends, NoErrorIn, LastIsError, Engaged, IsConnect, IsSync, ClientTypes
<1>3. HeldIsOwn'
  BY DEF HeldIsOwn, Linked, IsConnect, IsSync, ClientTypes
<1>4. ModalsAreOld'
  BY DEF ModalsAreOld, ClientTypes
<1>5. SyncSoon'
  BY DEF SyncSoon, Linked, Unanswered, Answered, Welcomed, Chatty, Introduced, NoWelcomeIn, WelcomeFirst, IsWelcome, SyncFirst, IsConnect, IsSync, ClientTypes
<1>6. NoLostWakeup'
  BY DEF NoLostWakeup, ClientTypes
<1> QED  BY <1>1, <1>2, <1>3, <1>4, <1>5, <1>6

-----------------------------------------------------------------------------
(* The invariant, and what it says.                                        *)

LEMMA ClientStart == ClientInit => ClientInv
<1> SUFFICES ASSUME ClientInit
             PROVE  ClientInv
  OBVIOUS
<1> USE DEF ClientInit, NetInit
<1>1. ClientTypes
  <2>1. page \in Page /\ inputs \in 0 .. MaxInputs /\ auth \in Command \cup {NoCommand}
    BY InputsAssumption DEF EmptyPage, Page
  <2>2. \A S : <<>> \in Seq(S)
    OBVIOUS
  <2>3. state \in AppState /\ logins \in 0 .. MaxLogins
    BY InputsAssumption DEF AppState
  <2>4. net \in NetState /\ net \notin {"dialing", "opened"} /\ peer \in PeerState
    BY DEF NetState, PeerState
  <2> QED  BY <2>1, <2>2, <2>3, <2>4 DEF ClientTypes
<1>2. AtRest
  BY DEF AtRest, Engaged, NoConnect
<1>3. HeldIsOwn /\ ModalsAreOld /\ SyncSoon /\ NoLostWakeup
  BY DEF HeldIsOwn, Linked, ModalsAreOld, SyncSoon, NoLostWakeup, OnAuth, Connecting
<1> QED  BY <1>1, <1>2, <1>3 DEF ClientInv, OnePlace

LEMMA ClientStutter ==
  ASSUME ClientInv, UNCHANGED clientVars
  PROVE  ClientInv'
BY DEF ClientInv, clientVars, uiVars, netVars, linkVars, ClientTypes, OnePlace, AtRest, Asked,
   Tried, Over, Engaged, NoConnect, LastConnects, OwnSends, NoErrorIn, LastIsError, HeldIsOwn,
   Linked, ModalsAreOld, SyncSoon, Unanswered, Answered, Welcomed, Chatty, Introduced, SyncFirst,
   NoWelcomeIn, WelcomeFirst, IsConnect, IsSync, NoLostWakeup

LEMMA ClientStep ==
  ASSUME ClientInv, [ClientNext]_clientVars
  PROVE  ClientInv'
<1>1. CASE Network
  BY <1>1, TakeConnectStep, RefuseStep, DialStep, WriteAuthStep, WriteStep, IgnoreConnectStep,
     ReceiveStep, FailStep, EndOfStreamStep, ReportStep, WakeStep DEF Network, NetStep
<1>2. CASE Frame
  BY <1>2, BeginStep, TakeMessageStep, WatchStep, HandleModalsStep DEF Frame, Repaint
<1>3. CASE User
  BY <1>3, BeginStep, ClickLoginStep, SelectChatStep, SendContentStep, OpenModalStep DEF User, Touch
<1>4. CASE Peer
  BY <1>4, AnswerStep, PeerWritesStep, PeerClosesStep DEF Peer
<1> QED  BY <1>1, <1>2, <1>3, <1>4, ClientStutter DEF ClientNext

\* The invariant of the client, whatever its user, its server and the two
\* threads do (network.rs, workspace.rs, ui/pages and ui/modals).
THEOREM ClientInvariant == ClientSpec => []ClientInv
BY ClientStart, ClientStep, PTL DEF ClientSpec

\* The type invariant, the page and the bounds on the inputs included
\* (network.rs, ui/pages/chat.rs).
THEOREM ClientTypesHold == ClientSpec => []ClientTypeOK
<1>1. ClientInv => ClientTypeOK
  BY DEF ClientInv, ClientTypes, ClientTypeOK
<1> QED  BY <1>1, ClientInvariant, PTL

\* A login is queued, tried or over in exactly one place (network.rs:49, 116).
THEOREM OneAttemptAlways == ClientSpec => []OneAttempt
<1>1. ClientInv => OneAttempt
  <2> SUFFICES ASSUME ClientInv
               PROVE  OneAttempt
    OBVIOUS
  <2> USE DEF ClientInv
  <2>1. /\ NoConnect => ConnectsQueued = {}
        /\ OwnSends => ConnectsQueued = {}
        /\ NoErrorIn(inbox) => ErrorsQueued = {}
    BY DEF NoConnect, OwnSends, IsConnect, ConnectsQueued, NoErrorIn, ErrorsQueued
  <2>2. LastConnects => ConnectsQueued = {Len(cmds)}
    BY Lengths DEF LastConnects, IsConnect, ConnectsQueued
  <2>3. LastIsError => ErrorsQueued = {Len(inbox)}
    BY Lengths DEF LastIsError, ErrorsQueued
  <2>4. inbox = <<>> => ErrorsQueued = {}
    BY DEF ErrorsQueued
  <2> QED  BY <2>1, <2>2, <2>3, <2>4
           DEF OnePlace, AtRest, Asked, Tried, Over, OneAttempt, OnAuth, Connecting
<1> QED  BY <1>1, ClientInvariant, PTL

\* Nothing composed in one login is written to the connection of another
\* (network.rs:70: what a failure left in the queue is refused).
THEOREM OwnFramesAlways == ClientSpec => []OwnFrames
<1>1. ClientInv => OwnFrames
  BY DEF ClientInv, HeldIsOwn, OwnFrames
<1> QED  BY <1>1, ClientInvariant, PTL

\* The auth message, one Sync, then what the user does (chat.rs:375).
THEOREM SyncFirstAlways == ClientSpec => []SyncFirst
<1>1. ClientInv => SyncFirst
  <2> SUFFICES ASSUME ClientInv
               PROVE  SyncFirst
    OBVIOUS
  <2>1. CASE sent = <<>>
    BY <2>1 DEF SyncFirst
  <2>2. CASE sent # <<>>
    <3>1. Unanswered \/ Answered \/ Welcomed \/ Chatty
      BY <2>2 DEF ClientInv, HeldIsOwn, SyncSoon, Linked
    <3>2. CASE Introduced
      <4>1. Len(sent) = 1 /\ DOMAIN sent = {1}
        BY <2>2, <3>2, Lengths DEF ClientInv, Introduced
      <4> QED  BY <2>2, <3>2, <4>1 DEF Introduced, SyncFirst, IsConnect, IsSync
    <3> QED  BY <3>1, <3>2 DEF Unanswered, Answered, Welcomed, Chatty
  <2> QED  BY <2>1, <2>2
<1> QED  BY <1>1, ClientInvariant, PTL

\* No message handed to the UI thread waits for a frame nobody asked for
\* (network.rs:104: the send comes before the request for a repaint).
THEOREM NoLostWakeupAlways == ClientSpec => []NoLostWakeup
<1>1. ClientInv => NoLostWakeup
  BY DEF ClientInv
<1> QED  BY <1>1, ClientInvariant, PTL
===============================================================================
