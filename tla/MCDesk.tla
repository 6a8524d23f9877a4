-------------------------------- MODULE MCDesk --------------------------------
(***************************************************************************)
(* Small instances of the desk for TLC.                                    *)
(***************************************************************************)
EXTENDS Desk

CONSTANTS u1, u2, ana, bob, pw, g1, g2, b1, c1, c2, c3

Ana == [id |-> u1, name |-> ana, password |-> pw]
Bob == [id |-> u2, name |-> bob, password |-> pw]

Both == {Ana, Bob}

OneGroup  == {g1}
AnasGroup == {<<g1, u1>>}

AnasLogin == {Login(ana, pw)}
BobsLogin == {Login(bob, pw)}
TwoLogins == AnasLogin \cup BobsLogin

\* Nothing tells two connections of the client apart before they are dialed.
Sockets == Permutations(DeskConns)

\* What the client may write after its login.
DeskFrames ==
  {Sync(0), CreateGroup} \cup {SendMessage(t, b) : t \in Target, b \in Body}
    \cup {InviteToGroup(g, u) : g \in GroupId, u \in UserId}

\* What the client may be sent in these instances.
ShortBatches == {<<m>> : m \in ChatMessage} \cup {<<m, n>> : m, n \in ChatMessage}

DeskNews ==
  [type : {"GroupsList"}, groups : SUBSET GroupId]
    \cup [type : {"UsersList"}, users : SUBSET UserId]
    \cup [type : {"Presence"}, user : UserId, online : BOOLEAN]
    \cup [type : {"GroupCreated", "AddedToGroup"}, group : GroupId]
    \cup ChatMessage
    \cup {SyncBatch(b) : b \in ShortBatches}
===============================================================================
