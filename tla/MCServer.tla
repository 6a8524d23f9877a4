-------------------------------- MODULE MCServer --------------------------------
(***************************************************************************)
(* Small instances of the server for TLC: which accounts exist, and which  *)
(* frames the clients may send.                                            *)
(***************************************************************************)
EXTENDS ServerClaims

CONSTANTS u1, u2, u3, ana, bob, eve, pw, wrong, g1, g2, b1, b2, c1, c2, c3

Ana == [id |-> u1, name |-> ana, password |-> pw]
Bob == [id |-> u2, name |-> bob, password |-> pw]
Eve == [id |-> u3, name |-> eve, password |-> pw]

TwoUsers   == {Ana, Bob}
ThreeUsers == {Ana, Bob, Eve}

OneGroup  == {g1}
AnasGroup == {<<g1, u1>>}
Shared    == {<<g1, u1>>, <<g1, u2>>}

Logins == {Login(ana, pw), Login(bob, pw)}

LoginsAndTypos == Logins \cup {Login(ana, wrong)}

ThreeLogins == Logins \cup {Login(eve, pw)}

\* Nothing tells two connections apart.
Sockets == Permutations(Conn)

-----------------------------------------------------------------------------
(* The frames of each run.                                                 *)

AccountFrames ==
  {Register(ana, pw), Register(bob, pw), Login(ana, pw), Login(ana, wrong), Sync(0)}

Groupwork == {CreateGroup, InviteToGroup(g1, u2), InviteToGroup(g1, u1)}

Lookups ==
  {FetchGroupMembers(g1), FetchGroupInfo(g1), FetchGroupInfo(g2), Login(ana, pw)}

Catching ==
  {SendMessage(UserTarget(u2), b1), SendMessage(GroupTarget(g1), b1),
   SendMessage(Broadcast, b2), Sync(0)}

PrivateThenSync == {SendMessage(UserTarget(u2), b1), Sync(0)}

Broadcasting == {SendMessage(Broadcast, b1)}
===============================================================================
