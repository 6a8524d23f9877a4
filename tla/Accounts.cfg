CONSTANTS
  u1 = u1
  u2 = u2
  u3 = u3
  ana = ana
  bob = bob
  eve = eve
  pw = pw
  wrong = wrong
  g1 = g1
  g2 = g2
  b1 = b1
  b2 = b2
  c1 = c1
  c2 = c2
  c3 = c3
  NoUser = NoUser
  NoGroup = NoGroup
  NoConn = NoConn
  Name = {ana, bob, eve}
  Password = {pw, wrong}
  Body = {b1, b2}
  UserId = {u1, u2}
  GroupId = {g1, g2}
  Conn = {c1, c2}
  InitUsers = {}
  InitGroups <- OneGroup
  InitMembers = {}
  FirstFrames <- AccountFrames
  Requests <- Lookups
  DbFaults = {"login", "nameCheck", "insertUser", "fetchMembers", "groupInfo"}
  RouterCap = 2
  ChanCap = 2
  MaxRequests = 2
  MaxCrashes = 0
  WritesFail = {c1, c2}
  ClientsLeave = {}
  MaxClock = 1
SPECIFICATION Spec
SYMMETRY Sockets
INVARIANTS
  IdentityAgreement
  RepliesMatch
CHECK_DEADLOCK FALSE
