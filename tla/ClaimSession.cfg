CONSTANTS
  u1 = u1
  u2 = u2
  u3 = u3
  ana = ana
  bob = bob
  eve = eve
  pw = pw
  wrong = wrong
  g1 = g1
  g2 = g2
  b1 = b1
  b2 = b2
  c1 = c1
  c2 = c2
  c3 = c3
  NoUser = NoUser
  NoGroup = NoGroup
  NoConn = NoConn
  Name = {ana, bob, eve}
  Password = {pw, wrong}
  Body = {b1, b2}
  UserId = {u1, u2}
  GroupId = {g1}
  Conn = {c1, c2}
  InitUsers <- TwoUsers
  InitGroups = {}
  InitMembers = {}
  FirstFrames <- Logins
  Requests = {}
  DbFaults = {}
  RouterCap = 2
  ChanCap = 2
  MaxRequests = 0
  MaxCrashes = 0
  WritesFail = {}
  ClientsLeave = {c1, c2}
  MaxClock = 1
SPECIFICATION Spec
INVARIANTS
  ActiveConnectionMapped
CHECK_DEADLOCK FALSE
