CONSTANTS
  u1 = u1
  u2 = u2
  ana = ana
  bob = bob
  pw = pw
  g1 = g1
  g2 = g2
  b1 = b1
  c1 = c1
  c2 = c2
  c3 = c3
  NoUser = NoUser
  NoGroup = NoGroup
  NoConn = NoConn
  UserId = {u1, u2}
  Name = {ana, bob}
  Password = {pw}
  GroupId = {g1, g2}
  Body = {b1}
  MaxClock = 1
  DbFaults = {}
  InitUsers <- Both
  InitGroups <- OneGroup
  InitMembers <- AnasGroup
  Conn = {c1, c2}
  RouterCap = 2
  ChanCap = 2
  FirstFrames <- AnasLogin
  Requests <- DeskFrames
  MaxRequests = 4
  MaxCrashes = 0
  WritesFail = {c1, c2}
  ClientsLeave = {c1, c2}
  DeskConns = {c1, c2}
  OtherFrames = {}
  LinksBreak = TRUE
  News <- DeskNews
  Refusals = {"InvalidCredentials"}
  Window = 100
  Credentials <- AnasLogin
  MaxLogins = 2
  MaxInputs = 1
SPECIFICATION DeskSpec
SYMMETRY Sockets
INVARIANTS
  SentIsShown
  LiveIsNew
PROPERTIES
  ClientIsServed
CHECK_DEADLOCK FALSE
