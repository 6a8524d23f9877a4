CONSTANTS
  u1 = u1
  ana = ana
  pw = pw
  g1 = g1
  b1 = b1
  UserId = {u1}
  Name = {ana}
  Password = {pw}
  GroupId = {g1}
  Body = {b1}
  MaxClock = 1
  News <- Lists
  Refusals = {"InvalidCredentials"}
  Window = 2
  Credentials <- AnasLogin
  MaxLogins = 2
  MaxInputs = 1
SPECIFICATION FairClient
INVARIANTS
  ClientTypeOK
  OneAttempt
  OwnFrames
  SyncFirst
  NoLostWakeup
PROPERTIES
  LoginSettles
CHECK_DEADLOCK FALSE
