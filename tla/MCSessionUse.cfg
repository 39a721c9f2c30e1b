CONSTANTS
  c1 = c1
  c2 = c2
  t1 = t1
  r1 = r1
  r2 = r2
  Client <- ClientVal
  Writer <- WriterVal
  Admin <- AdminVal
  Thread <- ThreadVal
  Run <- RunVal
  NoRow = NoRow
  NullOwner = NullOwner
  NoClient = NoClient
  NoThread = NoThread
  MaxAge = 1
  MaxClock = 2

SPECIFICATION UseSpec

PROPERTIES
  UsedSessionIsNotExpired

CHECK_DEADLOCK FALSE
