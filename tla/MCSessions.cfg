CONSTANTS
  c1 = c1
  c2 = c2
  a1 = a1
  t1 = t1
  r1 = r1
  r2 = r2
  Client <- ClientVal
  Writer <- WriterVal
  Admin <- AdminVal
  Thread <- ThreadVal
  Run <- RunVal
  NoRow = NoRow
  NullOwner = NullOwner
  NoClient = NoClient
  NoThread = NoThread
  MaxAge = 0
  MaxClock = 1

SPECIFICATION FairSpec

INVARIANTS
  TypeOK
  OneClientPerSession
  GaugeCountsRuns
  ErasedStaysErased
  AnsweredTurnIsKept

PROPERTIES
  OwnerIsStable
  GaugeDrains
  ImplementsOwnership

CHECK_DEADLOCK FALSE
