CONSTANTS
  c1 = c1
  a1 = a1
  Client <- ClientVal
  Address <- AddressVal
  Second = 2
  Window = 4
  SweepInterval = 3
  FailLimit = 1
  Limit = 2
  WriteLimit = 1
  MaxClock = 8

SPECIFICATION Spec

INVARIANTS
  TypeOK
  WindowBound
  CountsTheWindow
  IdleKeysAreSwept
  RetryAfterIsClose

CHECK_DEADLOCK FALSE
