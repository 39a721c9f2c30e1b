CONSTANTS
  MaxHooks = 4
  Timeout = 2
  MaxTime = 5
  MaxShutdowns = 2

SPECIFICATION Spec

INVARIANTS
  LaterOnesHaveEnded
  FailureStopsNobody

PROPERTY CleanupReturns

CHECK_DEADLOCK FALSE
