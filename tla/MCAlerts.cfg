CONSTANTS
  MaxLoops = 2
  NoManager = no_manager
  LastRule = 1
  Rate <- RateVal
  Suppress = 1
  Keep = 2
  MaxTime = 2
  MaxFaults = 1

SPECIFICATION Spec

INVARIANTS
  NotRepeated
  OneLoop

PROPERTY HighIsAlerted

CHECK_DEADLOCK FALSE
