CONSTANTS
  t1 = t1
  s1 = s1
  s2 = s2
  d1 = d1
  d2 = d2
  q1 = q1
  Loop = Loop
  Tool <- ToolVal
  Source <- SourceVal
  Doc <- DocVal
  Query <- QueryVal
  MaxBatch = 3
  NoSource = NoSource
  Miss = Miss

SPECIFICATION Spec

SYMMETRY Symmetry

INVARIANTS
  TypeOK
  CacheIsFresh
  AnsweredIsKept
  SourceStays
  RollbackIsComplete
