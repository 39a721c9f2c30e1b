CONSTANTS
  c1 = c1
  c2 = c2
  group = group
  box = box
  Call <- CallVal
  To <- ToVal
  Group = group
  MaxAttempts = 2

SPECIFICATION Spec

INVARIANTS
  TypeOK
  CopiesAreBounded

PROPERTIES
  SendsEnd
  KeepsPromise

CHECK_DEADLOCK FALSE
