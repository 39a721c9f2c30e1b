CONSTANTS
  t1 = t1
  r1 = r1
  r2 = r2
  r3 = r3
  active = active
  lost = lost
  Loop = Loop
  Tool <- ToolVal
  Record <- RecordVal
  MaxCustomer = 2
  MaxOrder = 1
  Status <- StatusVal
  AddedAs <- AddedAsVal
  Requested <- RequestedVal
  Default = active
  Archived = Archived
  Blank = Blank
  None = None

SPECIFICATION Spec

SYMMETRY Symmetry

\* Records are used up.
CHECK_DEADLOCK FALSE

INVARIANTS
  TypeOK
  DeletedIsGone
  NobodyIsLost
  OrderStaysWithCustomer

PROPERTIES
  ArchiveIsUndone
