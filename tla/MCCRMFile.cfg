CONSTANTS
  a1 = a1
  a2 = a2
  a3 = a3
  e1 = e1
  e2 = e2
  Saver <- SaverVal
  Entry <- EntryVal
  Empty = Empty
  Torn = Torn

SPECIFICATION FileSpec

SYMMETRY Symmetry

INVARIANTS
  FileIsMemory
  AnsweredIsOnDisk
