SPECIFICATION FairSpec
CONSTANTS
  Message = {m1, m2, m3, m4}
  MaxMsg = 2
  OpenResult = {TRUE, FALSE}
  MaxRuns = 2
INVARIANTS
  TypeOK
  KeptInOrder
  FreshLog
  NoStaleFile
PROPERTIES
  LogIsWritten
CHECK_DEADLOCK FALSE
