SPECIFICATION FairSpec
CONSTANTS
  Process = {p1, p2}
  Connection = {c1, c2, c3}
  Listener <- TwoListeners
  QueueFd = 5
  FirstFd = 7
  FdLimit = 9
  Backlog = 2
  FlagsResult = {TRUE, FALSE}
INVARIANTS
  TypeOK
  MaxFdCovers
PROPERTIES
  ImplementsDispatch
  NobodyWaits
CHECK_DEADLOCK FALSE
