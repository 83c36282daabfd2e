SPECIFICATION FairSpec
CONSTANTS
  Process = {p1, p2}
  Logger = Logger
  Parent = Parent
  MaxMsg = 1
  TurnLogs = {1}
  MaxInterrupts = 1
INVARIANTS
  TypeOK
  ParentOutlives
PROPERTIES
  LoggingGoesOn
  ShutdownSettles
CHECK_DEADLOCK FALSE
