SPECIFICATION FairSpec
CONSTANTS
  Size = 12
  Cut = 2
  Growth = 13
  Line <- Lines
  Fresh <- OldBytes
  Rest <- Rests
  MaxLines = 2
  MaxSegments = 3
  MaxBody = 40
INVARIANTS
  LinesAreHandled
  BodyFits
PROPERTIES
  HandlingEnds
CHECK_DEADLOCK FALSE
