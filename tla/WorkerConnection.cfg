SPECIFICATION Spec
CONSTANTS
  Letter = {l1, l2, l3}
  NoLetter = NoLetter
  Lines = 2
  SendResult = {"sent", "block", "error", "killed"}
  ErrorReturn = {"ok", "block", "fail"}
  FreshMemory = {"null", "stale"}
SYMMETRY LetterSymmetry
INVARIANTS
  TypeOK
  StatePairs
  HeadPresent
  AttemptWritten
  OneTaskPerLetter
  OpenFileIsHead
PROPERTIES
  StrandedOnlyOnRemoval
  RemovedClosed
  ImplementsLetterQueue
