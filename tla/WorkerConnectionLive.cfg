SPECIFICATION FairSpec
CONSTANTS
  Letter = {l1, l2}
  NoLetter = NoLetter
  Lines = 2
  SendResult = {"sent", "block", "error", "killed"}
  ErrorReturn = {"ok", "block", "fail"}
  FreshMemory = {"null", "stale"}
PROPERTIES
  ServingEndsOrSpins
  ShutdownSettles
