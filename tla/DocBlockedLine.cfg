SPECIFICATION Spec
CONSTANTS
  Letter = {l1, l2}
  NoLetter = NoLetter
  Lines = 2
  SendResult = {"sent", "block"}
  ErrorReturn = {"ok"}
  FreshMemory = {"null"}
PROPERTIES
  WholeLetterDelivered
