SPECIFICATION Spec
CONSTANTS
  Mailbox = {a, b}
  MaxRecipients = 2
  MaxLines = 2
  SendResult = {"sent", "block", "error", "killed"}
  StoreResult = {"stored", "crash"}
  FreshInput = {TRUE, FALSE}
  NoMail = NoMail
  Empty = Empty
SYMMETRY MailboxSymmetry
INVARIANTS
  TypeOK
  StateMatchesMessage
  TextOnlyInLetter
  RecipientsAreAccepted
PROPERTIES
  StoredForAccepted
  ImplementsServerFsm
