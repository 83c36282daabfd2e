SPECIFICATION FairSpec
CONSTANTS
  Mailbox = {a}
  MaxRecipients = 1
  MaxLines = 2
  SendResult = {"sent", "block", "error", "killed"}
  StoreResult = {"stored", "lost", "crash"}
  FreshInput = {TRUE, FALSE}
  NoMail = NoMail
  Empty = Empty
PROPERTIES
  GoneIsRemoved
