SPECIFICATION FairSpec
CONSTANTS
  Mailbox = {a, b}
  MaxRecipients = 2
  MaxLines = 2
  SendResult = {"sent"}
  StoreResult = {"stored"}
  FreshInput = {FALSE}
  NoMail = NoMail
  Empty = Empty
PROPERTIES
  SilentIsClosed
