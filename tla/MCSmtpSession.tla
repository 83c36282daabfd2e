--------------------------- MODULE MCSmtpSession ---------------------------
(***************************************************************************)
(* Instances of SmtpSession for TLC.                                       *)
(***************************************************************************)
EXTENDS SmtpSession, TLC

\* No action treats one address in its own way.
MailboxSymmetry == Permutations(Mailbox)
=============================================================================
