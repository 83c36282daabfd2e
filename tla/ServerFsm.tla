----------------------------- MODULE ServerFsm -----------------------------
(***************************************************************************)
(* The automaton of a session as server/fsm/server.def gives it: one       *)
(* action per event.  SmtpSession implements it.                           *)
(*                                                                         *)
(* server.def enters INIT from any state; in the code a session comes from *)
(* SEND_GREETING, once.  Two transitions of the code are not in            *)
(* server.def: greeting_failed, and the end of a letter that was still in  *)
(* the buffer of a closed session (late_dot).                              *)
(***************************************************************************)
VARIABLE state

InDialogue == {"WAIT", "MAIL_CREATED_NO_RECEPIENTS", "RECEPIENTS_SET"}

connection_established == state = "SEND_GREETING" /\ state' = "INIT"

greeting_failed == state = "SEND_GREETING" /\ state' = "CLOSED"

handle_HELO == state = "INIT" /\ state' = "WAIT"

handle_MAIL == state = "WAIT" /\ state' = "MAIL_CREATED_NO_RECEPIENTS"

handle_RCPT ==
  /\ state \in {"MAIL_CREATED_NO_RECEPIENTS", "RECEPIENTS_SET"}
  /\ state' = "RECEPIENTS_SET"

handle_RSET == state \in InDialogue /\ state' = "WAIT"

handle_DATA == state = "RECEPIENTS_SET" /\ state' = "WRITING_DATA"

handle_QUIT == state \in InDialogue \cup {"INIT"} /\ state' = "CLOSED"

CLRF_dot_CLRF == state = "WRITING_DATA" /\ state' = "DELIVERING"

message_saved == state = "DELIVERING" /\ state' = "WAIT"

connection_failed ==
  /\ state \in InDialogue \cup {"INIT", "WRITING_DATA"}
  /\ state' = "CLOSED"

late_dot == state = "CLOSED" /\ state' = "DELIVERING"

Next ==
  \/ connection_established \/ greeting_failed \/ handle_HELO \/ handle_MAIL
  \/ handle_RCPT \/ handle_RSET \/ handle_DATA \/ handle_QUIT
  \/ CLRF_dot_CLRF \/ message_saved \/ connection_failed \/ late_dot

Spec == state = "SEND_GREETING" /\ [][Next]_state
=============================================================================
