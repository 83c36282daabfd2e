---------------------------- MODULE SmtpSession ----------------------------
(***************************************************************************)
(* One client connection of the SMTP server: the record client_socket of   *)
(* server/socket.h, the part of run_process (server/smtp.c) that serves    *)
(* it, the command handlers, and save_message of server/message.c.         *)
(*                                                                         *)
(* A worker process serves its clients one after the other, so the steps   *)
(* of one session interleave with its peer, not with another session.      *)
(***************************************************************************)
EXTENDS Integers, Sequences

CONSTANTS
  Mailbox,        \* the addresses a command may name
  MaxRecipients,  \* SERVER_MAX_RECIPIENTS
  MaxLines,       \* bound: complete lines in the input buffer
  SendResult,     \* what send() may do: "sent", "block", "error", or "killed"
                  \* (SIGPIPE on a connection the peer has closed)
  StoreResult,    \* how saving a letter for one recipient may end: "stored",
                  \* "lost" (rename fails) or "crash" (fopen fails, or the
                  \* name of the file overruns its array)
  FreshInput,     \* what input_message, never initialised, may hold at first
  NoMail, Empty   \* get_mail finds no address, or an empty one

Command == {"HELO", "EHLO", "MAIL", "RCPT", "DATA", "RSET", "NOOP", "QUIT",
            ".", "other"}

ASSUME SessionAssumption ==
  /\ MaxRecipients \in Nat \ {0} /\ MaxLines \in Nat
  /\ SendResult \subseteq {"sent", "block", "error", "killed"}
  /\ StoreResult \subseteq {"stored", "lost", "crash"}
  /\ FreshInput \subseteq BOOLEAN
  /\ NoMail \notin Mailbox /\ Empty \notin Mailbox /\ NoMail # Empty

VARIABLES
  state,          \* c_sock->state
  input_message,  \* c_sock->input_message: are lines text?
  lines,          \* the complete lines of c_sock->buffer
  from,           \* message->from: NoMail (NULL), Empty or an address
  to,             \* message->to
  recepients_num, \* message->recepients_num
  body,           \* message->body: "null", "empty", "text" or "freed"
  i,              \* the index of the loop of save_message
  accepted,       \* history: recipients answered 250 since the last reset
  stored,         \* history: recipients of the letter that have its file
  peer,           \* the client: "talking", "silent" for ever, or "gone"
  phase           \* where run_process is with this client: "select", "write"
                  \* (it was readable, and is writable too), "lines", "saving",
                  \* "removed" from the list, "stopped" or "dead" (the process)

message == <<from, to, recepients_num, body>>
history == <<accepted, stored>>
vars == <<state, input_message, lines, message, i, history, peer, phase>>

\* The slots of message->to are not initialised: "junk".
Init ==
  /\ state = "SEND_GREETING"
  /\ input_message \in FreshInput
  /\ lines = <<>>
  /\ from = NoMail
  /\ to = [k \in 0 .. MaxRecipients - 1 |-> "junk"]
  /\ recepients_num = 0
  /\ body = "null"
  /\ i = 0
  /\ accepted = <<>> /\ stored = <<>>
  /\ peer = "talking"
  /\ phase = "select"

-----------------------------------------------------------------------------
\* The turns of the loop of run_process.

\* A client that is both readable and writable is handled twice in a turn.
AfterReading == {"select", "write"}

\* new_smtp_handler_with_states on a client that has not been greeted.
SendGreeting ==
  /\ phase \in AfterReading /\ state = "SEND_GREETING"
  /\ \/ /\ \/ "sent" \in SendResult /\ state' = "INIT"
           \/ "block" \in SendResult /\ state' = state
           \/ "error" \in SendResult /\ state' = "CLOSED"
        /\ IF phase = "select" THEN phase' \in AfterReading ELSE phase' = "select"
     \/ "killed" \in SendResult /\ phase' = "dead" /\ UNCHANGED state
  /\ UNCHANGED <<input_message, lines, message, i, history, peer>>

\* recv always writes at the start of the buffer.  What it leaves there is any
\* sequence of complete lines: those of the client, without the beginning of a
\* line that arrived in an earlier segment, then what was not overwritten.
Receive(received) ==
  /\ phase = "select" /\ state \notin {"SEND_GREETING", "CLOSED"}
  /\ peer = "talking"
  /\ lines' = received
  /\ phase' \in AfterReading
  /\ UNCHANGED <<state, input_message, message, i, history, peer>>

\* Mutant of HangUp: the end of the connection is not noted.
HangUpUnnoted ==
  /\ phase = "select" /\ state \notin {"SEND_GREETING", "CLOSED"}
  /\ peer = "gone"
  /\ phase' \in AfterReading
  /\ UNCHANGED <<state, input_message, lines, message, i, history, peer>>

\* recv returns 0, or an error.  The lines of the buffer stay.
HangUp ==
  /\ phase = "select" /\ state \notin {"SEND_GREETING", "CLOSED"}
  /\ peer = "gone"
  /\ state' = "CLOSED"
  /\ phase' \in AfterReading
  /\ UNCHANGED <<input_message, lines, message, i, history, peer>>

\* The handler with flag = 1, whatever the readable one did to the state.
StartLines ==
  /\ state # "SEND_GREETING"
  /\ \/ phase = "write"
     \/ phase = "select" /\ state # "CLOSED" /\ peer # "gone"
  /\ phase' = "lines"
  /\ UNCHANGED <<state, input_message, lines, message, i, history, peer>>

EndLines ==
  /\ phase = "lines" /\ lines = <<>>
  /\ phase' = "select"
  /\ UNCHANGED <<state, input_message, lines, message, i, history, peer>>

\* select returned 0: for 45 seconds the client was not even writable.
Timeout ==
  /\ phase = "select" /\ state # "CLOSED" /\ peer # "gone"
  /\ state' = "CLOSED"
  /\ UNCHANGED <<input_message, lines, message, i, history, peer, phase>>

\* delete_elem, at the top of the loop.
Remove ==
  /\ phase = "select" /\ state = "CLOSED"
  /\ phase' = "removed"
  /\ UNCHANGED <<state, input_message, lines, message, i, history, peer>>

\* The message "#" in the queue of the process ends its loop.
Stop ==
  /\ phase = "select"
  /\ phase' = "stopped"
  /\ UNCHANGED <<state, input_message, lines, message, i, history, peer>>

-----------------------------------------------------------------------------
\* The commands, each the first complete line of the buffer.

Take(command) ==
  /\ phase = "lines" /\ lines # <<>>
  /\ ~input_message
  /\ Head(lines) = command
  /\ UNCHANGED <<i, peer>>

\* The reply is sent, would block (it is then lost) or fails, and the loop goes
\* on with the next line; or it kills the process.
Replied ==
  /\ lines' = Tail(lines)
  /\ phase' \in {"lines"} \cup {"dead" : r \in SendResult \cap {"killed"}}

\* The state after a handler that changes it only when its reply did not block.
UnlessBlocked(next) ==
  {state : r \in SendResult \cap {"block", "killed"}}
    \cup {next : r \in SendResult \cap {"sent", "error"}}

\* The handler returned -1: allowed_commands answers 451 and a list.
allowed_commands ==
  /\ Replied
  /\ UNCHANGED <<state, input_message, message, history>>

handle_HELO ==
  /\ Take("HELO")
  /\ \/ state # "INIT" /\ allowed_commands
     \/ /\ state = "INIT"
        /\ state' \in UnlessBlocked("WAIT")
        /\ Replied
        /\ UNCHANGED <<input_message, message, history>>
     \/ \* no domain follows the command: strcmp on NULL
        /\ state = "INIT"
        /\ phase' = "dead"
        /\ UNCHANGED <<state, lines, input_message, message, history>>

handle_EHLO ==
  /\ Take("EHLO")
  /\ \/ state # "INIT" /\ allowed_commands
     \/ /\ state = "INIT"
        /\ state' \in UnlessBlocked("WAIT")
        /\ Replied
        /\ UNCHANGED <<input_message, message, history>>

handle_MAIL ==
  /\ Take("MAIL")
  /\ \/ state # "WAIT" /\ allowed_commands
     \/ /\ state = "WAIT"
        /\ \E mail \in Mailbox \cup {NoMail, Empty} :
             /\ from' = mail
             /\ state' = IF mail \in Mailbox THEN "MAIL_CREATED_NO_RECEPIENTS"
                         ELSE state
        /\ Replied
        /\ UNCHANGED <<input_message, to, recepients_num, body, history>>

\* Mutant of Full: one recipient too many.
FullByOne == recepients_num > MaxRecipients

Full == recepients_num >= MaxRecipients

\* Mutant of RefuseRecipient: a refused address is counted.
RefuseAndCount ==
  /\ \E mail \in {NoMail, Empty} : to' = [to EXCEPT ![recepients_num] = mail]
  /\ recepients_num' = recepients_num + 1
  /\ UNCHANGED accepted

\* 450, mailbox unavailable: the slot is written all the same.
RefuseRecipient ==
  /\ \E mail \in {NoMail, Empty} : to' = [to EXCEPT ![recepients_num] = mail]
  /\ UNCHANGED <<recepients_num, accepted>>

handle_RCPT ==
  LET open == {"MAIL_CREATED_NO_RECEPIENTS", "RECEPIENTS_SET"} IN
  /\ Take("RCPT")
  /\ \/ state \notin open /\ allowed_commands
     \/ \* 451, number of recipients exceeded
        /\ state \in open /\ Full
        /\ Replied
        /\ UNCHANGED <<state, input_message, message, history>>
     \/ /\ state \in open /\ ~Full
        /\ RefuseRecipient
        /\ Replied
        /\ UNCHANGED <<state, input_message, from, body, stored>>
     \/ /\ state \in open /\ ~Full
        /\ \E mail \in Mailbox :
             /\ to' = [to EXCEPT ![recepients_num] = mail]
             /\ accepted' = Append(accepted, mail)
        /\ recepients_num' = recepients_num + 1
        /\ state' = "RECEPIENTS_SET"
        /\ Replied
        /\ UNCHANGED <<input_message, from, body, stored>>

\* Mutant of Reset: the recipients are still counted.
ResetWithoutCount ==
  /\ from' = NoMail
  /\ to' = [k \in DOMAIN to |-> IF k < recepients_num - 1 THEN NoMail ELSE to[k]]
  /\ state' = "WAIT"
  /\ accepted' = <<>> /\ stored' = <<>>
  /\ UNCHANGED recepients_num

\* What handle_RSET does to the message; its loop stops before the last slot.
Reset ==
  /\ from' = NoMail
  /\ to' = [k \in DOMAIN to |-> IF k < recepients_num - 1 THEN NoMail ELSE to[k]]
  /\ recepients_num' = 0
  /\ state' = "WAIT"
  /\ accepted' = <<>> /\ stored' = <<>>

handle_RSET ==
  LET open == {"WAIT", "MAIL_CREATED_NO_RECEPIENTS", "RECEPIENTS_SET"} IN
  /\ Take("RSET")
  /\ \/ state \notin open /\ allowed_commands
     \/ /\ state \in open
        /\ Reset
        /\ Replied
        /\ UNCHANGED <<input_message, body>>

\* Mutant of ReadyForData: a letter without recipients may have a text.
ReadyWithSender == state \in {"MAIL_CREATED_NO_RECEPIENTS", "RECEPIENTS_SET"}

ReadyForData == state = "RECEPIENTS_SET"

handle_DATA ==
  /\ Take("DATA")
  /\ \/ ~ReadyForData /\ allowed_commands
     \/ /\ ReadyForData /\ "sent" \in SendResult
        /\ body' = "empty"
        /\ input_message' = TRUE
        /\ state' = "WRITING_DATA"
        /\ lines' = Tail(lines) /\ phase' = "lines"
        /\ UNCHANGED <<from, to, recepients_num, history>>
     \/ /\ ReadyForData /\ SendResult # {"sent"}
        /\ Replied
        /\ UNCHANGED <<state, input_message, message, history>>

\* The handler returns from the whole function: the rest of the buffer is left
\* behind the terminator that replaced the end of this line.
handle_QUIT ==
  /\ Take("QUIT")
  /\ state' \in UnlessBlocked("CLOSED")
  /\ lines' = <<>>
  /\ phase' \in {"select"} \cup {"dead" : r \in SendResult \cap {"killed"}}
  /\ UNCHANGED <<input_message, message, history>>

handle_NOOP ==
  /\ Take("NOOP")
  /\ Replied
  /\ UNCHANGED <<state, input_message, message, history>>

\* A line "." outside of a letter is no command either.
handle_NOT_IMPLEMENTED ==
  /\ Take("other") \/ Take(".")
  /\ Replied
  /\ UNCHANGED <<state, input_message, message, history>>

-----------------------------------------------------------------------------
\* The text of a letter.

TextLine == phase = "lines" /\ lines # <<>> /\ input_message

\* strlen(body), realloc and strcat: body has been allocated, or the process
\* dies of a pointer that is not one.
handle_TEXT ==
  /\ TextLine /\ Head(lines) # "."
  /\ IF body \in {"empty", "text"}
     THEN body' = "text" /\ phase' = "lines"
     ELSE body' = body /\ phase' = "dead"
  /\ lines' = Tail(lines)
  /\ UNCHANGED <<state, input_message, from, to, recepients_num, i, history,
                 peer>>

\* Mutant of FirstRecipient: the loop starts at the second one.
SecondRecipient == IF body = "empty" THEN recepients_num ELSE 1

\* Where the loop of save_message starts; an empty letter skips it.
FirstRecipient == IF body = "empty" THEN recepients_num ELSE 0

\* handle_TEXT on ".", up to the loop of save_message.
StartSaving ==
  /\ TextLine /\ Head(lines) = "."
  /\ IF from = NoMail
     THEN phase' = "dead" /\ UNCHANGED <<state, i>>
     ELSE /\ state' = "DELIVERING"
          /\ phase' = "saving"
          /\ i' = FirstRecipient
  /\ UNCHANGED <<lines, input_message, message, history, peer>>

\* One turn of that loop: the file is written in "tmp" and renamed to "new".
SaveForRecipient ==
  /\ phase = "saving" /\ i < recepients_num
  /\ \/ /\ "stored" \in StoreResult
        /\ stored' = Append(stored, to[i]) /\ i' = i + 1 /\ UNCHANGED phase
     \/ "lost" \in StoreResult /\ i' = i + 1 /\ UNCHANGED <<stored, phase>>
     \/ "crash" \in StoreResult /\ phase' = "dead" /\ UNCHANGED <<i, stored>>
  /\ UNCHANGED <<state, input_message, lines, message, accepted, peer>>

\* Mutant of EndSaving: the session goes on taking lines as text.
EndSavingInText ==
  /\ phase = "saving" /\ i >= recepients_num
  /\ body' = "freed"
  /\ i' = 0
  /\ Reset
  /\ Replied
  /\ UNCHANGED <<input_message, peer>>

\* The rest of handle_TEXT: the body is freed and handle_RSET is called.
EndSaving ==
  /\ phase = "saving" /\ i >= recepients_num
  /\ body' = "freed"
  /\ input_message' = FALSE
  /\ i' = 0
  /\ Reset
  /\ Replied
  /\ UNCHANGED peer

-----------------------------------------------------------------------------
\* The client, as far as the server can tell.

FallSilent ==
  /\ peer = "talking" /\ peer' = "silent"
  /\ UNCHANGED <<state, input_message, lines, message, i, history, phase>>

Leave ==
  /\ peer # "gone" /\ peer' = "gone"
  /\ UNCHANGED <<state, input_message, lines, message, i, history, phase>>

Ended ==
  /\ phase \in {"removed", "stopped", "dead"}
  /\ UNCHANGED vars

ReceivedLines == UNION {[1 .. n -> Command] : n \in 0 .. MaxLines}

CommandHandler ==
  \/ handle_HELO \/ handle_EHLO \/ handle_MAIL \/ handle_RCPT \/ handle_RSET
  \/ handle_DATA \/ handle_QUIT \/ handle_NOOP \/ handle_NOT_IMPLEMENTED

TextHandler == handle_TEXT \/ StartSaving \/ SaveForRecipient \/ EndSaving

Loop == SendGreeting \/ HangUp \/ StartLines \/ EndLines \/ Remove

Next ==
  \/ Loop \/ CommandHandler \/ TextHandler
  \/ \E received \in ReceivedLines : Receive(received)
  \/ Timeout \/ Stop \/ FallSilent \/ Leave \/ Ended

Spec == Init /\ [][Next]_vars

\* The process runs its loop.  The greeting is the first thing written to a new
\* connection, so it does not block for ever.
FairSpec ==
  /\ Spec
  /\ WF_vars(Loop \/ CommandHandler \/ TextHandler)
  /\ SF_vars(SendGreeting /\ state' # state)

-----------------------------------------------------------------------------
\* Properties.

TypeOK ==
  /\ state \in {"SEND_GREETING", "INIT", "WAIT", "MAIL_CREATED_NO_RECEPIENTS",
                "RECEPIENTS_SET", "WRITING_DATA", "DELIVERING", "CLOSED"}
  /\ input_message \in BOOLEAN
  /\ lines \in Seq(Command)
  /\ from \in Mailbox \cup {NoMail, Empty}
  /\ to \in [0 .. MaxRecipients - 1 -> Mailbox \cup {NoMail, Empty, "junk"}]
  /\ recepients_num \in 0 .. MaxRecipients
  /\ body \in {"null", "empty", "text", "freed"}
  /\ i \in 0 .. MaxRecipients
  /\ accepted \in Seq(Mailbox)
  /\ stored \in Seq(Mailbox)
  /\ peer \in {"talking", "silent", "gone"}
  /\ phase \in {"select", "write", "lines", "saving", "removed", "stopped",
               "dead"}

\* The state of the session and the message agree after any sequence of
\* commands, lost replies and resets: what each handler assumes of from, of the
\* number of recipients and of body without looking at them.
StateMatchesMessage ==
  /\ state = "WAIT" => from \notin Mailbox /\ recepients_num = 0
  /\ state = "MAIL_CREATED_NO_RECEPIENTS" => from \in Mailbox /\ recepients_num = 0
  /\ state \in {"RECEPIENTS_SET", "WRITING_DATA", "DELIVERING"} =>
       from \in Mailbox /\ recepients_num > 0
  /\ state \in {"WRITING_DATA", "DELIVERING"} => body \in {"empty", "text"}

\* Once the session has started, a line is taken as text exactly between the
\* 354 reply and the end of the letter, so no command ends up in a letter and
\* no line of a letter is obeyed (a session that started in text mode does not
\* survive its first line).
TextOnlyInLetter ==
  /\ state \in {"WAIT", "MAIL_CREATED_NO_RECEPIENTS", "RECEPIENTS_SET"} =>
       ~input_message
  /\ state \in {"WRITING_DATA", "DELIVERING"} => input_message

\* The recipients of the letter are those answered 250 since the last reset,
\* in their order: nothing of an earlier letter, of a RSET one or of a refused
\* RCPT is left in message->to.
RecipientsAreAccepted ==
  recepients_num > 0 =>
    /\ Len(accepted) = recepients_num
    /\ \A k \in 1 .. recepients_num : to[k - 1] = accepted[k]

\* A letter with a text gets to every accepted recipient, each once and in
\* order, before the session goes back to WAIT, unless a rename failed.
StoredForAccepted ==
  [][state = "DELIVERING" /\ state' = "WAIT" /\ body = "text"
       /\ "lost" \notin StoreResult => stored = accepted]_vars

\* Every change of state is a transition of the automaton of server.def, or one
\* of the two that ServerFsm adds.
Fsm == INSTANCE ServerFsm
ImplementsServerFsm == Fsm!Spec

\* A client that has gone is removed from the list, whatever the session was
\* doing and although its last lines may take it out of CLOSED again.
GoneIsRemoved ==
  peer = "gone" ~> phase \in {"removed", "stopped", "dead"}

-----------------------------------------------------------------------------
\* What the documentation of the program says, and the program does not do.

\* report.tex:163: the timeout closes the clients that are not heard of.
SilentIsClosed ==
  peer = "silent" ~>
    state = "CLOSED" \/ peer = "gone" \/ phase \in {"stopped", "dead"}
=============================================================================
