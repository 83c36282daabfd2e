--------------------------- MODULE SmtpConnection ---------------------------
(***************************************************************************)
(* One outgoing SMTP connection of the mail client: the record FileDesc of *)
(* client/structs.h and the handlers of client/smtp_interface.c that       *)
(* SMTP_Control dispatches on current_state.                               *)
(*                                                                         *)
(* A handler is one action.  The results of the socket and file calls it   *)
(* makes are its nondeterministic inputs; what it returns is left in       *)
(* "status" for the worker loop that called it (module WorkerConnection).  *)
(***************************************************************************)
EXTENDS Integers, Sequences

CONSTANTS
  Letter,        \* the letters addressed to the domain of this connection
  Lines,         \* the number of lines of a letter
  SendResult,    \* what send() may do: "sent", "block", "error", or "killed"
                 \* (SIGPIPE on a connection the peer has closed)
  ErrorReturn,   \* what handleSmtpError, which has no return value, may leave
  FreshMemory    \* what a pointer nobody wrote holds in a malloc-ed FileDesc

ASSUME ConnectionAssumption ==
  /\ Lines \in Nat \ {0}
  /\ SendResult \subseteq {"sent", "block", "error", "killed"}
  /\ ErrorReturn \subseteq {"ok", "block", "fail"}
  /\ FreshMemory \subseteq {"null", "stale"}

VARIABLES
  current,    \* current_state
  prev,       \* prev_state
  attempt,    \* attempt; -1 until the first assignment
  task_pool,  \* task_pool, the letters of the linked list in order
  file,       \* meta_data.file: "null", "open", or "stale" (not a live FILE)
  names,      \* meta_data.from and .to: "null", "set" or "stale"
  read,       \* lines fgets has taken from the open letter
  sent,       \* history: lines of the head letter sent since its DATA reply
  socket,     \* "none", "open" or "closed"
  place,      \* the maildir folder that holds each letter
  record,     \* does the dictionary hold a record of the domain?
  status      \* result of the last call of SMTP_Control

letterVars == <<attempt, task_pool, file, names, read, sent, place>>
dataVars   == <<letterVars, socket, record>>
connVars   == <<current, prev, dataVars, status>>

Receiving ==
  {"RECEIVE_SMTP_GREETING", "RECEIVE_EHLO_RESPONSE",
   "RECEIVE_MAIL_FROM_RESPONSE", "RECEIVE_RCPT_TO_RESPONSE",
   "RECEIVE_DATA_RESPONSE", "RECEIVE_LETTER_RESPONSE",
   "RECEIVE_QUIT_RESPONSE", "RECEIVE_RSET_RESPONSE"}

Sending ==
  {"SEND_EHLO", "SEND_MAIL_FROM", "SEND_RCPT_TO", "SEND_DATA", "SEND_LETTER",
   "SEND_QUIT", "SEND_RSET"}

State ==
  Receiving \cup Sending \cup
  {"NULL_POINTER", "SMTP_ERROR", "PREPARE_SOCKET_CONNECTION",
   "DISPOSING_SOCKET"}

\* The states below 2 of states.h: the server has not greeted yet.
BeforeGreeting == {"NULL_POINTER", "SMTP_ERROR", "PREPARE_SOCKET_CONNECTION",
                   "RECEIVE_SMTP_GREETING"}

\* The cases of the switch of handleSmtpError; its other states have none.
Unsolvable ==
  {"PREPARE_SOCKET_CONNECTION", "RECEIVE_SMTP_GREETING", "SEND_EHLO",
   "RECEIVE_EHLO_RESPONSE", "SEND_QUIT", "RECEIVE_QUIT_RESPONSE",
   "SEND_RSET", "RECEIVE_RSET_RESPONSE"}

Solvable ==
  {"SEND_MAIL_FROM", "RECEIVE_MAIL_FROM_RESPONSE", "SEND_DATA",
   "RECEIVE_DATA_RESPONSE", "SEND_LETTER", "RECEIVE_LETTER_RESPONSE"}

\* The letters of a linked list of tasks.
Listed(tasks) == {tasks[i] : i \in DOMAIN tasks}

\* MoveLetter on each letter of a set.
Moved(letters, folder) ==
  [l \in Letter |-> IF l \in letters THEN folder ELSE place[l]]

-----------------------------------------------------------------------------
\* How a handler ends.

Advance(next) == current' = next /\ prev' = current /\ status' = "ok"
Blocked       == UNCHANGED <<current, prev>> /\ status' = "block"
Fail          == current' = "SMTP_ERROR" /\ prev' = prev /\ status' = "fail"
\* The process dies: SIGPIPE, or a pointer that is not one.
Crash         == UNCHANGED <<current, prev>> /\ status' = "crash"
\* Using a stale pointer is undefined: it may do harm at once, or not.
MayCrash(ptr) == ptr = "stale" /\ Crash

\* send() and what the handler does with its result.
Send(next, OnError) ==
  \/ "sent" \in SendResult /\ Advance(next)
  \/ "block" \in SendResult /\ Blocked
  \/ "error" \in SendResult /\ OnError
  \/ "killed" \in SendResult /\ Crash

\* A handler that sends one command: it checks the two states, sends, goes on.
SendCommand(state, before, next) ==
  /\ current = state
  /\ \/ prev \notin before /\ Fail
     \/ prev \in before /\ Send(next, Fail)

\* A handler that waits for one reply, up to the reply it expects: recv would
\* block, or failed, or brought another reply (after the peer has closed, recv
\* returns 0 and the handler reads whatever its buffer holds).
NoGoodReply(state, before) ==
  /\ current = state
  /\ \/ Fail
     \/ prev \in before /\ Blocked

GoodReply(state, before) == current = state /\ prev \in before

-----------------------------------------------------------------------------
\* Opening and the dialogue up to the first letter.

\* A FileDesc as addNewSocketConnection allocates it.
Allocated ==
  /\ current = "PREPARE_SOCKET_CONNECTION"
  /\ prev = "NULL_POINTER"
  /\ attempt = -1
  /\ task_pool = <<>>
  /\ file \in FreshMemory
  /\ names = file
  /\ read = 0
  /\ sent = 0
  /\ socket = "none"

handlePrepareSocketConnection ==
  /\ current = "PREPARE_SOCKET_CONNECTION"
  /\ \/ \* a wrong previous state, or the MX record is not found
        /\ UNCHANGED <<current, prev, socket>>
        /\ status' = "fail"
     \/ \* an option, the flags or the address is refused after socket()
        /\ prev = "NULL_POINTER"
        /\ UNCHANGED <<current, prev>>
        /\ socket' = "open"
        /\ status' = "fail"
     \/ \* connect() was called, whatever it answered
        /\ prev = "NULL_POINTER"
        /\ current' = "RECEIVE_SMTP_GREETING"
        /\ prev' = "PREPARE_SOCKET_CONNECTION"
        /\ socket' = "open"
        /\ status' \in {"ok", "block"}
  /\ UNCHANGED <<letterVars, record>>

handleGreeting ==
  LET before == {"PREPARE_SOCKET_CONNECTION"} IN
  /\ \/ NoGoodReply("RECEIVE_SMTP_GREETING", before)
     \/ /\ GoodReply("RECEIVE_SMTP_GREETING", before)
        /\ \/ Advance("SEND_EHLO")
           \/ \* 421
              current' = "DISPOSING_SOCKET" /\ prev' = prev /\ status' = "ok"
  /\ UNCHANGED dataVars

handleSendEHLO ==
  /\ SendCommand("SEND_EHLO", {"RECEIVE_SMTP_GREETING"},
                 "RECEIVE_EHLO_RESPONSE")
  /\ UNCHANGED dataVars

\* Mutant of handleResponseOfEHLO: it forgets to start the counter of attempts.
EHLOWithoutCounter ==
  LET before == {"SEND_EHLO"} IN
  /\ \/ NoGoodReply("RECEIVE_EHLO_RESPONSE", before)
     \/ /\ GoodReply("RECEIVE_EHLO_RESPONSE", before)
        /\ \/ Advance("SEND_MAIL_FROM")
           \/ current' = "DISPOSING_SOCKET" /\ prev' = prev /\ status' = "ok"
  /\ UNCHANGED dataVars

handleResponseOfEHLO ==
  LET before == {"SEND_EHLO"} IN
  /\ \/ /\ NoGoodReply("RECEIVE_EHLO_RESPONSE", before)
        /\ UNCHANGED attempt
     \/ /\ GoodReply("RECEIVE_EHLO_RESPONSE", before)
        /\ \/ Advance("SEND_MAIL_FROM") /\ attempt' = 0
           \/ \* 421
              /\ current' = "DISPOSING_SOCKET" /\ prev' = prev
              /\ status' = "ok" /\ UNCHANGED attempt
  /\ UNCHANGED <<task_pool, file, names, read, sent, place, socket, record>>

-----------------------------------------------------------------------------
\* The dialogue for the letter at the head of task_pool.

\* handleSendMailFrom alone moves prev_state when it fails.  (A mutant of it
\* fails as the other handlers do: FailHere as Fail.)
FailHere == current' = "SMTP_ERROR" /\ prev' = current /\ status' = "fail"

handleSendMailFrom ==
  LET before == {"RECEIVE_EHLO_RESPONSE", "RECEIVE_LETTER_RESPONSE",
                 "RECEIVE_RSET_RESPONSE"} IN
  /\ current = "SEND_MAIL_FROM"
  /\ \/ prev \notin before /\ FailHere /\ UNCHANGED names
     \/ \* task_pool->path of an empty list
        prev \in before /\ task_pool = <<>> /\ Crash /\ UNCHANGED names
     \/ \* the letter cannot be opened
        prev \in before /\ task_pool # <<>> /\ FailHere /\ UNCHANGED names
     \/ prev \in before /\ task_pool # <<>> /\ MayCrash(names) /\ UNCHANGED names
     \/ \* the names are freed, then found or not
        /\ prev \in before /\ task_pool # <<>>
        /\ \/ names' \in {"null", "set"} /\ FailHere
           \/ /\ names' = "set"
              /\ Send("RECEIVE_MAIL_FROM_RESPONSE", FailHere)
  /\ UNCHANGED <<attempt, task_pool, file, read, sent, place, socket, record>>

handleResponseOfMailFrom ==
  LET before == {"SEND_MAIL_FROM"} IN
  /\ \/ NoGoodReply("RECEIVE_MAIL_FROM_RESPONSE", before)
     \/ /\ GoodReply("RECEIVE_MAIL_FROM_RESPONSE", before)
        /\ Advance("SEND_RCPT_TO")
  /\ UNCHANGED dataVars

handleSendRCPTto ==
  /\ SendCommand("SEND_RCPT_TO", {"RECEIVE_MAIL_FROM_RESPONSE"},
                 "RECEIVE_RCPT_TO_RESPONSE")
  /\ UNCHANGED dataVars

handleResponseOfRCPTto ==
  LET before == {"SEND_RCPT_TO"} IN
  /\ \/ NoGoodReply("RECEIVE_RCPT_TO_RESPONSE", before)
     \/ /\ GoodReply("RECEIVE_RCPT_TO_RESPONSE", before)
        /\ Advance("SEND_DATA")
  /\ UNCHANGED dataVars

handleSendDATA ==
  /\ SendCommand("SEND_DATA", {"RECEIVE_RCPT_TO_RESPONSE"},
                 "RECEIVE_DATA_RESPONSE")
  /\ UNCHANGED dataVars

handleResponseOfDATA ==
  LET before == {"SEND_DATA"} IN
  /\ \/ /\ NoGoodReply("RECEIVE_DATA_RESPONSE", before)
        /\ UNCHANGED sent
     \/ /\ GoodReply("RECEIVE_DATA_RESPONSE", before)
        /\ Advance("SEND_LETTER")
        /\ sent' = 0
  /\ UNCHANGED <<attempt, task_pool, file, names, read, place, socket, record>>

\* The reading and sending loop.  A line that would block has been read, and
\* "read" lines are behind the FILE when the handler runs again.
LetterLines(start) ==
  \/ /\ "sent" \in SendResult
     /\ Advance("RECEIVE_LETTER_RESPONSE")
     /\ sent' = sent + (Lines - start)
     /\ file' = "null" /\ read' = 0
  \/ \E last \in start .. Lines :
        \* the lines start+1 .. last were sent, the next one was not
        /\ last = start \/ "sent" \in SendResult
        /\ \/ "block" \in SendResult /\ Blocked
           \/ "error" \in SendResult /\ Fail
           \/ "killed" \in SendResult /\ Crash
        /\ sent' = sent + (last - start)
        /\ read' = IF last < Lines THEN last + 1 ELSE Lines
        /\ file' = "open"

\* fgets on a FILE that is not open: nothing is read, the terminator goes out.
StaleLines ==
  \/ MayCrash(file) /\ UNCHANGED file
  \/ "sent" \in SendResult /\ Advance("RECEIVE_LETTER_RESPONSE") /\ file' = "null"
  \/ "block" \in SendResult /\ Blocked /\ UNCHANGED file
  \/ "error" \in SendResult /\ Fail /\ UNCHANGED file
  \/ "killed" \in SendResult /\ Crash /\ UNCHANGED file

handleSendLetter ==
  /\ current = "SEND_LETTER"
  /\ \/ prev # "RECEIVE_DATA_RESPONSE" /\ Fail /\ UNCHANGED <<file, read, sent>>
     \/ \* fopen fails
        /\ prev = "RECEIVE_DATA_RESPONSE" /\ file = "null"
        /\ Fail /\ UNCHANGED <<file, read, sent>>
     \/ prev = "RECEIVE_DATA_RESPONSE" /\ file = "null" /\ LetterLines(0)
     \/ prev = "RECEIVE_DATA_RESPONSE" /\ file = "open" /\ LetterLines(read)
     \/ /\ prev = "RECEIVE_DATA_RESPONSE" /\ file = "stale"
        /\ StaleLines /\ UNCHANGED <<read, sent>>
  /\ UNCHANGED <<attempt, task_pool, names, place, socket, record>>

handleResponseOfLetter ==
  LET before == {"SEND_LETTER"} IN
  /\ \/ /\ NoGoodReply("RECEIVE_LETTER_RESPONSE", before)
        /\ UNCHANGED <<attempt, task_pool, place, record>>
     \/ /\ GoodReply("RECEIVE_LETTER_RESPONSE", before)
        /\ task_pool # <<>>
        /\ place' = Moved({Head(task_pool)}, "current")
        /\ task_pool' = Tail(task_pool)
        /\ \/ /\ Tail(task_pool) # <<>>
              /\ attempt' = 0
              /\ Advance("SEND_MAIL_FROM") /\ UNCHANGED record
           \/ /\ Tail(task_pool) = <<>>
              /\ record' = FALSE
              /\ Advance("SEND_QUIT") /\ UNCHANGED attempt
     \/ \* task_pool->path of an empty list
        /\ GoodReply("RECEIVE_LETTER_RESPONSE", before)
        /\ task_pool = <<>> /\ Crash
        /\ UNCHANGED <<attempt, task_pool, place, record>>
  /\ UNCHANGED <<file, names, read, sent, socket>>

-----------------------------------------------------------------------------
\* Leaving, and errors.

handleSendQUIT ==
  /\ SendCommand("SEND_QUIT", {"RECEIVE_LETTER_RESPONSE"},
                 "RECEIVE_QUIT_RESPONSE")
  /\ UNCHANGED dataVars

\* Mutant of handleResponseOfQUIT: it skips the state that closes the socket.
QUITWithoutDisposing ==
  /\ \/ NoGoodReply("RECEIVE_QUIT_RESPONSE", {"SEND_QUIT"})
     \/ /\ GoodReply("RECEIVE_QUIT_RESPONSE", {"SEND_QUIT"})
        /\ Advance("NULL_POINTER")
  /\ UNCHANGED dataVars

handleResponseOfQUIT ==
  LET before == {"SEND_QUIT"} IN
  /\ \/ NoGoodReply("RECEIVE_QUIT_RESPONSE", before)
     \/ /\ GoodReply("RECEIVE_QUIT_RESPONSE", before)
        /\ Advance("DISPOSING_SOCKET")
  /\ UNCHANGED dataVars

handleDisposing ==
  LET before == {"RECEIVE_QUIT_RESPONSE", "SMTP_ERROR",
                 "PREPARE_SOCKET_CONNECTION"} IN
  /\ current = "DISPOSING_SOCKET"
  /\ \/ prev \notin before /\ Fail /\ UNCHANGED <<socket, names>>
     \/ /\ prev \in before
        /\ socket' = "closed"
        /\ \/ MayCrash(names) /\ UNCHANGED names
           \/ /\ current' = "NULL_POINTER" /\ prev' = "DISPOSING_SOCKET"
              /\ status' = "ok"
              /\ names' = IF names = "null" THEN "null" ELSE "stale"
  /\ UNCHANGED <<attempt, task_pool, file, read, sent, place, record>>

\* Errors that end the connection: every letter goes back to "new".
GiveBackAll ==
  /\ prev \in Unsolvable
  /\ \/ MayCrash(file) /\ record' = FALSE
        /\ UNCHANGED <<task_pool, place, file>>
     \/ /\ record' = FALSE
        /\ file' = IF file = "null" THEN "null" ELSE "stale"
        /\ place' = Moved(Listed(task_pool), "new")
        /\ task_pool' = <<>>
        /\ current' = "DISPOSING_SOCKET" /\ prev' = "SMTP_ERROR"
        /\ status' \in ErrorReturn
  /\ read' = 0
  /\ UNCHANGED <<attempt, names>>

\* Mutants of TryAgain: it counts and has no limit; it does not count; it leaves
\* the letter open.
CountWithoutLimit ==
  /\ prev \in Solvable
  /\ attempt' = attempt + 1
  /\ file' = "null" /\ names' = "null" /\ read' = 0
  /\ current' = "SEND_RSET" /\ prev' = "SMTP_ERROR" /\ status' \in ErrorReturn
  /\ UNCHANGED <<task_pool, place, record>>
TryForEver ==
  /\ prev \in Solvable /\ attempt = 0
  /\ file' = "null" /\ names' = "null" /\ read' = 0
  /\ current' = "SEND_RSET" /\ prev' = "SMTP_ERROR" /\ status' \in ErrorReturn
  /\ UNCHANGED <<attempt, task_pool, place, record>>
TryWithFileOpen ==
  /\ prev \in Solvable /\ attempt = 0
  /\ attempt' = 1
  /\ current' = "SEND_RSET" /\ prev' = "SMTP_ERROR" /\ status' \in ErrorReturn
  /\ UNCHANGED <<file, names, read, task_pool, place, record>>

\* The first error with attempt = 0: the head letter will be tried again.
TryAgain ==
  /\ prev \in Solvable /\ attempt = 0
  /\ \/ MayCrash(file) /\ UNCHANGED <<attempt, file, names, read>>
     \/ MayCrash(names) /\ UNCHANGED <<attempt, file, names, read>>
     \/ /\ attempt' = 1
        /\ file' = "null" /\ names' = "null" /\ read' = 0
        /\ current' = "SEND_RSET" /\ prev' = "SMTP_ERROR"
        /\ status' \in ErrorReturn
  /\ UNCHANGED <<task_pool, place, record>>

\* Mutant of DropLetter: the letter stays in "tmp".
DropWithoutMoving ==
  /\ prev \in Solvable /\ attempt # 0 /\ task_pool # <<>>
  /\ file' = IF file = "null" THEN "null" ELSE "stale"
  /\ task_pool' = Tail(task_pool)
  /\ current' = "SEND_RSET" /\ prev' = "SMTP_ERROR" /\ status' \in ErrorReturn
  /\ read' = 0
  /\ UNCHANGED <<place, attempt, names, record>>

\* Otherwise the head letter goes back to "new" and the next one takes its
\* place; neither attempt nor the pointer to the closed file is reset.
DropLetter ==
  /\ prev \in Solvable /\ attempt # 0
  /\ \/ MayCrash(file) /\ UNCHANGED <<task_pool, place, file>>
     \/ /\ task_pool = <<>> /\ Crash /\ UNCHANGED <<task_pool, place, file>>
     \/ /\ task_pool # <<>>
        /\ file' = IF file = "null" THEN "null" ELSE "stale"
        /\ place' = Moved({Head(task_pool)}, "new")
        /\ task_pool' = Tail(task_pool)
        /\ current' = "SEND_RSET" /\ prev' = "SMTP_ERROR"
        /\ status' \in ErrorReturn
  /\ read' = 0
  /\ UNCHANGED <<attempt, names, record>>

\* The other previous states match no case of the switch.
NoCase ==
  /\ prev \notin Unsolvable \cup Solvable
  /\ UNCHANGED <<current, prev, letterVars, record>>
  /\ status' \in ErrorReturn

handleSmtpError ==
  /\ current = "SMTP_ERROR"
  /\ GiveBackAll \/ TryAgain \/ DropLetter \/ NoCase
  /\ UNCHANGED <<sent, socket>>

handleSolvableMistake ==
  /\ SendCommand("SEND_RSET", {"SMTP_ERROR"}, "RECEIVE_RSET_RESPONSE")
  /\ UNCHANGED dataVars

handleResponseOfRSET ==
  LET before == {"SEND_RSET"} IN
  /\ \/ NoGoodReply("RECEIVE_RSET_RESPONSE", before)
     \/ /\ GoodReply("RECEIVE_RSET_RESPONSE", before)
        /\ \/ task_pool # <<>> /\ Advance("SEND_MAIL_FROM")
           \/ task_pool = <<>> /\ Advance("SEND_QUIT")
  /\ UNCHANGED dataVars

\* The default of the switch.
UnknownState ==
  /\ current = "NULL_POINTER"
  /\ status' = "fail"
  /\ UNCHANGED <<current, prev, dataVars>>

SMTP_Control ==
  \/ handlePrepareSocketConnection \/ handleGreeting
  \/ handleSendEHLO                \/ handleResponseOfEHLO
  \/ handleSendMailFrom            \/ handleResponseOfMailFrom
  \/ handleSendRCPTto              \/ handleResponseOfRCPTto
  \/ handleSendDATA                \/ handleResponseOfDATA
  \/ handleSendLetter              \/ handleResponseOfLetter
  \/ handleSendQUIT                \/ handleResponseOfQUIT
  \/ handleDisposing               \/ handleSmtpError
  \/ handleSolvableMistake         \/ handleResponseOfRSET
  \/ UnknownState
=============================================================================
