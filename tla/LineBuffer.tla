----------------------------- MODULE LineBuffer -----------------------------
(***************************************************************************)
(* The input of a session of the server byte by byte: how                  *)
(* new_smtp_handler_with_states (server/smtp.c) receives into              *)
(* c_sock->buffer, cuts lines out of it and moves the rest to the front,   *)
(* and how handle_TEXT makes room for a line in the body of the letter.    *)
(*                                                                         *)
(* recv always writes at the start of the buffer (buffer_offset stays 0)   *)
(* and writes no NUL; strstr reads up to the first NUL, whoever left it    *)
(* there.  What a line does to the session is SmtpSession; here a command  *)
(* may start a letter or leave the loop over the lines (QUIT), and the     *)
(* line "." ends a letter.                                                 *)
(***************************************************************************)
EXTENDS Integers, Sequences

CONSTANTS
  Size,         \* SERVER_BUFFER_SIZE
  Cut,          \* the length of a command word, 4
  Growth,       \* SERVER_BUFFER_SIZE * 2
  Fresh,        \* what malloc may leave in the buffer
  Line,         \* the lines the client sends
  Rest,         \* the beginnings of lines that may end a segment
  MaxLines,     \* bound: complete lines in a segment
  MaxSegments,  \* bound: segments that arrive while lines are handled
  MaxBody       \* bound: the body, which a line that comes back for ever feeds

\* CR, LF, NUL, a dot, and any other character.
Char == {"r", "n", "0", ".", "a"}

ASSUME BufferAssumption ==
  /\ Size \in Nat /\ Cut \in 1 .. Size - 1
  /\ Growth \in Nat /\ Growth > Size
  /\ Line \cup Rest \subseteq Seq(Char) /\ Fresh \subseteq [1 .. Size -> Char]
  /\ MaxLines \in Nat /\ MaxSegments \in Nat /\ MaxBody \in Nat

\* A line has neither its end nor a NUL inside it.  What a client sends besides
\* such lines, a NUL for instance, is a Rest, which may be anything.
ASSUME LineAssumption ==
  \A line \in Line : \A i \in 1 .. Len(line) :
    /\ line[i] # "0"
    /\ i < Len(line) => ~ (line[i] = "r" /\ line[i + 1] = "n")

VARIABLES
  buffer,
  input_message,
  body,          \* strlen(message->body)
  body_length,   \* message->body_length
  segments,      \* segments received so far
  due,           \* history: the lines received and not handled
  orderly,       \* history: has everything arrived in an orderly way?
  exact,         \* history: were the lines handled the lines received?
  pc             \* "waiting" or "handling": outside or inside the loop over
                 \* the lines; "closed": QUIT was answered; "crashed"

vars == <<buffer, input_message, body, body_length, segments, due, orderly,
          exact, pc>>

Init ==
  /\ buffer \in Fresh
  /\ input_message = FALSE
  /\ body = 0 /\ body_length = 0
  /\ segments = 0
  /\ due = <<>>
  /\ orderly = \A i \in 1 .. Size : buffer[i] # "n"
  /\ exact = TRUE
  /\ pc = "waiting"

\* strstr(buffer, "\r\n"): the line ends before a NUL.
Ends == {i \in 1 .. Size - 1 :
          /\ buffer[i] = "r" /\ buffer[i + 1] = "n"
          /\ \A j \in 1 .. i : buffer[j] # "0"}
Eol == CHOOSE i \in Ends : \A j \in Ends : i <= j

-----------------------------------------------------------------------------
\* Receiving.

\* Mutant of BufferLeft: the last byte is not kept free.
WholeBuffer == Size
BufferLeft == Size - 1

\* The bytes of lines (the first n of them), and of a segment.
LineBytes(lines) ==
  LET b[n \in 0 .. Len(lines)] ==
        IF n = 0 THEN <<>> ELSE b[n - 1] \o (lines[n] \o <<"r", "n">>)
  IN  b[Len(lines)]

\* What arrived in an orderly way: whole lines that fill at most half of the
\* buffer, when there was nothing left to handle in it.
Orderly(bytes, rest) == rest = <<>> /\ 2 * Len(bytes) <= Size /\ Ends = {}

Write(bytes) ==
  buffer' = [i \in 1 .. Size |-> IF i <= Len(bytes) THEN bytes[i] ELSE buffer[i]]

\* The socket is readable.
Receive(lines, rest) ==
  LET bytes == LineBytes(lines) \o rest IN
    /\ pc = "waiting" /\ segments < MaxSegments
    /\ Len(bytes) \in 1 .. BufferLeft
    /\ Write(bytes)
    /\ segments' = segments + 1
    /\ orderly' = (orderly /\ Orderly(bytes, rest))
    /\ due' = IF orderly' THEN due \o lines ELSE <<>>
    /\ UNCHANGED <<input_message, body, body_length, exact, pc>>

\* The socket is writable, and the handler looks for lines.
StartLines ==
  /\ pc = "waiting"
  /\ pc' = "handling"
  /\ UNCHANGED <<buffer, input_message, body, body_length, segments, due,
                 orderly, exact>>

-----------------------------------------------------------------------------
\* A turn of the loop.

\* The line is ended by a NUL in place of its CR; for a command another NUL
\* follows its word, wherever the line ends.
Terminated(command) ==
  [i \in 1 .. Size |-> IF i = Eol \/ (command /\ i = Cut + 1) THEN "0"
                       ELSE buffer[i]]

\* Mutant of Moved: only the CR of the line is skipped.
MovedByOne(cells) ==
  [i \in 1 .. Size |-> IF i + Eol <= Size THEN cells[i + Eol] ELSE cells[i]]

\* memmove of what follows the line; the end of the buffer stays as it is.
Moved(cells) ==
  [i \in 1 .. Size |-> IF i + Eol + 1 <= Size THEN cells[i + Eol + 1] ELSE cells[i]]

\* strstr has found a line: is it the line that is due?
TakeLine ==
  /\ pc = "handling" /\ Ends # {}
  /\ exact' = (exact /\ (orderly => due # <<>> /\ Head(due) = SubSeq(buffer, 1, Eol - 1)))

HandleLine(command) ==
  LET cuts == command /\ Cut > Eol   \* the NUL hits the line behind
  IN  /\ TakeLine /\ command = ~ input_message
      /\ buffer' = Moved(Terminated(command))
      /\ orderly' = (orderly /\ ~ cuts)
      /\ due' = IF orderly' /\ due # <<>> THEN Tail(due) ELSE <<>>
      /\ UNCHANGED <<segments, pc>>

\* A command; DATA starts a letter, with a body of one byte.
Command ==
  /\ HandleLine(TRUE)
  /\ input_message' \in {FALSE, Eol > Cut}
  /\ body' = 0 /\ body_length' = 0

\* "return handle_QUIT" leaves the loop before memmove, the NULs written.  When
\* the reply would block, the session goes on: the next segment is written over
\* the NULs, and the bytes behind it are in the buffer still.
Quit ==
  /\ TakeLine /\ ~ input_message /\ Eol > Cut
  /\ buffer' = Terminated(TRUE)
  /\ \/ pc' = "closed" /\ UNCHANGED orderly
     \/ pc' = "waiting" /\ orderly' = FALSE
  /\ due' = <<>>
  /\ UNCHANGED <<input_message, body, body_length, segments>>

\* Mutant of NoRoom: ">" in place of ">=".
NoRoomBeyond(len) == body + len > body_length
NoRoom(len) == body + len >= body_length

\* handle_TEXT: the line and a newline are appended to the body.
Text ==
  /\ body <= MaxBody
  /\ HandleLine(FALSE)
  /\ IF SubSeq(buffer, 1, Eol - 1) = <<".">>
     THEN input_message' = FALSE /\ body' = 0 /\ body_length' = 0
     ELSE /\ body' = body + Eol
          /\ body_length' = IF NoRoom(Eol - 1) THEN body + Growth ELSE body_length
          /\ UNCHANGED input_message

EndLines ==
  /\ pc = "handling" /\ Ends = {}
  /\ pc' = "waiting"
  /\ exact' = (exact /\ (orderly => due = <<>>))
  /\ due' = <<>>
  /\ UNCHANGED <<buffer, input_message, body, body_length, segments, orderly>>

\* Without a NUL in the buffer strstr reads on behind it.  A line found there
\* gives memmove a negative length; one not found ends the loop.
ReadBeyond ==
  /\ pc = "handling" /\ Ends = {}
  /\ \A i \in 1 .. Size : buffer[i] # "0"
  /\ pc' = "crashed"
  /\ UNCHANGED <<buffer, input_message, body, body_length, segments, due,
                 orderly, exact>>

Segments == UNION {[1 .. n -> Line] : n \in 0 .. MaxLines}

Handler == Command \/ Quit \/ Text \/ EndLines \/ ReadBeyond

Next ==
  \/ \E lines \in Segments, rest \in Rest : Receive(lines, rest)
  \/ StartLines
  \/ Handler

Spec == Init /\ [][Next]_vars
FairSpec == Spec /\ WF_vars(Handler)

-----------------------------------------------------------------------------
\* The lines handled are the lines that were sent, each once and in order, if
\* they arrive in an orderly way, the new buffer has no LF, no command is shorter
\* than its word by two characters, and no reply to QUIT would block: neither old
\* contents of the buffer, nor what memmove leaves at its end, nor the NULs
\* written into it come back as lines (smtp.c:264-345).  After a QUIT whose reply
\* blocks the lines behind it do come back (smtp.c:329, 577).
LinesAreHandled == orderly => exact

\* If malloc left a NUL in the last byte of the buffer, then in whatever way
\* segments arrive the loop over the lines ends: what memmove leaves at the end
\* of the buffer cannot feed it for ever, because recv never writes that byte
\* and neither a line nor memmove replaces it (smtp.c:246, 292-345).  Nothing is
\* promised of another byte, with which the loop may run for ever or strstr
\* leave the buffer (socket.c:185).
HandlingEnds ==
  buffer[Size] = "0" => (pc = "handling" ~> pc # "handling")

\* A letter of any length fits its body, but for its terminating NUL, which may
\* be one byte behind (smtp.c:627-635).
BodyFits == body <= body_length
=============================================================================
