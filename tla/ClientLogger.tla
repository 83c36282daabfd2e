----------------------------- MODULE ClientLogger -----------------------------
(***************************************************************************)
(* The logger thread of the mail client (client/logger.c): the other       *)
(* threads put messages into a small queue without waiting (Error), the    *)
(* logger writes what it finds there to a file (InitLogger).  The queue    *)
(* belongs to the system and outlives the program, so a new run may find   *)
(* messages of the one before it.                                          *)
(*                                                                         *)
(* The logger ends when logger_worked is cleared by the handler of         *)
(* SIGUSR1, the signal by which the main thread wakes its workers.         *)
(***************************************************************************)
EXTENDS Integers, Sequences

CONSTANTS
  Message,     \* each is logged once
  MaxMsg,      \* MAX_COUNT_MSG
  OpenResult,  \* whether fopen may succeed, and fail
  MaxRuns      \* bound: how often the program is started

ASSUME LoggerAssumption ==
  MaxMsg \in Nat \ {0} /\ MaxRuns \in Nat \ {0} /\ OpenResult \subseteq BOOLEAN

VARIABLES
  run,            \* the number of the present run of the program
  said,           \* the run in which each message was passed to Error, or 0
  queue,          \* what the system keeps under QUEUE_NAME
  logger_worked,
  opened,         \* InitLogger: has this batch opened the file?
  log,            \* InitLogger: what the pointer to FILE is worth
  buffered,       \* what was printed to the open file
  app_log,        \* the file: each line with the run that wrote it
  accepted,       \* history: what entered the queue since the last flush
  missed,         \* history: what was received while fopen failed
  woken,          \* history: has a signal ended a pselect of the logger?
  pc              \* where the logger is

fileVars == <<opened, log, buffered, app_log, missed>>
vars == <<run, said, queue, logger_worked, fileVars, accepted, woken, pc>>

\* "dead": the program has ended, or crashed.
Live == {"looping", "waiting", "draining", "disposing"}
Dead == {"dead", "crashed"}

TypeOK ==
  /\ run \in 1 .. MaxRuns
  /\ said \in [Message -> 0 .. MaxRuns]
  /\ queue \in Seq(Message) /\ Len(queue) <= MaxMsg
  /\ logger_worked \in BOOLEAN /\ opened \in BOOLEAN /\ woken \in BOOLEAN
  /\ log \in {"unset", "open", "closed", "null"}
  /\ buffered \in Seq(Message) /\ accepted \in Seq(Message)
  /\ app_log \in Seq([line : Message, run : 1 .. MaxRuns])
  /\ missed \subseteq Message
  /\ pc \in {"opening", "flushing", "ended", "failed"} \cup Live \cup Dead

Init ==
  /\ run = 1
  /\ said = [m \in Message |-> 0]
  /\ queue = <<>>
  /\ logger_worked = TRUE /\ opened = FALSE /\ log = "unset" /\ woken = FALSE
  /\ buffered = <<>> /\ app_log = <<>> /\ accepted = <<>> /\ missed = {}
  /\ pc = "opening"

-----------------------------------------------------------------------------
\* The other threads.

\* message_queue is a descriptor of the queue.
HasQueue == pc \in {"flushing"} \cup Live
NoRoom == Len(queue) = MaxMsg

\* Mutant of Error: the size of the queue is not looked at.
ErrorAnyway(m) ==
  /\ pc \notin Dead /\ said[m] = 0
  /\ said' = [said EXCEPT ![m] = run]
  /\ IF HasQueue
     THEN queue' = Append(queue, m) /\ accepted' = Append(accepted, m)
     ELSE UNCHANGED <<queue, accepted>>
  /\ UNCHANGED <<run, logger_worked, fileVars, woken, pc>>

\* mq_send does not wait: a message is lost when the queue is full, or not open.
Error(m) ==
  /\ pc \notin Dead /\ said[m] = 0
  /\ said' = [said EXCEPT ![m] = run]
  /\ IF HasQueue /\ ~ NoRoom
     THEN queue' = Append(queue, m) /\ accepted' = Append(accepted, m)
     ELSE UNCHANGED <<queue, accepted>>
  /\ UNCHANGED <<run, logger_worked, fileVars, woken, pc>>

\* A worker gets SIGUSR1 in its pselect.  handlerForLogger belongs to all
\* threads; before it is installed the signal kills the program.
Signal ==
  /\ pc \notin Dead
  /\ IF pc \in {"opening", "flushing", "failed"}
     THEN pc' = "dead" /\ UNCHANGED logger_worked
     ELSE logger_worked' = FALSE /\ UNCHANGED pc
  /\ UNCHANGED <<run, said, queue, fileVars, accepted, woken>>

Ended(text) ==
  /\ pc \notin Dead
  /\ pc' = "dead"
  /\ app_log' = app_log \o [i \in DOMAIN text |-> [line |-> text[i], run |-> run]]
  /\ buffered' = <<>>
  /\ UNCHANGED <<run, said, queue, logger_worked, opened, log, accepted, missed, woken>>

\* main returns, and does not wait for the logger: open files are flushed.  Or
\* the program is killed.
Exit == Ended(buffered)
Kill == Ended(<<>>)

\* The program is started again: it finds the queue and the file.
Restart ==
  /\ pc \in Dead /\ run < MaxRuns
  /\ run' = run + 1
  /\ pc' = "opening"
  /\ logger_worked' = TRUE /\ opened' = FALSE /\ log' = "unset" /\ woken' = FALSE
  /\ buffered' = <<>>
  /\ UNCHANGED <<said, queue, app_log, accepted, missed>>

-----------------------------------------------------------------------------
\* The logger.

Opened ==
  /\ pc = "opening"
  /\ pc' \in {"flushing", "failed"}
  /\ UNCHANGED <<run, said, queue, logger_worked, fileVars, accepted, woken>>

\* Mutant of Flush: one message is taken out.
FlushOne ==
  /\ pc = "flushing"
  /\ queue' = IF queue = <<>> THEN queue ELSE Tail(queue)
  /\ pc' = "looping"
  /\ accepted' = queue'
  /\ UNCHANGED <<run, said, logger_worked, fileVars, woken>>

\* Messages are taken out until there is none, then the handler is installed.
Flush ==
  /\ pc = "flushing"
  /\ IF queue # <<>>
     THEN queue' = Tail(queue) /\ UNCHANGED <<accepted, pc>>
     ELSE pc' = "looping" /\ accepted' = <<>> /\ UNCHANGED queue
  /\ UNCHANGED <<run, said, logger_worked, fileVars, woken>>

Loop ==
  /\ pc = "looping"
  /\ pc' = IF logger_worked THEN "waiting" ELSE "disposing"
  /\ UNCHANGED <<run, said, queue, logger_worked, fileVars, accepted, woken>>

\* Mutant of Wake: opened belongs to the loop outside.
WakeOpened ==
  /\ pc = "waiting"
  /\ \/ queue # <<>> /\ UNCHANGED woken
     \/ woken' = TRUE
  /\ pc' = "draining"
  /\ UNCHANGED <<run, said, queue, logger_worked, fileVars, accepted>>

\* pselect returns: there is a message, or a signal came that the main thread
\* did not take.
Wake ==
  /\ pc = "waiting"
  /\ \/ queue # <<>> /\ UNCHANGED woken
     \/ woken' = TRUE
  /\ opened' = FALSE
  /\ pc' = "draining"
  /\ UNCHANGED <<run, said, queue, logger_worked, log, buffered, app_log, accepted, missed>>

\* Mutant of Receive: the file is opened for writing, not for appending.
ReceiveAnew ==
  /\ pc = "draining" /\ queue # <<>>
  /\ queue' = Tail(queue)
  /\ opened' = TRUE /\ log' = "open" /\ UNCHANGED missed
  /\ buffered' = Append(buffered, Head(queue))
  /\ app_log' = IF opened THEN app_log ELSE <<>>
  /\ UNCHANGED <<run, said, logger_worked, accepted, woken, pc>>

\* A message is printed to the file, which the first one opens; when that fails
\* the message is lost and the next one tries again.
Receive ==
  /\ pc = "draining" /\ queue # <<>>
  /\ queue' = Tail(queue)
  /\ \/ /\ opened
        /\ buffered' = Append(buffered, Head(queue))
        /\ UNCHANGED <<opened, log, missed>>
     \/ /\ ~ opened /\ TRUE \in OpenResult
        /\ opened' = TRUE /\ log' = "open" /\ UNCHANGED missed
        /\ buffered' = Append(buffered, Head(queue))
     \/ /\ ~ opened /\ FALSE \in OpenResult
        /\ log' = "null" /\ missed' = missed \cup {Head(queue)}
        /\ UNCHANGED <<opened, buffered>>
  /\ UNCHANGED <<run, said, logger_worked, app_log, accepted, woken, pc>>

\* Mutant of Drained: the file stays open.
DrainedOpen ==
  /\ pc = "draining" /\ queue = <<>>
  /\ pc' = "looping"
  /\ UNCHANGED <<run, said, queue, logger_worked, fileVars, accepted, woken>>

\* The queue is empty: fclose, of whatever log is.
Drained ==
  /\ pc = "draining" /\ queue = <<>>
  /\ IF log = "open"
     THEN /\ app_log' = app_log \o [i \in DOMAIN buffered |->
                                     [line |-> buffered[i], run |-> run]]
          /\ buffered' = <<>> /\ log' = "closed" /\ pc' = "looping"
     ELSE /\ pc' \in {"looping", "crashed"}
          /\ UNCHANGED <<app_log, buffered, log>>
  /\ UNCHANGED <<run, said, queue, logger_worked, opened, accepted, missed, woken>>

\* The queue is closed and removed, with what came after the last batch.
disposeLogger ==
  /\ pc = "disposing"
  /\ pc' = "ended" /\ queue' = <<>>
  /\ UNCHANGED <<run, said, logger_worked, fileVars, accepted, woken>>

InitLogger == Opened \/ Flush \/ Loop \/ Wake \/ Receive \/ Drained \/ disposeLogger

Next == InitLogger \/ Signal \/ Exit \/ Kill \/ Restart \/ \E m \in Message : Error(m)

Spec == Init /\ [][Next]_vars

\* The logger is scheduled; the others need not do anything.
FairSpec == Spec /\ WF_vars(InitLogger)

-----------------------------------------------------------------------------
\* What this run has kept of the messages: written, printed, and in the queue.
Lines(entries) == [i \in DOMAIN entries |-> entries[i].line]
Kept == Lines(app_log) \o buffered \o queue
OfThisRun == {i \in DOMAIN Kept : i > Len(app_log) \/ app_log[i].run = run}

\* m was accepted by the queue before n.
Before(m, n) ==
  \E i, j \in DOMAIN accepted : i < j /\ accepted[i] = m /\ accepted[j] = n

\* What the queue accepted reaches the file once and in order, in however many
\* batches: it is written, printed, or still in the queue, except for the
\* messages received while the file could not be opened (logger.c:61-84).
KeptInOrder ==
  pc \in Live =>
    /\ {Kept[i] : i \in OfThisRun} = {accepted[i] : i \in DOMAIN accepted} \ missed
    /\ \A i, j \in OfThisRun : i < j => Before(Kept[i], Kept[j])

\* No run writes what an earlier one left in the queue, whether that run ended,
\* crashed or was killed (logger.c:29-34, 107-113).
FreshLog == \A i \in DOMAIN app_log : said[app_log[i].line] = app_log[i].run

\* The FILE that fclose gets at the end of a batch is open, whatever batches
\* came before: only a signal that brings no message, or a file that cannot be
\* opened, makes the logger use one that is not (logger.c:84).
NoStaleFile == pc = "crashed" => woken \/ log = "null"

\* A message in the queue leaves it, and what was printed reaches the file: the
\* logger does not go to sleep on either, even if it is told to end.
LogIsWritten ==
  pc \in Live /\ (queue # <<>> \/ buffered # <<>>) ~>
    (queue = <<>> /\ buffered = <<>>) \/ pc \in Dead
=============================================================================
