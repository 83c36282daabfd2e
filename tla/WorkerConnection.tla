-------------------------- MODULE WorkerConnection --------------------------
(***************************************************************************)
(* A worker thread of the mail client serving one domain, and the main     *)
(* thread that finds letters for that domain: client/worker.c (run,        *)
(* processingTasks, closingConnections and the socket list),               *)
(* client/file_viewer.c (processingLetters), client/controller.c           *)
(* (DelegateTaskToWorker, Dispose) and client/dictionary.c, around the     *)
(* handlers of SmtpConnection.                                             *)
(*                                                                         *)
(* The two threads share the worker's list of tasks, its flag "worked",    *)
(* the dictionary and the maildir; a step is what one of them does between *)
(* two accesses to that shared state.                                      *)
(***************************************************************************)
EXTENDS SmtpConnection

CONSTANT NoLetter

ASSUME NoLetterAssumption == NoLetter \notin Letter

VARIABLES
  tasks,    \* worker->tasks, delegated and not yet taken, oldest first
  inhand,   \* main: the letter between FindDomainInDictionary and delegation
  worked,   \* worker->worked
  closing,  \* run: has closingConnections been called?
  waits,    \* the set of fd_set that holds the socket: "read", "write", "none"
  pc        \* the worker: "none" (no socket in its list), "idle" (one, and the
            \* worker is in pselect), "serving" (in the loop around
            \* SMTP_Control), "settling" (after it), "exited", "crashed"

workerVars == <<tasks, inhand, worked, closing, waits>>
vars == <<connVars, workerVars, pc>>

Init ==
  /\ Allocated
  /\ place = [l \in Letter |-> "new"]
  /\ record = FALSE
  /\ status = "ok"
  /\ tasks = <<>>
  /\ inhand = NoLetter
  /\ worked = TRUE
  /\ closing = FALSE
  /\ waits = "none"
  /\ pc = "none"

-----------------------------------------------------------------------------
\* The main thread.

\* processingLetters takes the next file of "new", finds the worker of its
\* domain in the dictionary, or adds a record that names this worker.
FindLetter(l) ==
  /\ worked /\ pc # "crashed"
  /\ inhand = NoLetter
  /\ place[l] = "new"
  /\ inhand' = l
  /\ record' = TRUE
  /\ UNCHANGED <<current, prev, letterVars, socket, status,
                 tasks, worked, closing, waits, pc>>

\* Mutant of Delegate: the letter is delegated from where it is.
DelegateInPlace ==
  /\ pc \notin {"crashed", "preparing", "prepared"}
  /\ inhand # NoLetter
  /\ tasks' = Append(tasks, inhand)
  /\ inhand' = NoLetter
  /\ UNCHANGED <<connVars, worked, closing, waits, pc>>

\* The rest of processingLetters: MoveLetter, then DelegateTaskToWorker.
Delegate ==
  /\ pc \notin {"crashed", "preparing", "prepared"}
  /\ inhand # NoLetter
  /\ place' = Moved({inhand}, "tmp")
  /\ tasks' = Append(tasks, inhand)
  /\ inhand' = NoLetter
  /\ UNCHANGED <<current, prev, attempt, task_pool, file, names, read, sent,
                 socket, record, status, worked, closing, waits, pc>>

\* Dispose, after the loop of watchMailDirLoop has seen SIGINT.
Dispose ==
  /\ pc # "crashed"
  /\ worked /\ inhand = NoLetter
  /\ worked' = FALSE
  /\ UNCHANGED <<connVars, tasks, inhand, closing, waits, pc>>

-----------------------------------------------------------------------------
\* The worker, between two calls of pselect.

AtSelect == pc \in {"none", "idle"}

\* Mutant of Kept: every letter goes back, also the one being sent.
KeepNothing == <<>>

\* What closingConnections leaves of task_pool: the letter being sent, and not
\* even that one before the greeting.
Kept ==
  IF task_pool = <<>> \/ current \in BeforeGreeting THEN <<>>
  ELSE <<Head(task_pool)>>

closingConnections ==
  /\ AtSelect /\ ~worked /\ ~closing
  /\ closing' = TRUE
  /\ IF pc = "none"
     THEN UNCHANGED <<task_pool, place, record>>
     ELSE /\ record' = FALSE
          /\ task_pool' = Kept
          /\ place' = Moved(Listed(task_pool) \ Listed(Kept), "new")
  /\ UNCHANGED <<current, prev, attempt, file, names, read, sent, socket,
                 status, tasks, inhand, worked, waits, pc>>

\* Mutant of AppendTasks: the new letters come before those of the connection.
PrependTasks ==
  /\ pc = "idle" /\ tasks # <<>>
  /\ task_pool' = tasks \o task_pool
  /\ tasks' = <<>>
  /\ UNCHANGED <<current, prev, attempt, file, names, read, sent, place,
                 socket, record, status, inhand, worked, closing, waits, pc>>

\* processingTasks when the socket of the domain exists.
AppendTasks ==
  /\ pc = "idle" /\ tasks # <<>>
  /\ task_pool' = task_pool \o tasks
  /\ tasks' = <<>>
  /\ UNCHANGED <<current, prev, attempt, file, names, read, sent, place,
                 socket, record, status, inhand, worked, closing, waits, pc>>

\* processingTasks when it does not: addNewSocketConnection allocates a
\* FileDesc and lets SMTP_Control prepare its socket.  The lock of the list is
\* held from here to the end of processingTasks.
Allocate ==
  /\ current' = "PREPARE_SOCKET_CONNECTION" /\ prev' = "NULL_POINTER"
  /\ attempt' = -1 /\ task_pool' = <<>> /\ read' = 0 /\ sent' = 0
  /\ file' \in FreshMemory /\ names' = file'
  /\ socket' = "none"
  /\ pc' = "preparing"

addNewSocketConnection ==
  /\ pc = "none" /\ tasks # <<>>
  /\ Allocate
  /\ UNCHANGED <<place, record, status, workerVars>>

PrepareSocket ==
  /\ pc = "preparing"
  /\ handlePrepareSocketConnection
  /\ pc' = "prepared"
  /\ UNCHANGED workerVars

TasksToNewSocket ==
  /\ pc = "prepared" /\ status # "fail"
  /\ task_pool' = tasks
  /\ tasks' = <<>>
  /\ waits' = "read"
  /\ pc' = "idle"
  /\ UNCHANGED <<current, prev, attempt, file, names, read, sent, place,
                 socket, record, status, inhand, worked, closing>>

\* The FileDesc was freed, yet its id is read to find the failure.  When that
\* id is negative the letter returns to "new"; when it is not, the task is
\* written into the freed record.  Either way the next task tries again.
RevertTask ==
  /\ pc = "prepared" /\ status = "fail"
  /\ place' \in {place, Moved({Head(tasks)}, "new")}
  /\ tasks' = Tail(tasks)
  /\ IF Tail(tasks) = <<>>
     THEN pc' = "none" /\ UNCHANGED <<current, prev, attempt, task_pool, file,
                                     names, read, sent, socket>>
     ELSE Allocate
  /\ UNCHANGED <<record, status, inhand, worked, closing, waits>>

\* Freeing the FileDesc frees its mx_record, which nobody may have written; and
\* the id read from it afterwards may lie beyond the fd_set.
RevertCrash ==
  /\ pc = "prepared" /\ status = "fail"
  /\ pc' = "crashed"
  /\ UNCHANGED <<connVars, workerVars>>

-----------------------------------------------------------------------------
\* The worker, serving a socket.

\* pselect reported the socket, or the closing worker polls all of them.
StartServing ==
  /\ pc = "idle"
  /\ waits' = "none"
  /\ pc' = "serving"
  /\ UNCHANGED <<connVars, tasks, inhand, worked, closing>>

\* One turn of "while (status == 0)".
Serve ==
  /\ pc = "serving"
  /\ SMTP_Control
  /\ pc' = CASE status' = "crash"           -> "crashed"
             [] current' = "SMTP_ERROR"     -> "serving"
             [] prev' = "DISPOSING_SOCKET"  -> "settling"
             [] OTHER -> IF status' = "ok" THEN "serving" ELSE "settling"
  /\ UNCHANGED workerVars

\* removeSocketConnectionFromPool frees the FileDesc: the letters still listed
\* stay in "tmp", without a task.
RemoveSocket ==
  /\ pc' = "none"
  /\ task_pool' = <<>>
  /\ UNCHANGED waits

Wait(set) == pc' = "idle" /\ waits' = set /\ UNCHANGED <<task_pool, record>>

\* Mutant of NothingLeft: a blocked connection is always waited for.
AlwaysSomething == FALSE

\* A closing worker has no letter left for this connection.
NothingLeft == ~worked /\ task_pool = <<>>

Settle ==
  /\ pc = "settling"
  /\ \/ status = "fail" /\ record' = FALSE /\ RemoveSocket
     \/ status = "ok" /\ RemoveSocket /\ UNCHANGED record
     \/ status = "block" /\ NothingLeft /\ RemoveSocket /\ UNCHANGED record
     \/ /\ status = "block" /\ ~NothingLeft
        /\ \/ current \in Receiving /\ Wait("read")
           \/ current \in Sending /\ Wait("write")
           \/ \* "Fail SMTP Graph STATE"
              /\ current \notin Receiving \cup Sending
              /\ record' = FALSE /\ RemoveSocket
  /\ UNCHANGED <<current, prev, attempt, file, names, read, sent, place,
                 socket, status, tasks, inhand, worked, closing>>

\* The loop of run ends: no socket is left and the worker must stop.
Exit ==
  /\ pc = "none" /\ ~worked
  /\ pc' = "exited"
  /\ UNCHANGED <<connVars, workerVars>>

\* The program has ended.
Ended ==
  /\ pc \in {"exited", "crashed"}
  /\ UNCHANGED vars

Worker ==
  \/ closingConnections \/ AppendTasks
  \/ addNewSocketConnection \/ PrepareSocket \/ TasksToNewSocket
  \/ RevertTask \/ RevertCrash \/ StartServing \/ Serve \/ Settle \/ Exit

Main == (\E l \in Letter : FindLetter(l)) \/ Delegate \/ Dispose

Next == Main \/ Worker \/ Ended

Spec == Init /\ [][Next]_vars

\* The worker thread is scheduled, so the loop around SMTP_Control goes on.
\* A closing worker never sleeps longer than the 5 seconds of its pselect, and
\* then serves every socket it has.
FairSpec ==
  /\ Spec
  /\ WF_vars(Serve) /\ WF_vars(Settle)
  /\ WF_vars(closingConnections) /\ WF_vars(AppendTasks)
  /\ WF_vars(addNewSocketConnection) /\ WF_vars(PrepareSocket)
  /\ WF_vars(TasksToNewSocket) /\ WF_vars(RevertTask)
  /\ WF_vars(closing /\ StartServing) /\ WF_vars(Exit)

-----------------------------------------------------------------------------
\* Properties.

TypeOK ==
  /\ current \in State
  /\ prev \in State
  /\ attempt \in {-1, 0, 1}
  /\ task_pool \in Seq(Letter)
  /\ file \in {"null", "open", "stale"}
  /\ names \in {"null", "set", "stale"}
  /\ read \in 0 .. Lines
  /\ sent \in 0 .. Lines
  /\ socket \in {"none", "open", "closed"}
  /\ place \in [Letter -> {"new", "tmp", "current"}]
  /\ record \in BOOLEAN
  /\ status \in {"ok", "block", "fail", "crash"}
  /\ tasks \in Seq(Letter)
  /\ inhand \in Letter \cup {NoLetter}
  /\ worked \in BOOLEAN
  /\ closing \in BOOLEAN
  /\ waits \in {"read", "write", "none"}
  /\ pc \in {"none", "preparing", "prepared", "idle", "serving", "settling",
            "exited", "crashed"}

\* The pairs of states in which the loop of run can leave a connection: the
\* edges of the dialogue, and the states an error is handled from.
Dialogue ==
  {<<"RECEIVE_SMTP_GREETING", "PREPARE_SOCKET_CONNECTION">>,
   <<"SEND_EHLO", "RECEIVE_SMTP_GREETING">>,
   <<"RECEIVE_EHLO_RESPONSE", "SEND_EHLO">>,
   <<"SEND_MAIL_FROM", "RECEIVE_EHLO_RESPONSE">>,
   <<"SEND_MAIL_FROM", "RECEIVE_LETTER_RESPONSE">>,
   <<"SEND_MAIL_FROM", "RECEIVE_RSET_RESPONSE">>,
   <<"RECEIVE_MAIL_FROM_RESPONSE", "SEND_MAIL_FROM">>,
   <<"SEND_RCPT_TO", "RECEIVE_MAIL_FROM_RESPONSE">>,
   <<"RECEIVE_RCPT_TO_RESPONSE", "SEND_RCPT_TO">>,
   <<"SEND_DATA", "RECEIVE_RCPT_TO_RESPONSE">>,
   <<"RECEIVE_DATA_RESPONSE", "SEND_DATA">>,
   <<"SEND_LETTER", "RECEIVE_DATA_RESPONSE">>,
   <<"RECEIVE_LETTER_RESPONSE", "SEND_LETTER">>,
   <<"SEND_QUIT", "RECEIVE_LETTER_RESPONSE">>,
   <<"SEND_QUIT", "RECEIVE_RSET_RESPONSE">>,
   <<"RECEIVE_QUIT_RESPONSE", "SEND_QUIT">>,
   <<"SEND_RSET", "SMTP_ERROR">>,
   <<"RECEIVE_RSET_RESPONSE", "SEND_RSET">>,
   <<"DISPOSING_SOCKET", "PREPARE_SOCKET_CONNECTION">>,
   <<"DISPOSING_SOCKET", "SEND_EHLO">>,
   <<"DISPOSING_SOCKET", "RECEIVE_QUIT_RESPONSE">>,
   <<"DISPOSING_SOCKET", "SMTP_ERROR">>}

ErrorFrom ==
  {"PREPARE_SOCKET_CONNECTION", "RECEIVE_SMTP_GREETING", "SEND_EHLO",
   "SEND_MAIL_FROM", "RECEIVE_MAIL_FROM_RESPONSE", "SEND_RCPT_TO",
   "RECEIVE_RCPT_TO_RESPONSE", "SEND_DATA", "RECEIVE_DATA_RESPONSE",
   "SEND_LETTER", "RECEIVE_LETTER_RESPONSE", "SEND_QUIT", "SMTP_ERROR",
   "SEND_RSET", "RECEIVE_RSET_RESPONSE"}

\* The letter of the current transaction has been announced, not yet answered.
InTransaction ==
  \/ current \in {"RECEIVE_MAIL_FROM_RESPONSE", "SEND_RCPT_TO",
                  "RECEIVE_RCPT_TO_RESPONSE", "SEND_DATA",
                  "RECEIVE_DATA_RESPONSE", "SEND_LETTER",
                  "RECEIVE_LETTER_RESPONSE"}
  \/ /\ current = "SMTP_ERROR"
     /\ prev \in {"RECEIVE_MAIL_FROM_RESPONSE", "SEND_RCPT_TO",
                  "RECEIVE_RCPT_TO_RESPONSE", "SEND_DATA",
                  "RECEIVE_DATA_RESPONSE", "SEND_LETTER"}

Live == pc \in {"idle", "serving", "settling"}

\* A live connection is always on an edge of the dialogue or in an error the
\* handlers can tell apart: the pair (current_state, prev_state) on which every
\* handler of SMTP_Control relies is never anything else.
OnEdge ==
  \/ <<current, prev>> \in Dialogue
  \/ current = "SMTP_ERROR" /\ prev \in ErrorFrom
  \/ current = "NULL_POINTER" /\ prev = "DISPOSING_SOCKET"
StatePairs == Live => OnEdge

\* During a transaction the connection has the letter it is about: no handler
\* between MAIL and the reply to the letter dereferences an empty task_pool,
\* although closingConnections and the error handler remove letters.
HeadPresent == Live /\ InTransaction => task_pool # <<>>

\* handleSmtpError decides on "attempt" only after handleResponseOfEHLO has
\* written it: the field of the malloc-ed FileDesc is never read before.
AttemptWritten ==
  Live /\ prev \in Solvable /\ current = "SMTP_ERROR" => attempt # -1

\* A letter in the hands of the worker is in "tmp" and has exactly one task, so
\* the next SearchNewFiles cannot find it and delegate it a second time.
Owned == task_pool \o tasks
OneTaskPerLetter ==
  /\ \A i, j \in DOMAIN Owned : Owned[i] = Owned[j] => i = j
  /\ \A l \in Listed(Owned) : place[l] = "tmp"
  /\ inhand \in Letter => place[inhand] = "new"

\* meta_data.file is only ever open on the letter being sent: the rest of one
\* letter is never sent as the text of another.
OpenFileIsHead ==
  Live /\ file = "open" =>
    /\ task_pool # <<>>
    /\ <<current, prev>> \in {<<"SEND_LETTER", "RECEIVE_DATA_RESPONSE">>,
                              <<"SMTP_ERROR", "RECEIVE_DATA_RESPONSE">>}

\* A letter loses its task while it stays in "tmp" only when its connection is
\* removed or could not be opened, or when the process ends: no handler drops
\* the task of a letter without moving the letter.
HasTask(l) == l \in Listed(Owned)
StrandedOnlyOnRemoval ==
  [][\A l \in Letter :
       HasTask(l) /\ ~HasTask(l)' /\ place'[l] = "tmp" =>
         \/ pc = "settling" /\ pc' = "none"
         \/ pc = "prepared"]_vars

\* The letters of the domain obey LetterQueue: delivered in the order of their
\* delegation, each at most once, and never lost except by leaving the queue.
Abstract == INSTANCE LetterQueue WITH queue <- Owned
ImplementsLetterQueue == Abstract!Spec

\* The switch of handleSmtpError has no case for the previous state: the call
\* changes nothing, and "if (current_state == SMTP_ERROR) status = 0" repeats it.
Stuck == /\ pc = "serving" /\ current = "SMTP_ERROR"
         /\ prev \notin Solvable \cup Unsolvable

\* The loop around SMTP_Control ends, whatever the peer answers and however
\* many letters fail, unless it spins on an error without a case.
ServingEndsOrSpins == pc = "serving" ~> (pc # "serving" \/ Stuck)

\* After Dispose the worker comes to rest: it has ended, it spins on an error
\* without a case, or for ever it has a letter under way that a silent server
\* keeps it waiting for (no connection without a letter holds it up).
ShutdownSettles ==
  <>~worked =>
    <>[](pc \in {"exited", "crashed"} \/ Stuck \/ (Live /\ task_pool # <<>>))

\* A connection leaves the socket list through handleDisposing, with its socket
\* closed.  The exceptions leak the descriptor: the result handleSmtpError did
\* not return was taken for an error or for a blocked call, or a closing worker
\* drops a blocked connection without letters.
RemovedClosed ==
  [][pc = "settling" /\ pc' = "none" =>
       \/ prev = "DISPOSING_SOCKET" /\ socket = "closed"
       \/ prev = "SMTP_ERROR" /\ status # "ok"
       \/ ~worked /\ status = "block" /\ task_pool = <<>>]_vars

-----------------------------------------------------------------------------
\* What a comment of the program says, and the program does not do.

\* algo.txt: a letter goes to "current" when it has been handed over.  The
\* comment in handleSendLetter says that a send that would block is tried
\* again.  So every line of a letter that reaches "current" was sent.
WholeLetterDelivered ==
  [][\A l \in Letter :
       place[l] # "current" /\ place'[l] = "current" => sent = Lines]_vars
=============================================================================
