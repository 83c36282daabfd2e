# A verification of bmstu-smtp

bmstu-smtp is a mail client and an SMTP server in C. The client watches a
maildir and sends what it finds; the server takes letters and stores them in a
maildir of each recipient. This directory holds TLA+ modules of both, runs of
the TLC model checker on small instances, and theorems that the TLAPS proof
system checks for every instance.

The modules are translated from the code (`src/client`, `src/server`). Where
the project report, a comment, a test or `server.def` says something the code
does not do, the code is modelled, and a run shows the difference.

## The system

### Client (`src/client`)

One process with threads: the main thread, `COUNT_THREADS - 2` workers, a logger.

| part | state | operations |
|---|---|---|
| maildir watcher (`file_viewer.c`), main thread | letters in `new`, `tmp`, `current` | search `new`, find the worker of the letter's domain, move the letter to `tmp`, delegate it |
| controller (`controller.c`), main thread | the pool of workers, the SIGINT flag | create workers, delegate a task (under the worker's lock, then a signal), dispose of the workers one by one |
| dictionary (`dictionary.c`) | a list of (domain, worker) | find, add, remove, each under one lock |
| worker (`worker.c`) | `tasks` (shared with main), `worked` (set by main), the list of its sockets, two `fd_set`s | take tasks, open connections, `pselect`, serve a socket until it blocks, close down |
| SMTP dialogue (`smtp_interface.c`) | a `FileDesc` per connection: `current_state`, `prev_state`, `attempt`, `task_pool`, `meta_data` | one handler per state, 18 of them |
| logger (`logger.c`) | a POSIX message queue of two messages, `logger_worked` | `Error` from any thread, without waiting; flush what an earlier run left, write batches to a file, end on SIGUSR1 |

The main thread and a worker share `tasks`, `worked`, the dictionary and the
maildir. A worker calls `SMTP_Control` again as long as it returns 0, so a
connection runs through several states between two calls of `pselect`.

What must be right: each letter has at most one task, is sent in order and
filed as sent only when it was; a pair of states (`current_state`,
`prev_state`) that one handler leaves is one the next handler takes; a letter
that fails is retried once and given back; a shutdown at any moment neither
cuts a letter in two nor waits for ever. With several workers: a domain has one
record, a letter one worker, and a socket waits in exactly one `fd_set`. What
the log's queue accepts is written once, by the run that said it.

### Server (`src/server`)

A parent, two worker processes that share the listening sockets, a logger
process; each has a POSIX message queue, by which it is told to stop.

| part | state | operations |
|---|---|---|
| session (`smtp.c`) | a `client_socket`: `state`, `input_message`, the buffer, the message | one handler per command, the text of a letter, reading |
| process loop (`smtp.c`, `run_process`) | the list of clients | remove closed clients, `select` (45 s), accept, handle each client as a reader and as a writer |
| message store (`message.c`) | the maildir of each recipient | a file per recipient in `tmp`, renamed to `new` |
| sockets (`socket.c`) | listeners, the list of clients | create, remove |
| processes and parent (`process.c`, `server.c`) | queues, pids | fork, stop on SIGINT |
| logger (`logger.c`) | its queue | append messages to a file, stop on `#` |
| automaton (`fsm/server.def`) | the states of a session | the transitions the handlers are meant to make |

What must be right: `state`, `input_message` and the message agree after any
sequence of commands and lost replies; the letter goes to exactly the accepted
recipients; a client that leaves is removed; lines come out of the buffer as
they were sent; a connection is taken by one process and by no other; a SIGINT
ends every process, the parent last.

### Hard behaviours

`PROJECT.json` lists every hazard with its line. In short: two threads on one
list of tasks; a SIGINT in any state; errors of `send` and `recv` in any state;
an error handler that decides by the previous state; fields of malloc-ed
records read before they are written; a reply that would block and is lost;
commands sent in one segment; a client that goes while its last lines are still
in the buffer; failing `rename`; queues that are full.

## Modules

| module | models | role |
|---|---|---|
| `SmtpConnection` | `smtp_interface.c`, the record `FileDesc` | one action per handler of `SMTP_Control` |
| `WorkerConnection` | `worker.c`, and the parts of `file_viewer.c`, `controller.c`, `dictionary.c` that meet one worker and one domain | composes the main thread, the worker loop and `SmtpConnection` |
| `LetterQueue` | what the client promises about letters | abstract specification, implemented by `WorkerConnection` |
| `WorkerConnectionProofs`, `TaskProofs` | | theorems about `WorkerConnection` |
| `SmtpSession` | `smtp.c`, `message.c`, `init_client_socket` | one session of the server |
| `SmtpSessionProofs` | | theorems about `SmtpSession` |
| `ServerFsm` | `server.def` | abstract specification, implemented by `SmtpSession` |
| `MailClient` | `controller.c`, `dictionary.c`, `worker.c`, `processingLetters` for all workers and domains | the composition that `WorkerConnection` looks at for one worker and one domain |
| `ClientLogger` | `client/logger.c` | the client's log, over several runs of the program |
| `ServerShutdown` | `server.c`, `process.c`, `server/logger.c` | the processes of the server, their queues and SIGINT |
| `ServerLoop` | `run_process` of `smtp.c`, `socket.c` | all processes, the shared listeners, the lists of clients |
| `Dispatch` | what the server promises about connections | abstract specification, implemented by `ServerLoop` |
| `LineBuffer` | the buffer of `new_smtp_handler_with_states`, the body of `handle_TEXT` | the bytes that `SmtpSession` abstracts to lines |
| `MailClientProofs`, `ClientLoggerProofs`, `ServerShutdownProofs`, `ServerLoopProofs`, `LineBufferProofs` | | theorems about the module they are named after |
| `MCWorkerConnection`, `MCSmtpSession`, `MCMailClient`, `MCServerShutdown`, `MCServerLoop`, `MCLineBuffer` | | instances for TLC |

### SmtpConnection and WorkerConnection

Variables have the names of the C fields. `task_pool` and `tasks` are the
linked lists as sequences of letters; `file` and `names` stand for the pointers
in `meta_data`, with a value `"stale"` for a pointer that was never written or
whose object is gone; `place` is the maildir folder of each letter; `record`
says whether the dictionary has the domain. `status` is what the last
`SMTP_Control` returned (`0` is `"ok"`, `1` is `"block"`, negative is
`"fail"`), and `"crash"` when the process died. `read` and `sent` count the
lines of the letter under way; `sent` is a history variable.

Each handler is an action whose guard is its `current_state`; the results of
`send`, `recv`, `fopen` and `connect` are its nondeterministic choices. A reply
is abstracted to what a handler tells apart: the expected one, 421 where it is
looked for, anything else. `handleSmtpError` has no return value: `ErrorReturn`
is the set of what it may leave. What a malloc-ed `FileDesc` holds is
`FreshMemory`. Use of a stale pointer may crash, or may not.

`pc` is where the worker is. `Serve` is one turn of `while (status == 0)`,
`Settle` what follows it. The main thread steps between any two steps of the
worker, except that `processingTasks` holds the lock of the list: `Delegate` is
disabled while a new socket is being prepared. `Dispose` models SIGINT: `worked`
becomes false only between two letters, since the flag is looked at between two
searches of the maildir (this model allows it between any two letters, which
includes those moments).

### LetterQueue

A letter is taken into the queue, leaves it delivered from the head, or is
dropped, either back to `new` or abandoned in `tmp`. `Drop` takes a run of
consecutive letters out of the queue and says which of them go back to `new`:
the head, all of `task_pool`, or what stands before `tasks`.
The
refinement maps `queue` to `task_pool \o tasks`: moving tasks between the two
lists is a stutter, so the mapping says that no order is lost on the way.

### SmtpSession and ServerFsm

`lines` are the complete lines of the buffer as commands. `recv` writes at the
start of the buffer whatever is still in it, so `Receive` leaves *any* sequence
of complete lines (up to `MaxLines`): those of the client, rests of earlier
ones, or none. `phase` is where `run_process` is with this client: a turn may
handle it as readable (`Receive`, `HangUp`), then as writable (`StartLines`,
one action per line, `EndLines`). `SaveForRecipient` is one turn of the loop of
`save_message`; nothing else of the process runs in between, but the client may
leave.

`SmtpSession` implements `ServerFsm` by its variable `state` alone. `ServerFsm`
has one action per event of `server.def`, and two that `server.def` lacks:
`greeting_failed`, and `late_dot`, the end of a letter found in the buffer of a
session that was just closed.

### MailClient

The client with every worker and domain. The dialogue of a connection is
reduced to what it does to shared things: `stage` says whether the connection
is opening, open, resetting after a dropped letter, quitting or being disposed
of, and `Greeted`, `LetterSent`, `LetterDropped`, `ResetSent`, `ResetDone`,
`QuitNotSent`, `GiveBackAll` are the handlers that touch letters or the
dictionary, or decide what comes next (their inner steps are `SmtpConnection`).
Whether QUIT comes next after a dropped letter is decided by `ResetDone`, at the
reply to RSET, because a letter may be appended meanwhile. `Spin` is an error
`handleSmtpError` has no case for (of RCPT or its reply, or of a RSET that cannot
be sent): the worker stays at `"spinning"` for ever. The main thread is in
`main`: which letter it has in hand, which worker it found. A step ends where a
thread gives up a lock or looks at something another thread may change, so the
record of a domain can be removed, and freed, between `AddRecord` and
`ReadAdded` (`StaleId` is what may be read then), and between `FindLetter` and
`Delegate`. `todo` are the sockets the current turn of `run` still has to look
at; `Remove` reads the freed list element: the turn goes on, ends, or the
program dies (`main.at = "crashed"`). `TakeInVain` is a socket that cannot be
opened: its record is freed, and then its id is read. If that is negative the
letter returns to `new`; if not, the descriptor goes into `readers` and the
letter is lost. It may be the number of a listed socket, or `Stray`, one that no
listed socket has; `misled` remembers that this has happened.

### ClientLogger

`queue` belongs to the system: `Exit`, `Kill` and a crash leave it, `Restart`
finds it. `Error` never waits: it drops the message if the queue is full or not
open. `Wake` is `pselect`, `Receive` and `Drained` one batch; `log` is what the
pointer passed to `fclose` is worth. `Signal` is SIGUSR1 as a worker gets it:
its handler belongs to the whole process and clears `logger_worked`; before it
is installed, the signal kills the program.

### ServerShutdown

One state machine for the parent, the logger and each serving process, from
`fork` to the end. A turn of `run_process` is the number of log messages it
sends (`owed`); `mq_send` waits for room, unless the process could not open the
queue (the name it opens is a dangling pointer, `process.c:25`). SIGINT goes to
the whole group: before its `sigaction` it kills, afterwards its handler puts
`"#"` into the process's own queue (`"stuck"` if that queue is full), or waits
for the children in the parent.

### ServerLoop and Dispatch

`pc` walks through a turn of `run_process`: removal of closed clients,
`select`, the listeners in their order, the clients. Descriptors are never
closed, so the next one is `FirstFd + Len(files[p])`. A handler leaves a client
open or closed (`Serve`). `Dispatch` has one variable, the place of each
connection (waiting, at a process, closed, over); the mapping computes it from
the backlogs, the lists and the files of all processes.

### LineBuffer

`buffer` is an array of character classes, `Fresh` what malloc may leave in it.
`Receive` writes a segment over its beginning, `Terminated` and `Moved` are the
NULs and the `memmove` of one turn of the loop. `Quit` leaves the loop without
the `memmove`; when its reply would block the session goes on, with the bytes
behind it still in the buffer. `ReadBeyond` is `strstr` in a buffer without a
NUL, which reads on behind it. `due`, `orderly` and `exact` are history variables: they compare
the lines that come out with the lines that were sent, as long as segments
arrive in an orderly way (whole lines, at most half a buffer, nothing left in
the buffer, no LF in the new buffer, no command so short that the cut after its
word hits the next line, no QUIT whose reply would block). `body` and `body_length` are the two numbers of `handle_TEXT`.

## What is checked

Runs that pass:

- `worker` (94 thousand states up to symmetry). `StatePairs`: the pair of states is always an
  edge of the dialogue or a known error. `HeadPresent`: no handler inside a
  transaction meets an empty list. `AttemptWritten`: the counter is written
  before it is read. `OneTaskPerLetter`: no letter is delegated twice.
  `OpenFileIsHead`: the open file belongs to the letter being sent.
  `StrandedOnlyOnRemoval`: only a removed, or never opened, connection leaves
  letters in `tmp`. `RemovedClosed`: a connection leaves the list with its
  socket closed, except where the missing return value of `handleSmtpError` or a
  shutdown says otherwise. `ImplementsLetterQueue`: the refinement.
- `worker_live`: the loop around `SMTP_Control` ends, or spins on an error
  without a case (`ServingEndsOrSpins`); after `Dispose` the worker ends, spins,
  or waits for a server that owes it an answer about a letter
  (`ShutdownSettles`).
- `session` (400 thousand states). `StateMatchesMessage`: what each handler
  assumes of the message holds in its state. `TextOnlyInLetter`: text mode
  exactly between 354 and the end of the letter. `RecipientsAreAccepted`: the
  recipients are those answered 250 since the last reset.
  `StoredForAccepted`: each gets the letter once. `ImplementsServerFsm`.
- `session_live`: a client that has gone is removed, or the process ended.
- `client` (2.1 million states up to symmetry). `NoDuplicateRecords`: a domain never has two
  records, although a worker may remove one at any moment. `OneWorkerPerLetter`:
  a letter has at most one task, with one worker, and is in `tmp` meanwhile; two
  workers serving one domain does occur. `AwaitedOnce`: in `pselect` each socket
  is in a set, whatever a removal in the middle of a turn did; it is in one only,
  and nothing else is in either, unless the worker was ever misled by a socket
  that could not be opened.
- `client_live` (202 thousand states): a delegated letter is taken by its worker,
  unless the worker has ended or spins (`TasksAreTaken`); `Dispose` ends, or waits
  for a letter under way or a worker that spins (`DisposeSettles`).
- `client_logger` (309 thousand states). `KeptInOrder`: what the queue accepted
  is in the file, printed, or in the queue, once and in order. `FreshLog`: no run
  writes the messages of another. `NoStaleFile`: `fclose` gets an open file but
  after a wake-up without a message or a failed `fopen`. `LogIsWritten`.
- `shutdown` (70 thousand states). `ParentOutlives`: the parent ends last.
  `LoggingGoesOn`: without a SIGINT no process hangs in `mq_send`.
  `ShutdownSettles`: a SIGINT ends all, unless a queue is jammed (a full queue
  whose only reader sends to it or has gone) or the parent overwrote the state.
- `dispatch` (161 thousand states). `ImplementsDispatch`: a connection is taken
  once, served by one process, forgotten only when closed. `MaxFdCovers`:
  `select` is told of every descriptor. `NobodyWaits`: no connection waits for
  ever while a process has a descriptor left.
- `buffer` (193 thousand states). `LinesAreHandled`: orderly segments come out as
  their lines; without that condition TLC finds, for segments of more than half
  the buffer, an empty line that nobody sent, made of what `memmove` left at the
  end, and after a QUIT whose reply would block the lines behind it once more.
  `HandlingEnds`: the loop over the lines ends, if malloc left a NUL in the last
  byte. `BodyFits`: the body overflows by its terminating NUL at most.

Runs that show a difference between the code and what is said of it (the
findings of `PROJECT.json` quote the lines):

| run | what TLC finds |
|---|---|
| `doc_blocked_line` | a line that would block is never sent, the letter is filed as sent |
| `doc_client_timeout` | a silent client is never closed |

Other differences that the models show and that have no run of their own:

- An error raised in `SEND_RCPT_TO`, `RECEIVE_RCPT_TO_RESPONSE` or `SMTP_ERROR`
  has no case in `handleSmtpError` (`smtp_interface.c:1096`): the worker calls it
  for ever (a refused RCPT TO is enough), where `report.tex:331` says that the
  connection is closed. `ServingEndsOrSpins` allows exactly this exception, and
  `TasksAreTaken` and `DisposeSettles` name it: what such a worker is given is
  never taken, and the main thread joins it for ever.
- A socket that could not be opened is told by the id in its freed record
  (`worker.c:291`). If that is not negative the letter is lost in `tmp`, and
  `pselect` is given a descriptor of no socket (`worker.c:312`): the exception of
  `AwaitedOnce`.
- A letter delegated before the record of its domain is removed is appended to
  a connection that is quitting and stays in `tmp`; `report.tex:330` removes the
  record so that this cannot happen. `StrandedOnlyOnRemoval` allows it.
- The letter after one that failed twice starts with the `attempt` of its
  predecessor (`smtp_interface.c:1213`; `report.tex:312` counts the attempts of
  one letter).
- A shutdown before the greeting takes the letters but leaves the connection,
  which goes on to MAIL FROM and dereferences the empty list (`worker.c:358`;
  `report.tex:279` closes the connection).
- The input buffer is not cleared (`socket.c:185`) although the loop over the
  lines relies on a NUL behind the bytes received: with another byte at its end
  the loop may run for ever, or `strstr` leave the buffer. `HandlingEnds`
  promises nothing then, and `ReadBeyond` occurs.
- `init_client_socket` does not write `input_message`; `test_smtp.c:577` asserts
  that it is 0. `TextOnlyInLetter` has this exception.
- A closed session goes back to `WAIT` when the lines left in its buffer hold
  the end of a letter (`smtp.c:203`); `ServerFsm` has the action `late_dot`.
- "Graceful closing" of `report.tex:164` says that the parent waits for its
  children and ends. `ShutdownSettles` of `ServerShutdown` names the exceptions:
  `Jammed` and `Forgotten`.
- Descriptors of closed clients are not closed (`socket.c:222`), where
  `report.tex:163` marks them to free resources for new connections: a process
  that has accepted `FD_SETSIZE` clients accepts no more (`Exhausted`).
- SIGUSR1 is meant to wake workers (`report.tex:261`), but its only handler ends
  the logger: the first delegated letter does (`client/logger.c:135`). If the
  queue of the logger cannot be opened the handler is never installed, and the
  first delegated letter kills the client.

- `handleSmtpError` ends in `return;` (`smtp_interface.c:1221`): when the
  undefined result is not 0, `run` throws the connection away with its socket
  open (the second case of `RemovedClosed`).
- After a letter was dropped `meta_data.file` still points to its closed `FILE`
  (`smtp_interface.c:1181`); the next letter can be filed as sent without its
  text (`WholeLetterDelivered` fails even if no send blocks).
- `handleResponseOfRSET` goes to `SEND_QUIT` from a state `handleSendQUIT`
  rejects, and 421 to EHLO goes to `DISPOSING_SOCKET` from a state
  `handleDisposing` rejects; both end in `SMTP_ERROR`, which gives the letters
  back and closes the connection.
- The session answers 250 for a letter that is empty or whose `rename` failed
  (`smtp.c:619`, `message.c:114`, `message.c:129`); `server.def` has the event
  `message_saved` there.
- The loop of `handle_RSET` stops one recipient early (`smtp.c:529`): the last
  one stays in `message->to`, where `RecipientsAreAccepted` shows it is not used.

Every property of a passing run has a mutant in `PROJECT.json`: a plausible bug
in one definition of the model under which TLC finds that property violated.
The mutants stand in the modules before the definition they change.

### Bounds

- Three letters in `worker`, two in the other runs of the client: one under
  way, one behind it in `task_pool`, one still in `tasks` or with the main
  thread; every handler looks at the head and at whether there is a next
  one. A letter may return to `new` and be taken again, so the number of transactions is not bounded.
- `Lines = 2`: an error or a block before the first line, between two, and
  before the terminator.
- `SendResult`, `ErrorReturn`, `FreshMemory`, `StoreResult`, `FreshInput` take
  all their values in the passing runs, except that `session` leaves out
  `"lost"`, for which `StoredForAccepted` promises nothing. The runs of
  differences use the most benign environment in which the difference shows.
- `MaxRecipients = 2` (10 in the code), two mailboxes: a recipient more than
  the limit, the same recipient twice, and two different ones occur.
- `MaxLines = 2`: a command alone and two sent at once; longer buffers are
  covered by receiving again, since `Receive` may leave any lines.
- `session_live` has one mailbox and one recipient: liveness does not depend on
  who gets the letter.
- `client`: two workers, two letters to one domain and one to another, two
  delegations per worker (`MaxDelegations`): two workers for one domain and two
  sockets in one list both occur. `client_live` has one domain with two letters,
  enough for a letter to meet its predecessor's removal.
- `client_logger`: a queue of two (as in the code), four messages, two runs: a
  full queue, two batches, and leftovers of two messages.
- `shutdown`: queues of one message instead of ten, one SIGINT, one log message
  per turn: the shorter the queue, the sooner somebody waits.
- `dispatch`: two processes, two listeners, three connections, two descriptors
  for clients: races for one connection, a list with two clients, and a process
  that has run out of descriptors.
- `buffer`: 12 bytes, a word of two characters, three segments of up to two
  lines, the body growing by 13: whole, half and full buffers occur, and a body
  that is exactly full. A segment may end in a line without its LF or in one
  with a NUL, which `strstr` does not see. The new buffer is cleared, holds the
  end of an old line, holds no NUL, or ends in an LF: in the last two cases
  `HandlingEnds` promises nothing. `MaxBody` bounds the body that a line which
  comes back for ever would feed; with a NUL in the last byte it stops nothing.

Symmetry is used over mailboxes and letters (in `client` over the two letters
to one domain) in runs of safety properties only.
Deadlock is checked where the ends of the program are the explicit stuttering
step `Ended` (the runs of `WorkerConnection` and `SmtpSession`); the other models
really stop (all processes ended, all letters delegated, all segments received)
and their runs do not check it.

### Fairness

- `WorkerConnection!FairSpec`: weak fairness on the worker's own steps, a thread
  that is scheduled. A socket is served without such an assumption only while
  the worker is closing, because then `pselect` returns at least every five
  seconds and `run` polls every socket (`worker.c:94-102`). Nothing is assumed
  of the main thread, of the server, or that a blocked send ever succeeds.
- `SmtpSession!FairSpec`: weak fairness on the loop of the process, and strong
  fairness on a greeting that changes the state: the first bytes written to a
  new connection find room in the send buffer. Nothing is assumed of the client.

- `ServerShutdown!FairSpec`: every process is scheduled, pending signals are
  delivered, and the kernel serves senders that wait for room in their order
  (strong fairness of each sender). No SIGINT is promised.
- `ServerLoop!FairSpec`: weak fairness of each process. Nothing is assumed of
  the clients. It takes for granted that the log messages of a turn
  (`smtp.c:65-90`, `143-174`) can be sent. `LoggingGoesOn` shows that for a server
  without a SIGINT; after one the logger may be gone and a process may wait for
  room in its queue for ever (`Jammed` in `ServerShutdown`), so `NobodyWaits` is
  about a server that was not told to stop, or whose processes do end.
- `MailClient!FairSpec`: weak fairness of each worker, since `pselect` returns
  after 60 seconds at the latest, and of the main thread in `pthread_join` only.
- `ClientLogger!FairSpec`, `LineBuffer!FairSpec`: weak fairness of the logger,
  and of the loop over the lines.

## What is proved

`WorkerConnectionProofs`, for every set of letters, every number of lines and
every subset of results, from `ConnectionAssumption` and `NoLetterAssumption`:

1. `TypeOKHolds`. The inductive invariant `TypeInv` adds that no more lines were
   sent than read (without it `sent` could exceed `Lines`) and that a socket is
   prepared only while a task waits for it (`RevertTask` takes the head of
   `tasks`).
2. `StatePairsHold`. `DialogueInv` adds the pair of a socket that is not in the
   list yet, and that a connection in `pselect` waits for its peer (otherwise
   `StartServing` could meet a disposed one). `HandlersKeepEdge` has one step
   per handler.
3. `HeadPresentHolds`, `AttemptWrittenHolds`, `OpenFileIsHeadHolds`, from
   `LetterInv`: the letter under way, its file and the counter belong together.
   None of the three is inductive alone: the file is open only at
   `SEND_LETTER`, which is inside a transaction; a transaction has a letter
   because the handler that enters it saw one; and `closingConnections` keeps
   the head of a connection that is past the greeting.
4. `RemovedClosedHolds`, an action property. `ClosedInv`: the socket is closed
   when `prev_state` is `DISPOSING_SOCKET`, and the loop around `SMTP_Control`
   ends in one of three ways: the connection was disposed of,
   `handleSmtpError` left an accidental result, or a call would block. Which
   handler can have run comes from `DialogueInv`; a blocked connection is removed
   only by a worker that is closing, with no letters left.

The argument has the form of the handlers: a lemma per invariant about
`SMTP_Control`, by cases over its handlers, and a theorem by cases over the
steps of the two threads.

`TaskProofs`, from the same assumptions and `TypeInv`:

5. `OneTaskPerLetterHolds`. `TaskInv` says of `task_pool` and `tasks` separately
   what the property says of their concatenation (no duplicates, disjoint, all
   in "tmp"), and adds that a worker without a socket in its list has an empty
   `task_pool`: `TasksToNewSocket` overwrites that list. `HandlersEffect` reduces
   the nineteen handlers to three effects on the letters: none, the head moves
   away, all go back.
6. `StrandedOnlyOnRemovalHolds`, an action property, from `TaskInv` and the same
   three effects.
7. `ImplementsLetterQueueHolds`, the refinement of `LetterQueue`, from `TaskInv`
   (the promise that a taken letter is not queued is its disjointness). The head
   that moves away is `Deliver` or a `Drop` of one letter; giving all back and
   leaving a connection are a `Drop` of the letters before `tasks`; and moving
   `tasks` into `task_pool` leaves the concatenation as it is.

`SmtpSessionProofs`, for every set of mailboxes, every limit of recipients, and
every subset of results, from `SessionAssumption`:

8. `RecipientsAreAcceptedHolds`. `SlotsInv` adds the bound on the number of
   recipients and the types of the slots; without the bound a `RCPT` could write
   beside `message->to`.
9. `StateMatchesMessageHolds`, `TextOnlyInLetterHolds`, from `StateInv`: which
   phases go with which states, and that text mode is either the accident of a
   fresh session, which no line survives, or comes with a letter that has a
   sender, recipients and a body. The closed states are part of it, because the
   lines left in a closed session are still handled.
10. `TypeOKHolds`. `TypeInv` adds that the index of `save_message` stays in the
   recipients and that the line that ended the letter is still in the buffer.
11. `StoredForAcceptedHolds`. `StoredInv`: when no rename fails, the letter has
   been stored for the first `i` recipients, in order; outside of saving,
   nothing is left of it.
12. `ImplementsServerFsmHolds`. The state of the code is the state of the
    automaton, so the refinement mapping is the identity; `FsmStep` has one case
    per handler and uses `StateInv` to exclude a `QUIT` in the middle of a letter.

`ServerShutdownProofs`, for every number of serving processes, of SIGINTs and
every limit of a queue, from the assumptions of `ServerShutdown`:

13. `TypeOKHolds`: with the types, that no queue holds more than `MaxMsg`
    messages, although the handlers send as well.
14. `ParentOutlivesHolds`. `OutliveInv`: the state `FINISH_WORK` is set only when
    all children are gone, and the parent ends only in that state. The handler
    counts deaths and not processes, so the step from "as many waits as
    children" to "all of them" is an argument about the cardinality of `Child`.

`ClientLoggerProofs`, for every set of messages, limit of the queue and of runs,
from the assumptions of `ClientLogger`:

15. `TypeOKHolds`.
16. `FreshLogHolds`. `FreshInv`: after the flush of `InitLogger` whatever is in
    the queue, and what is printed to the file but not yet flushed, was said in
    this run. Before the flush this is not so.
17. `NoStaleFileHolds`. `FileInv` ties the pointer to whether a batch opened it,
    and a logger that drains to a message it will find, unless it was woken by
    the signal to end.
18. `KeptInOrderHolds`. `OrderInv` is the property, stated with operators that
    take the file, the printed messages and the queue as arguments, so that one
    lemma says that it survives a message that comes (`OrderedGrows`) and one
    that goes (`OrderedShrinks`). `PastInv` is what it needs: no message is
    accepted twice, what was accepted or missed was said, no entry of the file
    is of a later run, and before its loop the logger has printed nothing and
    the file has no entry of this run. The second of these is what the restart
    depends on, the first what keeps the positions apart.

`LineBufferProofs`, for every size of the buffer and every growth of the body,
from `BufferAssumption`:

19. `BodyFitsHolds`, whatever malloc left in the buffer. `BodyInv` has the two numbers alone; the proof needs that
    the end of a line lies inside the buffer (`EolInBuffer`), which is the
    existence of a least number, from well-founded induction on `Nat`.
20. `LinesAreHandledHolds`, also from `LineAssumption` (a line has neither CR LF
    nor NUL inside it). `DueInv`: as long as everything is orderly, the lines
    that are due stand at the front of the buffer, fill at most half of it, and
    no LF is behind them. A QUIT either closes the session, or ends the promise:
    what it leaves in the buffer comes back. `HandleLineKeepsDue` is the argument about `memmove`:
    what it leaves at the end of the buffer comes from behind the lines that
    were due, because they filled no more than half. With `due` empty there is
    no end of a line in the buffer, so nothing is handled that was not sent.

`ServerLoopProofs`, for every set of processes, listeners and connections, every
backlog and limit of descriptors, from `LoopAssumption`. That assumption says of
the processes only that their names differ from the four words for the other
places of a connection in `Dispatch`:

21. `TypeOKHolds`, with `FilesFit`: the next descriptor never exceeds the limit.
22. `MaxFdCoversHolds`. `CoverInv` covers the listeners and the queue a process
    has inherited as well as its clients.
23. `ImplementsDispatchHolds`, a refinement. `LoopInv` is the types, `OnceInv` (a
    connection is in one backlog or in the files of one process, once) and
    `ListInv` (a descriptor is in the list of a process once, it is in use, and
    no closed client is left when `select` is called). The mapping looks for a
    connection in the backlogs, files and lists of all processes; `PlaceIs` and
    `Apart` replace it by four disjoint sets (waiting, taken, open, closed), and
    one lemma per action says which of the sets a step changes.

`MailClientProofs`, for every number of workers, domains and letters, whatever a
freed record is read as, from `ClientAssumption`:

24. `NoDuplicateRecordsHolds`, workers that spin included. `RecordsInv` adds that at "adding" the letter in
    hand belongs to a domain without a record. This survives the workers, since
    they only remove records (`RemovedKeeps`), and it is true again when the
    main thread comes back after a negative result: the worker it has just
    written is not negative (`MostFree`), so the record is gone.
25. `TypeOKHolds`: the types alone. The inductive invariant behind it, `TypeInv`,
    adds what the main thread has in hand at each of its points (`Hands`), and
    for each worker (`Sock`) that a domain is in its list once, that outside of a
    turn at a socket the two sets cover the list, that during one they cover all
    but that socket, that `todo` holds no socket that is gone and, as long as the
    worker was not misled by a socket that could not be opened, that the two sets
    are disjoint and hold nothing else. A removal in the middle of a turn
    is where the lemmas about a list without one of its elements are used.
26. `AwaitedOnceHolds`, from `Sock`, whose two halves are the two halves of the
    property: what holds of every worker, and what holds until it is misled. The list is as long as its set of domains
    because each domain is in it once (`AsMany`).
27. `OneWorkerPerLetterHolds`. `OwnInv` adds that the letter the main thread has
    in hand is still in `new`, where no letter of a worker is, until `Delegate`
    moves it. A step of a worker gives it no letter and moves only letters it
    gives up (`Gives`), so the workers cannot disturb each other.

Only model-checked is what is out of the prover's reach: liveness and fairness
(`ServingEndsOrSpins`, `TasksAreTaken`, `DisposeSettles`, `ShutdownSettles`,
`LoggingGoesOn`, `GoneIsRemoved`, `NobodyWaits`, `LogIsWritten`,
`HandlingEnds`), and `ENABLED`. Every invariant, action property and refinement
that a passing run checks is also proved. No module declares a `RECURSIVE`
operator; the one recursive function about which something had to be proved
for every input is `LineBytes`, and its induction is done by hand
(`Induction`, from the existence of a least number).

## What is not modelled

- Failures of `malloc`, and a `rename` that fails in `MoveLetter`.
- A crash of the client between `MoveLetter` and `DelegateTaskToWorker`
  (`file_viewer.c:225-226`): `Delegate` is both calls in one step. A letter moved
  by the first and not yet known to the second would stay in `tmp` for ever, as
  it does after any other crash.
- What a worker that was misled by a socket it could not open does to that
  descriptor later (`MailClient`), except that a new socket may get the number.
- A queue of the server that cannot be opened: `mq_open` leaves a null pointer
  that `smtp.c:94` dereferences (`OpenQueues` of `ServerShutdown` has the logger's
  queue that is not found, and not this crash).
- The bytes malloc left in a new buffer, in `SmtpSession`: the handler looks for
  a line right after the greeting (`smtp.c:292`). `Receive` leaves any lines
  anyway, and `LineBuffer` has the bytes.
- Partial sends: a send takes the whole line or none of it.
- The file name of a stored letter (20 characters) but as an outcome of saving.
- A readable socket whose `recv` would block, which changes nothing, and file
  descriptor 0, for which the handlers send nothing.
- Failures of start-up: `init_sockets`, `InitController`, threads that cannot be
  created; `smtp_handler` and `init_sockets_using_clients`, which nothing calls.
- What the server's logger writes, and the wording of every message.
- The generated automata (`autogen-fsm.c`, `server-fsm.c`), which neither
  program calls; their source `server.def` is `ServerFsm`.

## Plan

1. A `rename` that fails in `MoveLetter`, with what still holds then.
2. The dialogue of `SmtpConnection` with `SmtpSession` over two channels.
3. Proofs: theorems about the two points above, with the composition as a
   refinement of what each side promises.
