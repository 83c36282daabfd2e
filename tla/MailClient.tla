----------------------------- MODULE MailClient -----------------------------
(***************************************************************************)
(* The mail client with all its workers and domains: the main thread       *)
(* (client/controller.c, processingLetters of client/file_viewer.c), the   *)
(* dictionary of domains (client/dictionary.c) and the socket list of each *)
(* worker (client/worker.c).                                               *)
(*                                                                         *)
(* The dialogue of one connection is SmtpConnection; here it is reduced to *)
(* its effects on the letters, the dictionary and the list: stage says     *)
(* what may come next.  A step is what one thread does between two         *)
(* accesses to what the threads share.                                     *)
(***************************************************************************)
EXTENDS Integers, Sequences, FiniteSets

CONSTANTS
  Count,          \* Workers.count; the workers are 0 .. Count - 1
  Domain, Letter,
  DomainOf,       \* the domain of each letter
  StaleId,        \* what the workerId of a freed record may be read as
  Stray,          \* a descriptor number that no listed socket has
  MaxDelegations  \* bound: letters delegated to one worker

Worker == 0 .. Count - 1

ASSUME ClientAssumption ==
  /\ Count \in Nat \ {0}
  /\ DomainOf \in [Letter -> Domain]
  /\ StaleId \subseteq Int
  /\ Stray \notin Domain
  /\ MaxDelegations \in Nat

VARIABLES
  place,        \* the maildir folder of each letter
  main,         \* the main thread: where it is, the letter and the worker in
                \* hand, how often a record was added for it
  Dictionary,   \* the records, oldest first
  tasks,        \* worker->tasks
  count_task,   \* worker->count_task
  worked,       \* worker->worked
  socket_list,  \* manager->socket_list: domain, letters and stage of each socket
  readers, writers,  \* the fd_sets, by the domain of the socket
  misled,       \* history: was a failed opening taken for a socket?
  todo,         \* the sockets a worker still has to look at in this turn
  closing,      \* run: has closingConnections been called?
  pc            \* where each worker is in run

mainVars == <<main, count_task>>
listVars == <<socket_list, readers, writers, misled>>
vars == <<place, main, Dictionary, tasks, count_task, worked, socket_list,
          readers, writers, misled, todo, closing, pc>>

Listed(s) == {s[i] : i \in DOMAIN s}
Domains(w) == {c.domain : c \in Listed(socket_list[w])}
Awaited(w) == Domains(w) \cap (readers[w] \cup writers[w])
Moved(letters, folder) ==
  [l \in Letter |-> IF l \in letters THEN folder ELSE place[l]]

\* "opening": before the greeting; "open": EHLO, then letters are sent, and tried
\* again; "resetting": RSET is to be sent after a letter was dropped; "reset":
\* its reply comes next; "quitting": QUIT is to be sent after the last letter, or
\* was; "disposing": the socket is being closed.
Connection == [domain : Domain, task_pool : Seq(Letter),
               stage : {"opening", "open", "resetting", "reset", "quitting",
                        "disposing"}]

\* What may be in an fd_set.
Descriptor == Domain \cup {Stray}

TypeOK ==
  /\ place \in [Letter -> {"new", "tmp", "current"}]
  /\ main \in [at : {"watching", "adding", "added", "delegating", "joining",
                     "ended", "crashed"},
               letter : SUBSET Letter, worker : Int, tryes : 0 .. 3]
  /\ Dictionary \in Seq([domain : Domain, workerId : Worker])
  /\ tasks \in [Worker -> Seq(Letter)]
  /\ count_task \in [Worker -> 0 .. MaxDelegations]
  /\ worked \in [Worker -> BOOLEAN]
  /\ socket_list \in [Worker -> Seq(Connection)]
  /\ readers \in [Worker -> SUBSET Descriptor]
  /\ writers \in [Worker -> SUBSET Descriptor]
  /\ misled \in [Worker -> BOOLEAN]
  /\ todo \in [Worker -> SUBSET Domain]
  /\ closing \in [Worker -> BOOLEAN]
  /\ pc \in [Worker -> {"looping", "select", "closing", "taking", "walking",
                        "serving", "spinning", "ended"}]

Init ==
  /\ place = [l \in Letter |-> "new"]
  /\ main = [at |-> "watching", letter |-> {}, worker |-> -1, tryes |-> 0]
  /\ Dictionary = <<>>
  /\ tasks = [w \in Worker |-> <<>>]
  /\ count_task = [w \in Worker |-> 0]
  /\ worked = [w \in Worker |-> TRUE]
  /\ socket_list = [w \in Worker |-> <<>>]
  /\ readers = [w \in Worker |-> {}] /\ writers = [w \in Worker |-> {}]
  /\ misled = [w \in Worker |-> FALSE]
  /\ todo = [w \in Worker |-> {}]
  /\ closing = [w \in Worker |-> FALSE]
  /\ pc = [w \in Worker |-> "looping"]

-----------------------------------------------------------------------------
\* The dictionary.

Records(d) == {i \in DOMAIN Dictionary : Dictionary[i].domain = d}
First(d) == CHOOSE i \in Records(d) : \A j \in Records(d) : i <= j

\* Dictionary after RemoveDomainRecordFromDictionary: without the first record
\* of the domain, whichever worker it names.
Removed(d) ==
  IF Records(d) = {} THEN Dictionary
  ELSE SubSeq(Dictionary, 1, First(d) - 1)
       \o SubSeq(Dictionary, First(d) + 1, Len(Dictionary))

\* Mutant of MostFreeWorker: the loop runs to Workers.count.
MostFreeOrCount ==
  CHOOSE w \in 1 .. Count :
    \A v \in Worker : count_task[IF w = Count THEN 0 ELSE w] <= count_task[v]

\* The first of the workers with the fewest letters delegated so far.
MostFreeWorker ==
  CHOOSE w \in Worker : \A v \in Worker :
    count_task[w] < count_task[v] \/ (count_task[w] = count_task[v] /\ w <= v)

-----------------------------------------------------------------------------
\* The main thread.

Watch == main' = [main EXCEPT !.at = "watching", !.letter = {},
                              !.worker = -1, !.tryes = 0]

\* Mutant of Found: only a record of the most free worker is found.
FoundFree(d) == {i \in Records(d) : Dictionary[i].workerId = MostFreeWorker}
Found(d) == Records(d)

\* processingLetters, up to FindDomainInDictionary.
FindLetter(l) ==
  /\ main.at = "watching" /\ place[l] = "new"
  /\ \A w \in Worker : count_task[w] < MaxDelegations
  /\ main' = IF Found(DomainOf[l]) = {}
             THEN [main EXCEPT !.at = "adding", !.letter = {l}]
             ELSE [main EXCEPT !.at = "delegating", !.letter = {l},
                     !.worker = Dictionary[First(DomainOf[l])].workerId]
  /\ UNCHANGED <<place, Dictionary, tasks, count_task, worked, listVars, todo,
                 closing, pc>>

InHand == CHOOSE l \in Letter : l \in main.letter

\* AddDomainRecordToDictionary, up to sem_post.
AddRecord ==
  /\ main.at = "adding"
  /\ Dictionary' = Append(Dictionary, [domain |-> DomainOf[InHand],
                                       workerId |-> MostFreeWorker])
  /\ main' = [main EXCEPT !.at = "added", !.worker = MostFreeWorker,
                          !.tryes = @ + 1]
  /\ UNCHANGED <<place, tasks, count_task, worked, listVars, todo, closing, pc>>

\* "return new_record->workerId" after sem_post: a worker may have removed, and
\* freed, the record in between.  After three negative results the letter is
\* left in "new".
ReadAdded ==
  /\ main.at = "added"
  /\ \E id \in {main.worker} \cup
               (IF Records(DomainOf[InHand]) = {} THEN StaleId ELSE {}) :
       IF id >= 0
       THEN main' = [main EXCEPT !.at = "delegating", !.worker = id]
       ELSE IF main.tryes < 3 THEN main' = [main EXCEPT !.at = "adding"]
            ELSE Watch
  /\ UNCHANGED <<place, Dictionary, tasks, count_task, worked, listVars, todo,
                 closing, pc>>

\* MoveLetter and DelegateTaskToWorker, which waits for the lock of the list.
Delegate ==
  /\ main.at = "delegating"
  /\ main.worker \in Worker /\ pc[main.worker] # "taking"
  /\ place' = Moved(main.letter, "tmp")
  /\ tasks' = [tasks EXCEPT ![main.worker] = Append(@, InHand)]
  /\ count_task' = [count_task EXCEPT ![main.worker] = @ + 1]
  /\ Watch
  /\ UNCHANGED <<Dictionary, worked, listVars, todo, closing, pc>>

\* "workerIndex > Workers.count": the letter is moved to "tmp" and back.  For
\* workerIndex = Workers.count the pool has a null pointer.
DelegateNowhere ==
  /\ main.at = "delegating" /\ main.worker >= Count
  /\ IF main.worker > Count THEN Watch /\ UNCHANGED place
     ELSE /\ main' = [main EXCEPT !.at = "crashed"]
          /\ place' = Moved(main.letter, "tmp")
  /\ UNCHANGED <<Dictionary, tasks, count_task, worked, listVars, todo, closing, pc>>

\* Mutant of Tell: the flag is cleared after the join.
TellAfterJoin(w) == worked' = [v \in Worker |-> v >= w /\ worked[v]]

Tell(w) == worked' = [worked EXCEPT ![w] = FALSE]

\* Dispose: tell a worker to stop and join it, one worker after the other.
Dispose ==
  /\ main.at = "watching"
  /\ main' = [main EXCEPT !.at = "joining", !.worker = 0]
  /\ Tell(0)
  /\ UNCHANGED <<place, Dictionary, tasks, count_task, listVars, todo, closing, pc>>

Join ==
  /\ main.at = "joining" /\ pc[main.worker] = "ended"
  /\ IF main.worker = Count - 1
     THEN main' = [main EXCEPT !.at = "ended"] /\ UNCHANGED worked
     ELSE main' = [main EXCEPT !.worker = @ + 1] /\ Tell(main.worker + 1)
  /\ UNCHANGED <<place, Dictionary, tasks, count_task, listVars, todo, closing, pc>>

Main == (\E l \in Letter : FindLetter(l)) \/ AddRecord \/ ReadAdded \/ Delegate
        \/ DelegateNowhere \/ Dispose \/ Join

-----------------------------------------------------------------------------
\* A worker, up to its tasks.

Goto(w, label) == pc' = [pc EXCEPT ![w] = label]

\* "while (worker_context->worked || manager.socket_list != NULL)"
Loop(w) ==
  /\ pc[w] = "looping"
  /\ Goto(w, IF worked[w] \/ socket_list[w] # <<>> THEN "select" ELSE "ended")
  /\ UNCHANGED <<place, mainVars, Dictionary, tasks, worked, listVars, todo, closing>>

\* Mutant of AfterSelect: "not ready sockets" is looked at before the tasks.
AfterSelectReady(w, ready) ==
  IF count_task[w] = 0 \/ ready = {} THEN "looping" ELSE "taking"

\* "if (worker_context->count_task == 0) continue"
AfterSelect(w, ready) == IF count_task[w] = 0 THEN "looping" ELSE "taking"

\* pselect returns some sockets, or none after a signal or 60 seconds; a worker
\* that has to stop closes its connections once, and polls all sockets then.
Select(w) ==
  /\ pc[w] = "select"
  /\ \E ready \in SUBSET Awaited(w) :
       IF worked[w] \/ closing[w]
       THEN LET polled == IF closing[w] THEN Awaited(w) ELSE ready IN
            /\ todo' = [todo EXCEPT ![w] = polled]
            /\ Goto(w, AfterSelect(w, polled))
            /\ UNCHANGED closing
       ELSE /\ todo' = [todo EXCEPT ![w] = Domains(w)]
            /\ Goto(w, "closing")
            /\ closing' = [closing EXCEPT ![w] = TRUE]
  /\ UNCHANGED <<place, mainVars, Dictionary, tasks, worked, listVars>>

\* The socket of a domain in the list of a worker: findSocketByDomain.
At(w, d) == CHOOSE i \in DOMAIN socket_list[w] :
  /\ socket_list[w][i].domain = d
  /\ \A j \in 1 .. i - 1 : socket_list[w][j].domain # d
Socket(w, d) == socket_list[w][At(w, d)]
SetPool(w, d, pool) ==
  socket_list' = [socket_list EXCEPT ![w][At(w, d)].task_pool = pool]
SetSocket(w, d, pool, stage) ==
  socket_list' = [socket_list EXCEPT ![w][At(w, d)] =
                   [domain |-> d, task_pool |-> pool, stage |-> stage]]

\* Mutant of Kept: the list of tasks is not cut after its first element.
KeptAll(c) == c.task_pool

\* What closingConnections leaves to a socket: the letter being sent, and not
\* even that one before the greeting.
Kept(c) == IF c.task_pool = <<>> \/ c.stage = "opening" THEN <<>>
           ELSE <<Head(c.task_pool)>>

\* A turn of closingConnections.
CloseConnection(w, d) ==
  /\ pc[w] = "closing" /\ d \in todo[w]
  /\ Dictionary' = Removed(d)
  /\ LET c == Socket(w, d) IN
       /\ SetPool(w, d, Kept(c))
       /\ place' = Moved(IF c.task_pool = <<>> \/ c.stage = "opening"
                         THEN Listed(c.task_pool) ELSE Listed(Tail(c.task_pool)), "new")
  /\ todo' = [todo EXCEPT ![w] = @ \ {d}]
  /\ UNCHANGED <<mainVars, tasks, worked, readers, writers, misled, closing, pc>>

EndClosing(w) ==
  /\ pc[w] = "closing" /\ todo[w] = {}
  /\ todo' = [todo EXCEPT ![w] = Awaited(w)]
  /\ Goto(w, AfterSelect(w, Awaited(w)))
  /\ UNCHANGED <<place, mainVars, Dictionary, tasks, worked, listVars, closing>>

\* findSocketByDomain finds one.
HasSocket(w, d) == d \in Domains(w)

Put(set, w, d) == [set EXCEPT ![w] = @ \cup {d}]
LetGo(set, w, d) == [set EXCEPT ![w] = @ \ {d}]

\* The letter joins those of the socket of its domain.
TakeToSocket(w, l) ==
  /\ HasSocket(w, DomainOf[l])
  /\ SetPool(w, DomainOf[l], Append(Socket(w, DomainOf[l]).task_pool, l))
  /\ UNCHANGED <<place, main, readers, writers, misled>>

\* A socket is opened for the letter.  When its number is one the worker has let
\* stray into writers, it waits there as well.
TakeToNewSocket(w, l) ==
  LET d == DomainOf[l] IN
  /\ ~ HasSocket(w, d)
  /\ socket_list' = [socket_list EXCEPT ![w] =
       Append(@, [domain |-> d, task_pool |-> <<l>>, stage |-> "opening"])]
  /\ readers' = Put(readers, w, d)
  /\ \/ UNCHANGED writers
     \/ Stray \in writers[w] /\ writers' = Put(writers, w, d)
  /\ UNCHANGED <<place, main, misled>>

\* No socket can be opened.  What was allocated for it is freed, with a pointer
\* nobody may have written, and then its id is read: a negative one sends the
\* letter back; any other goes into readers, as if there were a socket (it may be
\* the number of a listed one, or beyond the set), and the letter is lost.
TakeInVain(w, l) ==
  /\ ~ HasSocket(w, DomainOf[l])
  /\ \/ place' = Moved({l}, "new") /\ UNCHANGED <<main, readers, misled>>
     \/ /\ \E d \in Domains(w) \cup {Stray} : readers' = Put(readers, w, d)
        /\ misled' = [misled EXCEPT ![w] = TRUE]
        /\ UNCHANGED <<place, main>>
     \/ main' = [main EXCEPT !.at = "crashed"] /\ UNCHANGED <<place, readers, misled>>
  /\ UNCHANGED <<socket_list, writers>>

\* A turn of processingTasks, which holds the lock.
TakeTask(w) ==
  /\ pc[w] = "taking" /\ tasks[w] # <<>>
  /\ LET l == Head(tasks[w]) IN
       TakeToSocket(w, l) \/ TakeToNewSocket(w, l) \/ TakeInVain(w, l)
  /\ tasks' = [tasks EXCEPT ![w] = Tail(@)]
  /\ UNCHANGED <<count_task, Dictionary, worked, todo, closing, pc>>

EndTaking(w) ==
  /\ pc[w] = "taking" /\ tasks[w] = <<>>
  /\ Goto(w, IF todo[w] = {} THEN "looping" ELSE "walking")
  /\ UNCHANGED <<place, mainVars, Dictionary, tasks, worked, listVars, todo, closing>>

-----------------------------------------------------------------------------
\* A worker, at its sockets, in the order of the list.

Current(w) == CHOOSE d \in todo[w] : \A e \in todo[w] : At(w, d) <= At(w, e)

\* Mutant of StartServing: a socket in the set of writers stays there.
StartKeepingWriters(w) ==
  /\ pc[w] = "walking"
  /\ readers' = LetGo(readers, w, Current(w))
  /\ Goto(w, "serving")
  /\ UNCHANGED <<place, mainVars, Dictionary, tasks, worked, socket_list, writers,
                 misled, todo, closing>>

\* The next ready socket leaves the fd_set it was ready in, and is served.
StartServing(w) ==
  /\ pc[w] = "walking"
  /\ \/ /\ Current(w) \in readers[w]
        /\ readers' = LetGo(readers, w, Current(w)) /\ UNCHANGED writers
     \/ /\ Current(w) \in writers[w]
        /\ writers' = LetGo(writers, w, Current(w)) /\ UNCHANGED readers
  /\ Goto(w, "serving")
  /\ UNCHANGED <<place, mainVars, Dictionary, tasks, worked, socket_list, misled,
                 todo, closing>>

Serving(w, stages) == pc[w] = "serving" /\ Socket(w, Current(w)).stage \in stages
Pool(w) == Socket(w, Current(w)).task_pool

\* What a step at a socket leaves alone, unless the turn ends with it.
ServingOn(w) ==
  UNCHANGED <<count_task, tasks, worked, readers, writers, misled, todo, closing>>

\* The server greets.
Greeted(w) ==
  /\ Serving(w, {"opening"})
  /\ SetSocket(w, Current(w), Pool(w), "open")
  /\ UNCHANGED <<place, main, Dictionary, pc>> /\ ServingOn(w)

\* handleResponseOfLetter: after the last letter the record is removed.
LetterSent(w) ==
  /\ Serving(w, {"open"}) /\ Pool(w) # <<>>
  /\ place' = Moved({Head(Pool(w))}, "current")
  /\ LET last == Tail(Pool(w)) = <<>> IN
       /\ SetSocket(w, Current(w), Tail(Pool(w)), IF last THEN "quitting" ELSE "open")
       /\ Dictionary' = IF last THEN Removed(Current(w)) ELSE Dictionary
  /\ UNCHANGED <<main, pc>> /\ ServingOn(w)

\* handleSmtpError, the second error with a letter: RSET comes next.  When QUIT
\* could not be sent, the letter is one that has come since the last was sent.
LetterDropped(w) ==
  /\ Serving(w, {"open", "quitting"}) /\ Pool(w) # <<>>
  /\ place' = Moved({Head(Pool(w))}, "new")
  /\ SetSocket(w, Current(w), Tail(Pool(w)), "resetting")
  /\ UNCHANGED <<main, Dictionary, pc>> /\ ServingOn(w)

\* The first error after the last letter, which is QUIT that could not be sent.
QuitNotSent(w) ==
  /\ Serving(w, {"quitting"})
  /\ SetSocket(w, Current(w), Pool(w), "resetting")
  /\ UNCHANGED <<place, main, Dictionary, pc>> /\ ServingOn(w)

\* The second such error, or MAIL after a closing worker has taken the letters
\* away: task_pool is a null pointer.
NullPool(w) ==
  /\ Serving(w, {"open", "quitting"}) /\ Pool(w) = <<>>
  /\ main' = [main EXCEPT !.at = "crashed"]
  /\ UNCHANGED <<place, Dictionary, socket_list, pc>> /\ ServingOn(w)

ResetSent(w) ==
  /\ Serving(w, {"resetting"})
  /\ SetSocket(w, Current(w), Pool(w), "reset")
  /\ UNCHANGED <<place, main, Dictionary, pc>> /\ ServingOn(w)

\* handleResponseOfRSET: the next letter is sent, or QUIT, which handleSendQUIT
\* refuses after a RSET.
ResetDone(w) ==
  /\ Serving(w, {"reset"})
  /\ IF Pool(w) # <<>>
     THEN SetSocket(w, Current(w), Pool(w), "open") /\ UNCHANGED Dictionary
     ELSE SetSocket(w, Current(w), <<>>, "disposing") /\ Dictionary' = Removed(Current(w))
  /\ UNCHANGED <<place, main, pc>> /\ ServingOn(w)

\* handleSmtpError, the errors that end a connection (in "open", those of EHLO and
\* of the reply to the RSET of a letter that is tried again).
GiveBackAll(w) ==
  /\ Serving(w, {"opening", "open", "reset", "quitting"})
  /\ Dictionary' = Removed(Current(w))
  /\ place' = Moved(Listed(Pool(w)), "new")
  /\ SetSocket(w, Current(w), <<>>, "disposing")
  /\ UNCHANGED <<main, pc>> /\ ServingOn(w)

\* An error handleSmtpError has no case for: of RCPT or its reply, or of a RSET
\* that cannot be sent.  "if (current_state == SMTP_ERROR) status = 0" repeats it
\* for ever.
Spin(w) ==
  /\ \/ Serving(w, {"open"}) /\ Pool(w) # <<>>
     \/ Serving(w, {"resetting"})
  /\ Goto(w, "spinning")
  /\ UNCHANGED <<place, main, Dictionary, socket_list>> /\ ServingOn(w)

Served(w) ==
  /\ todo' = LetGo(todo, w, Current(w))
  /\ Goto(w, IF todo'[w] = {} THEN "looping" ELSE "walking")

\* The socket would block: it waits in one of the sets.  A closing worker does
\* not wait for a socket without letters.
Block(w) ==
  /\ Serving(w, {"opening", "open", "resetting", "reset", "quitting"})
  /\ worked[w] \/ Pool(w) # <<>>
  /\ \/ readers' = Put(readers, w, Current(w)) /\ UNCHANGED writers
     \/ writers' = Put(writers, w, Current(w)) /\ UNCHANGED readers
  /\ Served(w)
  /\ UNCHANGED <<place, mainVars, Dictionary, tasks, worked, socket_list, misled,
                 closing>>

\* A number that stays in a set when its socket is removed.
Strayed(set, w, d) ==
  IF d \in set[w] THEN Put(LetGo(set, w, d), w, Stray) ELSE set

\* removeSocketConnectionFromPool, with the record or without; the letters the
\* socket still has stay in "tmp".
Unlist(w) ==
  /\ pc[w] = "serving"
  /\ Dictionary' \in {Dictionary, Removed(Current(w))}
  /\ socket_list' = [socket_list EXCEPT ![w] =
                      SubSeq(@, 1, At(w, Current(w)) - 1)
                      \o SubSeq(@, At(w, Current(w)) + 1, Len(@))]
  /\ readers' = Strayed(readers, w, Current(w))
  /\ writers' = Strayed(writers, w, Current(w))
  /\ UNCHANGED <<place, count_task, tasks, worked, misled, closing>>

\* "listViewer = listViewer->next" then reads the freed element: the pointer is
\* still there, or it is null and the turn ends, or it leads nowhere.
Remove(w) ==
  /\ Unlist(w)
  /\ \/ Served(w) /\ UNCHANGED main
     \/ todo' = [todo EXCEPT ![w] = {}] /\ Goto(w, "looping") /\ UNCHANGED main
     \/ main' = [main EXCEPT !.at = "crashed"] /\ UNCHANGED <<todo, pc>>

WorkerStep(w) ==
  \/ Loop(w) \/ Select(w) \/ EndClosing(w) \/ TakeTask(w) \/ EndTaking(w)
  \/ \E d \in Domain : CloseConnection(w, d)
  \/ StartServing(w) \/ Greeted(w) \/ LetterSent(w) \/ LetterDropped(w)
  \/ QuitNotSent(w) \/ NullPool(w) \/ ResetSent(w) \/ ResetDone(w)
  \/ GiveBackAll(w) \/ Spin(w) \/ Block(w) \/ Remove(w)

\* A bad pointer of one thread kills all of them.
Next == main.at # "crashed" /\ (Main \/ \E w \in Worker : WorkerStep(w))

Spec == Init /\ [][Next]_vars

\* The threads are scheduled, and pselect returns after 60 seconds at the
\* latest.  Nothing is assumed of the servers, nor that letters or SIGINT come.
FairSpec ==
  /\ Spec
  /\ \A w \in Worker : WF_vars(main.at # "crashed" /\ WorkerStep(w))
  /\ WF_vars(main.at # "crashed" /\ Join)

-----------------------------------------------------------------------------
\* A domain never has two records: only the main thread adds one, after it has
\* found none, and whatever the workers remove in between, the record of
\* AddDomainRecordToDictionary stays the only one (dictionary.c:19-121).
NoDuplicateRecords ==
  \A i, j \in DOMAIN Dictionary :
    Dictionary[i].domain = Dictionary[j].domain => i = j

\* All the places where a letter may have a task.
Tasks(w) == Listed(tasks[w]) \cup UNION {Listed(c.task_pool) : c \in Listed(socket_list[w])}
Injective(s) == \A i, j \in DOMAIN s : s[i] = s[j] => i = j

\* A letter has at most one task, with one worker, although two workers may
\* serve one domain after a letter has met the removal of its record; and while
\* it has one it is in "tmp", where no search finds it (file_viewer.c:225).
OneWorkerPerLetter ==
  /\ \A v, w \in Worker : v # w => Tasks(v) \cap Tasks(w) = {}
  /\ \A w \in Worker :
       /\ Injective(tasks[w])
       /\ \A i \in DOMAIN socket_list[w] :
            /\ Injective(socket_list[w][i].task_pool)
            /\ Listed(socket_list[w][i].task_pool) \cap Listed(tasks[w]) = {}
            /\ \A l \in Listed(socket_list[w][i].task_pool) :
                 DomainOf[l] = socket_list[w][i].domain
       /\ \A l \in Tasks(w) : place[l] = "tmp"

\* When a worker sleeps in pselect, each of its sockets is in one of the two
\* sets, however a turn ended: no connection is forgotten there.  It is in one
\* only, and nothing else is: no descriptor of a removed socket is waited for,
\* and none that is freed as a reader is looked at again as a writer
\* (worker.c:131-248) - unless the worker has ever taken a socket that could not
\* be opened for one that could (worker.c:291, 312).
AwaitedOnce ==
  \A w \in Worker : pc[w] = "select" =>
    /\ Len(socket_list[w]) = Cardinality(Domains(w))
    /\ Domains(w) \subseteq readers[w] \cup writers[w]
    /\ ~ misled[w] => /\ readers[w] \cup writers[w] = Domains(w)
                      /\ readers[w] \cap writers[w] = {}

\* A delegated letter is taken by its worker, even if no socket is ever ready
\* and the worker has to stop in the meantime, unless the worker had ended its
\* loop just when the letter came (worker.c:86-116), or repeats an error without
\* a case for ever (worker.c:133-147, smtp_interface.c:1096).
TasksAreTaken ==
  \A w \in Worker : tasks[w] # <<>> ~>
    tasks[w] = <<>> \/ pc[w] \in {"ended", "spinning"} \/ main.at = "crashed"

\* Unless the program dies, Dispose comes to its end, or waits for ever for a
\* worker that repeats an error without a case or has a letter under way at a
\* silent server; the workers behind it in the pool do not hold it up
\* (controller.c:112-120).
DisposeSettles ==
  main.at = "joining" ~>
    [](\/ main.at \in {"ended", "crashed"}
       \/ /\ main.at = "joining"
          /\ \/ pc[main.worker] = "spinning"
             \/ \E c \in Listed(socket_list[main.worker]) : c.task_pool # <<>>)
=============================================================================
