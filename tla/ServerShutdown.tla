--------------------------- MODULE ServerShutdown ---------------------------
(***************************************************************************)
(* The server as a family of processes: the parent (server/server.c), the  *)
(* logger (server/logger.c) and the processes that serve clients           *)
(* (server/process.c, the loop of run_process in server/smtp.c).  They are *)
(* stopped by SIGINT and talk through POSIX message queues of MaxMsg       *)
(* messages: every log message goes to the logger's queue, and the handler *)
(* of SIGINT sends "#" to the queue of its own process.                    *)
(*                                                                         *)
(* What a process does with its clients is in SmtpSession and ServerLoop;  *)
(* here a turn of its loop is the number of log messages it sends.         *)
(***************************************************************************)
EXTENDS Integers, Sequences, FiniteSets

CONSTANTS
  Process,         \* the processes of init_processes
  Logger, Parent,
  MaxMsg,          \* mq_maxmsg of init_process
  TurnLogs,        \* how many messages a turn of run_process may log
  MaxInterrupts    \* bound: SIGINTs sent to the group of processes

Child == Process \cup {Logger}
Actor == Child \cup {Parent}
Sender == Process \cup {Parent}

ASSUME ShutdownAssumption ==
  /\ IsFiniteSet(Process)
  /\ Logger \notin Process /\ Parent \notin Process /\ Logger # Parent
  /\ MaxMsg \in Nat \ {0}
  /\ TurnLogs \subseteq Nat \ {0}
  /\ MaxInterrupts \in Nat

VARIABLES
  pc,          \* where each actor is
  serv_state,  \* serv.state of the parent
  queue,       \* the message queue of each child
  extra,       \* has the sender opened the logger's queue?
  owed,        \* the messages a sender has to log before it goes on
  pending,     \* is a SIGINT pending for the actor?
  interrupts   \* the SIGINTs sent so far

vars == <<pc, serv_state, queue, extra, owed, pending, interrupts>>

\* Actors that are not there any more.  "failed": gone without having made its
\* queue (the parent: server_init failed).
Gone == {"ended", "killed", "failed"}

\* Before its sigaction SIGINT kills an actor.
Unprotected == {"forking", "forked", "created", "starting"}

\* "stuck": in the handler, sending to a queue that only the actor itself reads.
\* "waiting" and "early": the parent in its handler, in the loop or before it.
TypeOK ==
  /\ pc \in [Actor -> {"unborn", "running", "stuck", "caught", "early",
                       "waiting"} \cup Unprotected \cup Gone]
  /\ serv_state \in {"INIT", "START_WORK", "FINISH_WORK"}
  /\ queue \in [Child -> Seq({"text", "#"})]
  /\ \A c \in Child : Len(queue[c]) <= MaxMsg
  /\ extra \in [Sender -> BOOLEAN]
  /\ owed \in [Sender -> Nat]
  /\ pending \in [Actor -> BOOLEAN]
  /\ interrupts \in 0 .. MaxInterrupts

Init ==
  /\ pc = [a \in Actor |-> IF a = Parent THEN "forking" ELSE "unborn"]
  /\ serv_state = "INIT"
  /\ queue = [c \in Child |-> <<>>]
  /\ extra = [a \in Sender |-> FALSE]
  /\ owed = [a \in Sender |-> 0]
  /\ pending = [a \in Actor |-> FALSE]
  /\ interrupts = 0

Full(c) == Len(queue[c]) = MaxMsg

\* mq_open without O_CREAT needs the queue; and the name init_process left in
\* the process is a dangling pointer, which may name no queue at all.
MayOpen == IF pc[Logger] \in {"unborn", "forked", "failed"} THEN {FALSE} ELSE BOOLEAN

-----------------------------------------------------------------------------
\* The parent.

\* The logger is forked first, then the processes.  The kernel does not fork a
\* process that has a signal pending.
MayFork(c) ==
  /\ pc[Parent] = "forking" /\ pc[c] = "unborn" /\ ~ pending[Parent]
  /\ c # Logger => pc[Logger] # "unborn"

Fork(c) ==
  /\ MayFork(c)
  /\ pc' = [pc EXCEPT ![c] = "forked"]
  /\ UNCHANGED <<serv_state, queue, extra, owed, pending, interrupts>>

\* init_logger goes on without a logger; init_processes returns NULL, and main
\* returns.
ForkFails(c) ==
  /\ MayFork(c)
  /\ pc' = IF c = Logger
           THEN [pc EXCEPT ![c] = "failed"]
           ELSE [a \in Actor |-> IF a = Parent \/ pc[a] = "unborn"
                                 THEN "failed" ELSE pc[a]]
  /\ UNCHANGED <<serv_state, queue, extra, owed, pending, interrupts>>

\* init_signal_catcher, at the end of server_init.
CatchSignals ==
  /\ pc[Parent] = "forking" /\ \A c \in Child : pc[c] # "unborn"
  /\ pc' = [pc EXCEPT ![Parent] = "caught"]
  /\ UNCHANGED <<serv_state, queue, extra, owed, pending, interrupts>>

\* server_run, up to its loop.  The parent's own copy of the name is good.
StartRun ==
  /\ pc[Parent] = "caught"
  /\ pc' = [pc EXCEPT ![Parent] = "running"]
  /\ serv_state' = "START_WORK"
  /\ extra' = [extra EXCEPT ![Parent] = TRUE \in MayOpen]
  /\ UNCHANGED <<queue, owed, pending, interrupts>>

\* server_init returns the state: main ends if the handler has changed it.  But
\* when the handler ran before the state was set to SERVER_FINISH_INIT, or after
\* the return, its SERVER_FINISH_WORK is overwritten (StartRun).
SkipRun ==
  /\ pc[Parent] = "caught" /\ serv_state = "FINISH_WORK"
  /\ pc' = [pc EXCEPT ![Parent] = "ended"]
  /\ UNCHANGED <<serv_state, queue, extra, owed, pending, interrupts>>

\* A turn of the loop of server_run: the sleep ends by itself or by a signal.
Turn ==
  /\ pc[Parent] = "running" /\ owed[Parent] = 0
  /\ \/ /\ serv_state = "START_WORK"
        /\ owed' = [owed EXCEPT ![Parent] = 1]
        /\ UNCHANGED <<pc, serv_state>>
     \/ /\ serv_state = "FINISH_WORK"
        /\ pc' = [pc EXCEPT ![Parent] = "ended"]
        /\ UNCHANGED <<serv_state, owed>>
  /\ UNCHANGED <<queue, extra, pending, interrupts>>

\* Mutant of Waited: the handler waits for the processes only.
WaitedForProcesses ==
  Cardinality({c \in Child : pc[c] \in Gone}) >= Cardinality(Process)

\* The waits of handle_server_signal take any child; without children they fail.
Waited ==
  Cardinality({c \in Child : pc[c] \in Gone}) >= Cardinality(Process) + 1

\* The end of handle_server_signal.
Waits ==
  /\ pc[Parent] \in {"early", "waiting"} /\ Waited
  /\ serv_state' = "FINISH_WORK"
  /\ pc' = [pc EXCEPT ![Parent] =
                 IF pc[Parent] = "early" THEN "caught" ELSE "running"]
  /\ UNCHANGED <<queue, extra, owed, pending, interrupts>>

-----------------------------------------------------------------------------
\* The logger.

\* init_process opens the queue of the logger before its sigaction.
CreateQueue ==
  /\ pc[Logger] = "forked"
  /\ pc' = [pc EXCEPT ![Logger] = "created"]
  /\ UNCHANGED <<serv_state, queue, extra, owed, pending, interrupts>>

StartLogger ==
  /\ pc[Logger] = "created"
  /\ pc' = [pc EXCEPT ![Logger] = "running"]
  /\ UNCHANGED <<serv_state, queue, extra, owed, pending, interrupts>>

\* Mutant of ReceiveLog: the comparison with "#" is turned round.
ReceiveLogOnce ==
  /\ pc[Logger] = "running" /\ queue[Logger] # <<>>
  /\ queue' = [queue EXCEPT ![Logger] = Tail(@)]
  /\ pc' = [pc EXCEPT ![Logger] =
                 IF Head(queue[Logger]) # "#" THEN "ended" ELSE "running"]
  /\ UNCHANGED <<serv_state, extra, owed, pending, interrupts>>

\* A turn of run_logger: one message, saved; "#" ends the loop and the process.
\* The queue stays in the system.
ReceiveLog ==
  /\ pc[Logger] = "running" /\ queue[Logger] # <<>>
  /\ queue' = [queue EXCEPT ![Logger] = Tail(@)]
  /\ pc' = [pc EXCEPT ![Logger] =
                 IF Head(queue[Logger]) = "#" THEN "ended" ELSE "running"]
  /\ UNCHANGED <<serv_state, extra, owed, pending, interrupts>>

-----------------------------------------------------------------------------
\* A process.

\* The child of init_processes up to its two messages.
OpenQueues(p) ==
  /\ pc[p] = "forked"
  /\ pc' = [pc EXCEPT ![p] = "starting"]
  /\ \E opened \in MayOpen : extra' = [extra EXCEPT ![p] = opened]
  /\ owed' = [owed EXCEPT ![p] = 2]
  /\ UNCHANGED <<serv_state, queue, pending, interrupts>>

\* init_signal_catch, the first message of run_process and those of its first
\* turn: nothing but messages happens before the first select.
StartProcess(p) ==
  /\ pc[p] = "starting" /\ owed[p] = 0
  /\ pc' = [pc EXCEPT ![p] = "running"]
  /\ \E n \in TurnLogs : owed' = [owed EXCEPT ![p] = 1 + n]
  /\ UNCHANGED <<serv_state, queue, extra, pending, interrupts>>

\* mq_send to the logger waits for room; without a queue it fails at once.
Log(a) ==
  /\ pc[a] \in {"starting", "running"} /\ owed[a] > 0
  /\ extra[a] => ~ Full(Logger)
  /\ owed' = [owed EXCEPT ![a] = @ - 1]
  /\ queue' = IF extra[a] THEN [queue EXCEPT ![Logger] = Append(@, "text")]
              ELSE queue
  /\ UNCHANGED <<pc, serv_state, extra, pending, interrupts>>

\* Mutant of Select: the message is not looked for.
SelectDeaf(p) ==
  /\ pc[p] = "running" /\ owed[p] = 0
  /\ \E n \in TurnLogs : owed' = [owed EXCEPT ![p] = n]
  /\ UNCHANGED <<pc, serv_state, queue, extra, pending, interrupts>>

\* select, and the test of the queue after it: "#" ends the loop, free_process
\* and kill end the process.  Otherwise the rest of the turn and the top of the
\* next one log some messages.
Select(p) ==
  /\ pc[p] = "running" /\ owed[p] = 0
  /\ \/ /\ queue[p] # <<>>
        /\ queue' = [queue EXCEPT ![p] = Tail(@)]
        /\ pc' = [pc EXCEPT ![p] = "ended"]
        /\ UNCHANGED owed
     \/ /\ queue[p] = <<>>
        /\ \E n \in TurnLogs : owed' = [owed EXCEPT ![p] = n]
        /\ UNCHANGED <<pc, queue>>
  /\ UNCHANGED <<serv_state, extra, pending, interrupts>>

-----------------------------------------------------------------------------
\* SIGINT.

\* Ctrl-C: the terminal signals every process of the group.
Interrupt ==
  /\ interrupts < MaxInterrupts
  /\ interrupts' = interrupts + 1
  /\ pending' = [a \in Actor |-> pending[a] \/ pc[a] \notin Gone \cup {"unborn"}]
  /\ UNCHANGED <<pc, serv_state, queue, extra, owed>>

\* A send that waits for room fails with EINTR, and its message is lost.
MayLose(a) ==
  owed' \in IF a \in Sender /\ owed[a] > 0 /\ extra[a] /\ Full(Logger)
            THEN {owed, [owed EXCEPT ![a] = @ - 1]}
            ELSE {owed}

\* No action for SIGINT yet.
Killed(a) ==
  /\ pc[a] \in Unprotected
  /\ pc' = [pc EXCEPT ![a] = IF pc[a] = "forked" THEN "failed" ELSE "killed"]
  /\ UNCHANGED <<serv_state, queue, extra, owed>>

\* Mutant of HandleInChild: the queue takes any number of messages.
HandleWithoutRoom(c) ==
  /\ pc[c] = "running"
  /\ queue' = [queue EXCEPT ![c] = Append(@, "#")]
  /\ MayLose(c)
  /\ UNCHANGED <<pc, serv_state, extra>>

\* handle_process_signal sends "#" to the queue of its own process, and waits
\* for room in it.
HandleInChild(c) ==
  /\ pc[c] = "running"
  /\ IF Full(c)
     THEN /\ pc' = [pc EXCEPT ![c] = "stuck"]
          /\ UNCHANGED queue
     ELSE /\ queue' = [queue EXCEPT ![c] = Append(@, "#")]
          /\ UNCHANGED pc
  /\ MayLose(c)
  /\ UNCHANGED <<serv_state, extra>>

\* The first half of handle_server_signal, before its waits return.
HandleInParent ==
  /\ pc[Parent] \in {"caught", "running"}
  /\ pc' = [pc EXCEPT ![Parent] =
                 IF pc[Parent] = "caught" THEN "early" ELSE "waiting"]
  /\ MayLose(Parent)
  /\ UNCHANGED <<serv_state, queue, extra>>

Deliver(a) ==
  /\ pending[a]
  /\ pending' = [pending EXCEPT ![a] = FALSE]
  /\ \/ Killed(a)
     \/ a \in Child /\ HandleInChild(a)
     \/ a = Parent /\ HandleInParent
  /\ UNCHANGED interrupts

-----------------------------------------------------------------------------
ParentStep == CatchSignals \/ StartRun \/ SkipRun \/ Turn \/ Waits
              \/ \E c \in Child : Fork(c) \/ ForkFails(c)
LoggerStep == CreateQueue \/ StartLogger \/ ReceiveLog
ProcessStep(p) == OpenQueues(p) \/ StartProcess(p) \/ Select(p)

Next ==
  \/ ParentStep
  \/ LoggerStep
  \/ \E p \in Process : ProcessStep(p)
  \/ \E a \in Sender : Log(a)
  \/ \E a \in Actor : Deliver(a)
  \/ Interrupt

Spec == Init /\ [][Next]_vars

\* The system schedules every process and delivers its signals, and the kernel
\* serves the senders that wait for room in a queue in their order (strong
\* fairness).  Nobody has to press Ctrl-C.
FairSpec ==
  /\ Spec
  /\ SF_vars(ParentStep \/ Log(Parent))
  /\ WF_vars(LoggerStep)
  /\ \A p \in Process : SF_vars(ProcessStep(p) \/ Log(p))
  /\ WF_vars(\E a \in Actor : Deliver(a))

-----------------------------------------------------------------------------
\* The parent that has waited in its handler ends last (server.c:11-14): no
\* child is left behind by a server that has ended.
ParentOutlives == pc[Parent] = "ended" => \A c \in Child : pc[c] \in Gone

\* While nobody interrupts the server, its logger makes room in its queue for
\* every message: no turn of run_process hangs in mq_send (smtp.c:65-90).
LoggingGoesOn ==
  \A p \in Process : owed[p] > 0 ~> owed[p] = 0 \/ interrupts > 0

\* Somebody waits for room in a queue that nobody reads: an interrupted child
\* sends to its own queue, or the logger has gone and left its queue full.
Blocked(a) == /\ pc[a] \in {"starting", "running"} /\ owed[a] > 0 /\ extra[a]
              /\ Full(Logger) /\ pc[Logger] \in Gone
Jammed == (\E c \in Child : pc[c] = "stuck") \/ \E a \in Sender : Blocked(a)

\* The parent has overwritten the state that its handler set.
Forgotten == /\ pc[Parent] = "running" /\ serv_state = "START_WORK"
             /\ \A c \in Child : pc[c] \in Gone

AllGone == \A a \in Actor : pc[a] \in Gone \cup {"unborn"}

\* A SIGINT ends the server for good, unless a queue is jammed or the parent
\* forgot it: the handlers, the queues and the waits leave no other way to hang.
ShutdownSettles == interrupts > 0 ~> [](AllGone \/ Jammed \/ Forgotten)
=============================================================================
