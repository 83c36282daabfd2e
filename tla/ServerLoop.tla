----------------------------- MODULE ServerLoop -----------------------------
(***************************************************************************)
(* The loop of run_process (server/smtp.c) in every process of the server: *)
(* they share the listening sockets they have inherited, and each has its  *)
(* own list of clients (server/socket.c) and its own descriptors.          *)
(*                                                                         *)
(* What a handler does with one client is SmtpSession; here a turn leaves  *)
(* the session of a client open or closed.  How a process learns that it   *)
(* has to stop is ServerShutdown.                                          *)
(***************************************************************************)
EXTENDS Integers, Sequences, FiniteSets

CONSTANTS
  Process, Connection,
  Listener,     \* the descriptors of the listening sockets
  QueueFd,      \* the descriptor of the message queue of a process
  FirstFd,      \* the first descriptor that is free for a client
  FdLimit,      \* the limit of descriptors of a process (and FD_SETSIZE)
  Backlog,      \* SERVER_BACKLOG_SIZE
  FlagsResult   \* whether fcntl may succeed, and fail, on a new socket

Inherited == Listener \cup {QueueFd}

ASSUME LoopAssumption ==
  /\ IsFiniteSet(Listener) /\ Inherited \subseteq Nat
  /\ FirstFd \in Nat /\ \A fd \in Inherited : fd < FirstFd
  /\ FdLimit \in Nat /\ FirstFd <= FdLimit
  /\ Backlog \in Nat /\ FlagsResult \subseteq BOOLEAN
  /\ Process \cap {"away", "waiting", "closed", "over"} = {}

VARIABLES
  backlog,    \* the connections that wait at each listener
  files,      \* the connections behind the descriptors FirstFd, FirstFd + 1, ...
  sock_list,  \* pr->sock_list: descriptor and state of each client
  max_fd,     \* pr->max_fd
  ready,      \* socket_set and temp, less the listeners that are done
  pc,         \* where each process is in its loop
  told        \* is a "#" in the queue of the process?

vars == <<backlog, files, sock_list, max_fd, ready, pc, told>>

Fd == FirstFd .. FdLimit - 1
Entry == [fd : Fd, state : {"open", "closed"}]

TypeOK ==
  /\ backlog \in [Listener -> Seq(Connection)]
  /\ files \in [Process -> Seq(Connection)]
  /\ sock_list \in [Process -> Seq(Entry)]
  /\ max_fd \in [Process -> Inherited \cup Fd]
  /\ ready \in [Process -> SUBSET (Listener \cup Fd)]
  /\ pc \in [Process -> {"cleaning", "selecting", "handling", "ended"}]
  /\ told \in [Process -> BOOLEAN]

\* init_process: the queue and the inherited listeners, no client.
Init ==
  /\ backlog = [l \in Listener |-> <<>>]
  /\ files = [p \in Process |-> <<>>]
  /\ sock_list = [p \in Process |-> <<>>]
  /\ \E m \in Inherited :
       /\ \A fd \in Inherited : fd <= m
       /\ max_fd = [p \in Process |-> m]
  /\ ready = [p \in Process |-> {}]
  /\ pc = [p \in Process |-> "cleaning"]
  /\ told = [p \in Process |-> FALSE]

Elements(s) == {s[i] : i \in DOMAIN s}
Fds(s) == {e.fd : e \in Elements(s)}
Closed(s) == {i \in DOMAIN s : s[i].state = "closed"}

\* delete_elem does not close, so the lowest free descriptor is the next one.
NextFd(p) == FirstFd + Len(files[p])

\* Mutant of Exhausted: one descriptor more than an fd_set has room for.
ExhaustedByOne(p) == NextFd(p) > FdLimit
Exhausted(p) == NextFd(p) >= FdLimit

Seen(c) == \/ \E l \in Listener : c \in Elements(backlog[l])
           \/ \E p \in Process : c \in Elements(files[p])

-----------------------------------------------------------------------------
\* The outside: a client connects, SIGINT puts "#" into the queue.
Arrive(c, l) ==
  /\ ~ Seen(c) /\ Len(backlog[l]) < Backlog
  /\ backlog' = [backlog EXCEPT ![l] = Append(@, c)]
  /\ UNCHANGED <<files, sock_list, max_fd, ready, pc, told>>

Tell(p) ==
  /\ ~ told[p]
  /\ told' = [told EXCEPT ![p] = TRUE]
  /\ UNCHANGED <<backlog, files, sock_list, max_fd, ready, pc>>

-----------------------------------------------------------------------------
\* The removal of closed clients.

\* Mutant of Delete: the nodes before the deleted one are lost.
DeletePrefix(s) ==
  LET i == CHOOSE i \in Closed(s) : \A j \in Closed(s) : i <= j
  IN  SubSeq(s, i + 1, Len(s))

\* delete_elem: the first closed client leaves the list.
Delete(s) ==
  LET i == CHOOSE i \in Closed(s) : \A j \in Closed(s) : i <= j
  IN  SubSeq(s, 1, i - 1) \o SubSeq(s, i + 1, Len(s))

\* A turn of the do-while loop that counts the list before and after.
Clean(p) ==
  /\ pc[p] = "cleaning"
  /\ IF Closed(sock_list[p]) # {}
     THEN /\ sock_list' = [sock_list EXCEPT ![p] = Delete(@)]
          /\ UNCHANGED pc
     ELSE /\ pc' = [pc EXCEPT ![p] = "selecting"]
          /\ UNCHANGED sock_list
  /\ UNCHANGED <<backlog, files, max_fd, ready, told>>

-----------------------------------------------------------------------------
\* select.

\* A listener is readable while a connection waits there.
Pending == {l \in Listener : backlog[l] # <<>>}

\* Mutant of Ready: "else if" between the listeners and the clients.
ReadyApart(p) ==
  {Pending} \cup {r \in SUBSET Fds(sock_list[p]) : r # {}}

\* What select may report: the listeners that are readable, and any clients.
Ready(p) == {Pending \cup r : r \in SUBSET Fds(sock_list[p])}

Select(p) ==
  /\ pc[p] = "selecting" /\ ~ told[p]
  /\ \E r \in Ready(p) \ {{}} : ready' = [ready EXCEPT ![p] = r]
  /\ pc' = [pc EXCEPT ![p] = "handling"]
  /\ UNCHANGED <<backlog, files, sock_list, max_fd, told>>

\* After 45 seconds: every client is marked as closed.
Timeout(p) ==
  /\ pc[p] = "selecting" /\ ~ told[p] /\ Pending = {}
  /\ sock_list' = [sock_list EXCEPT ![p] =
                    [i \in DOMAIN @ |-> [@[i] EXCEPT !.state = "closed"]]]
  /\ pc' = [pc EXCEPT ![p] = "cleaning"]
  /\ UNCHANGED <<backlog, files, max_fd, ready, told>>

\* The queue is readable, or SIGINT has ended select and left all sets as they
\* were: "#" ends the loop, free_process and kill the process.
Stop(p) ==
  /\ pc[p] = "selecting" /\ told[p]
  /\ pc' = [pc EXCEPT ![p] = "ended"]
  /\ UNCHANGED <<backlog, files, sock_list, max_fd, ready, told>>

-----------------------------------------------------------------------------
\* The listeners, one after the other.

\* The next listener that select has reported.
AtListener(p, l) ==
  /\ pc[p] = "handling" /\ l \in ready[p] \cap Listener
  /\ \A m \in ready[p] \cap Listener : l <= m

\* accept fails: another process took the connection, or no descriptor is left.
AcceptFails(p, l) ==
  /\ AtListener(p, l)
  /\ backlog[l] = <<>> \/ Exhausted(p)
  /\ ready' = [ready EXCEPT ![p] = @ \ {l}]
  /\ UNCHANGED <<backlog, files, sock_list, max_fd, pc, told>>

Take(p, l) ==
  /\ AtListener(p, l)
  /\ backlog[l] # <<>> /\ ~ Exhausted(p)
  /\ backlog' = [backlog EXCEPT ![l] = Tail(@)]
  /\ files' = [files EXCEPT ![p] = Append(@, Head(backlog[l]))]
  /\ ready' = [ready EXCEPT ![p] = @ \ {l}]
  /\ UNCHANGED <<pc, told>>

\* fcntl fails: "continue" leaves the new socket open and out of the list.
AcceptLeaks(p, l) ==
  /\ FALSE \in FlagsResult
  /\ Take(p, l)
  /\ UNCHANGED <<sock_list, max_fd>>

\* The new client becomes the first of the list.
Admit(s, fd) == <<[fd |-> fd, state |-> "open"]>> \o s

\* Mutant of Covering: max_fd is not kept up to date.
CoveringOld(fd, max) == max
Covering(fd, max) == IF max < fd THEN fd ELSE max

Accept(p, l) ==
  /\ TRUE \in FlagsResult
  /\ Take(p, l)
  /\ sock_list' = [sock_list EXCEPT ![p] = Admit(@, NextFd(p))]
  /\ max_fd' = [max_fd EXCEPT ![p] = Covering(NextFd(p), @)]

-----------------------------------------------------------------------------
\* The handlers leave each client that is ready open or closed; a client that
\* was accepted in this turn is in no set and waits for the next one.
Serve(p) ==
  /\ pc[p] = "handling" /\ ready[p] \cap Listener = {}
  /\ \E closing \in SUBSET ready[p] :
       sock_list' = [sock_list EXCEPT ![p] =
                      [i \in DOMAIN @ |-> IF @[i].fd \in closing
                                          THEN [@[i] EXCEPT !.state = "closed"]
                                          ELSE @[i]]]
  /\ ready' = [ready EXCEPT ![p] = {}]
  /\ pc' = [pc EXCEPT ![p] = "cleaning"]
  /\ UNCHANGED <<backlog, files, max_fd, told>>

LoopStep(p) ==
  \/ Clean(p) \/ Select(p) \/ Timeout(p) \/ Stop(p) \/ Serve(p)
  \/ \E l \in Listener : AcceptFails(p, l) \/ AcceptLeaks(p, l) \/ Accept(p, l)

Next ==
  \/ \E c \in Connection, l \in Listener : Arrive(c, l)
  \/ \E p \in Process : Tell(p) \/ LoopStep(p)

Spec == Init /\ [][Next]_vars

\* Every process is scheduled; no client has to do anything.  The log messages of
\* a turn are taken to be sent: a process that waits for room in the queue of a
\* logger that has gone, after a SIGINT, is in ServerShutdown.
FairSpec == Spec /\ \A p \in Process : WF_vars(LoopStep(p))

-----------------------------------------------------------------------------
\* select is told of every descriptor in its sets (smtp.c:98): the first
\* argument covers the queue, the listeners and every client of the list,
\* whoever came and went before.
MaxFdCovers ==
  \A p \in Process : pc[p] = "selecting" =>
    \A fd \in Inherited \cup Fds(sock_list[p]) : fd <= max_fd[p]

\* The connections whose descriptors are in the list of a process.
Clients(p, state) ==
  {files[p][e.fd - FirstFd + 1] :
     e \in {e \in Elements(sock_list[p]) : e.state = state}}

place == [c \in Connection |->
  CASE \E l \in Listener : c \in Elements(backlog[l]) -> "waiting"
    [] \E p \in Process : pc[p] # "ended" /\ c \in Clients(p, "open") ->
         CHOOSE p \in Process : pc[p] # "ended" /\ c \in Clients(p, "open")
    [] \E p \in Process : pc[p] # "ended" /\ c \in Clients(p, "closed") -> "closed"
    [] ~ Seen(c) -> "away"
    [] OTHER -> "over"]

Promise == INSTANCE Dispatch

\* The processes that share the listeners keep the promise of Dispatch: a
\* connection is taken once, by one process, which alone serves it until its
\* session is closed; no failure of accept or fcntl, no timeout and no removal
\* from the list disturbs another connection.
ImplementsDispatch == Promise!Spec

\* No connection waits for ever, unless every process has stopped or has used
\* up its descriptors: neither its clients, nor failing accepts, nor the
\* connections at the other listener keep a process from it (smtp.c:134-189).
NobodyWaits ==
  Pending # {} ~>
    Pending = {} \/ \A p \in Process : pc[p] = "ended" \/ Exhausted(p)
=============================================================================
