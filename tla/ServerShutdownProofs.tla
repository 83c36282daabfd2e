------------------------ MODULE ServerShutdownProofs ------------------------
(***************************************************************************)
(* Theorems about ServerShutdown: types and queue limits, and that the     *)
(* parent outlives its children.                                           *)
(***************************************************************************)
EXTENDS ServerShutdown, FiniteSetTheorems, TLAPS

-----------------------------------------------------------------------------
\* The steps of a child and of the parent, as far as types are concerned.

Labels == [Actor -> {"unborn", "running", "stuck", "caught", "early", "waiting"}
                    \cup Unprotected \cup Gone]

\* A pc that moves within its type keeps it.
LEMMA PcMoves ==
  ASSUME TypeOK, NEW a \in Actor,
         NEW label \in {"unborn", "running", "stuck", "caught", "early",
                        "waiting"} \cup Unprotected \cup Gone
  PROVE  [pc EXCEPT ![a] = label] \in Labels
BY DEF TypeOK, Labels

\* A queue takes a message if it is not full.
LEMMA QueueTakes ==
  ASSUME TypeOK, NEW c \in Child, ~ Full(c), NEW msg \in {"text", "#"}
  PROVE  /\ [queue EXCEPT ![c] = Append(@, msg)] \in [Child -> Seq({"text", "#"})]
         /\ \A d \in Child : Len([queue EXCEPT ![c] = Append(@, msg)][d]) <= MaxMsg
<1> DEFINE after == [queue EXCEPT ![c] = Append(@, msg)]
<1>1. queue[c] \in Seq({"text", "#"}) /\ Len(queue[c]) <= MaxMsg
  BY DEF TypeOK
<1>2. Append(queue[c], msg) \in Seq({"text", "#"})
  BY <1>1
<1>3. Len(Append(queue[c], msg)) <= MaxMsg
  BY <1>1, ShutdownAssumption DEF Full
<1>4. \A d \in Child : after[d] = IF d = c THEN Append(queue[c], msg) ELSE queue[d]
  BY DEF TypeOK
<1> QED
  BY <1>2, <1>3, <1>4 DEF TypeOK

\* A queue gives its first message.
LEMMA QueueGives ==
  ASSUME TypeOK, NEW c \in Child, queue[c] # <<>>
  PROVE  /\ [queue EXCEPT ![c] = Tail(@)] \in [Child -> Seq({"text", "#"})]
         /\ \A d \in Child : Len([queue EXCEPT ![c] = Tail(@)][d]) <= MaxMsg
<1> DEFINE after == [queue EXCEPT ![c] = Tail(@)]
<1>1. queue[c] \in Seq({"text", "#"}) /\ Len(queue[c]) <= MaxMsg
  BY DEF TypeOK
<1>2. Tail(queue[c]) \in Seq({"text", "#"}) /\ Len(Tail(queue[c])) = Len(queue[c]) - 1
  BY <1>1
<1>3. Len(Tail(queue[c])) <= MaxMsg
  BY <1>1, <1>2, ShutdownAssumption
<1>4. \A d \in Child : after[d] = IF d = c THEN Tail(queue[c]) ELSE queue[d]
  BY DEF TypeOK
<1> QED
  BY <1>2, <1>3, <1>4 DEF TypeOK

\* The loss of a message that was owed leaves a number.
LEMMA LossType ==
  ASSUME TypeOK, NEW a \in Actor, MayLose(a)
  PROVE  owed' \in [Sender -> Nat]
BY DEF TypeOK, MayLose

LEMMA Places ==
  /\ Parent \in Actor /\ Logger \in Actor /\ Logger \in Child /\ Parent \in Sender
  /\ \A c \in Child : c \in Actor
  /\ \A p \in Process : p \in Child /\ p \in Actor /\ p \in Sender
BY DEF Child, Actor, Sender

\* Every step keeps the types.
LEMMA TypeStep == TypeOK /\ [Next]_vars => TypeOK'
<1> SUFFICES ASSUME TypeOK, [Next]_vars PROVE TypeOK'
  OBVIOUS
<1> USE Places
<1>1. ASSUME NEW c \in Child, Fork(c) PROVE TypeOK'
  BY <1>1, PcMoves DEF Fork, MayFork, TypeOK, Labels, Unprotected
<1>2. ASSUME NEW c \in Child, ForkFails(c) PROVE TypeOK'
  <2>1. pc' \in Labels
    BY <1>2 DEF ForkFails, TypeOK, Labels, Gone
  <2> QED
    BY <1>2, <2>1 DEF ForkFails, TypeOK, Labels
<1>3. CASE CatchSignals \/ StartRun \/ SkipRun \/ Turn \/ Waits
  <2>1. CASE CatchSignals
    BY <2>1, PcMoves DEF CatchSignals, TypeOK, Labels
  <2>2. CASE StartRun
    BY <2>2, PcMoves DEF StartRun, TypeOK, Labels
  <2>3. CASE SkipRun
    BY <2>3, PcMoves DEF SkipRun, TypeOK, Labels, Gone
  <2>4. CASE Turn
    <3>1. owed' \in [Sender -> Nat]
      BY <2>4 DEF Turn, TypeOK
    <3>2. pc' \in Labels
      <4>1. pc \in Labels
        BY DEF TypeOK, Labels
      <4>2. [pc EXCEPT ![Parent] = "ended"] \in Labels
        BY PcMoves DEF Gone
      <4> QED
        BY <2>4, <4>1, <4>2 DEF Turn
    <3> QED
      BY <2>4, <3>1, <3>2 DEF Turn, TypeOK, Labels
  <2>5. CASE Waits
    BY <2>5, PcMoves DEF Waits, TypeOK, Labels
  <2> QED
    BY <1>3, <2>1, <2>2, <2>3, <2>4, <2>5
<1>4. CASE LoggerStep
  <2>1. CASE CreateQueue
    BY <2>1, PcMoves DEF CreateQueue, TypeOK, Labels, Unprotected
  <2>2. CASE StartLogger
    BY <2>2, PcMoves DEF StartLogger, TypeOK, Labels
  <2>3. CASE ReceiveLog
    <3>1. /\ queue' \in [Child -> Seq({"text", "#"})]
          /\ \A d \in Child : Len(queue'[d]) <= MaxMsg
      BY <2>3, QueueGives DEF ReceiveLog
    <3>2. pc' \in Labels
      BY <2>3, PcMoves DEF ReceiveLog, Gone
    <3> QED
      BY <2>3, <3>1, <3>2 DEF ReceiveLog, TypeOK, Labels
  <2> QED
    BY <1>4, <2>1, <2>2, <2>3 DEF LoggerStep
<1>5. ASSUME NEW p \in Process, ProcessStep(p) PROVE TypeOK'
  <2>1. CASE OpenQueues(p)
    <3>1. extra' \in [Sender -> BOOLEAN]
      BY <2>1 DEF OpenQueues, TypeOK, MayOpen
    <3> QED
      BY <2>1, <3>1, PcMoves DEF OpenQueues, TypeOK, Labels, Unprotected
  <2>2. CASE StartProcess(p)
    BY <2>2, PcMoves, ShutdownAssumption DEF StartProcess, TypeOK, Labels
  <2>3. CASE Select(p)
    <3>1. CASE queue[p] # <<>>
      <4>1. /\ queue' \in [Child -> Seq({"text", "#"})]
            /\ \A d \in Child : Len(queue'[d]) <= MaxMsg
        BY <2>3, <3>1, QueueGives DEF Select
      <4>2. pc' \in Labels
        BY <2>3, <3>1, PcMoves DEF Select, Gone
      <4> QED
        BY <2>3, <3>1, <4>1, <4>2 DEF Select, TypeOK, Labels
    <3>2. CASE queue[p] = <<>>
      BY <2>3, <3>2, ShutdownAssumption DEF Select, TypeOK
    <3> QED
      BY <3>1, <3>2
  <2> QED
    BY <1>5, <2>1, <2>2, <2>3 DEF ProcessStep
<1>6. ASSUME NEW a \in Sender, Log(a) PROVE TypeOK'
  <2>1. owed' \in [Sender -> Nat]
    BY <1>6 DEF Log, TypeOK
  <2>2. queue' \in [Child -> Seq({"text", "#"})] /\ \A d \in Child : Len(queue'[d]) <= MaxMsg
    <3>1. CASE extra[a]
      BY <1>6, <3>1, QueueTakes DEF Log
    <3>2. CASE ~ extra[a]
      BY <1>6, <3>2 DEF Log, TypeOK
    <3> QED
      BY <3>1, <3>2
  <2> QED
    BY <1>6, <2>1, <2>2 DEF Log, TypeOK
<1>7. ASSUME NEW a \in Actor, Deliver(a) PROVE TypeOK'
  <2>1. pending' \in [Actor -> BOOLEAN] /\ interrupts' = interrupts
    BY <1>7 DEF Deliver, TypeOK
  <2>2. CASE Killed(a)
    BY <2>1, <2>2, PcMoves DEF Killed, TypeOK, Labels, Gone
  <2>3. CASE a \in Child /\ HandleInChild(a)
    <3>1. owed' \in [Sender -> Nat]
      BY <2>3, LossType DEF HandleInChild
    <3>2. CASE Full(a)
      BY <2>1, <2>3, <3>1, <3>2, PcMoves DEF HandleInChild, TypeOK, Labels
    <3>3. CASE ~ Full(a)
      <4>1. /\ queue' \in [Child -> Seq({"text", "#"})]
            /\ \A d \in Child : Len(queue'[d]) <= MaxMsg
        <5>1. queue' = [queue EXCEPT ![a] = Append(@, "#")]
          BY <2>3, <3>3 DEF HandleInChild
        <5> QED
          BY <2>3, <3>3, <5>1, QueueTakes
      <4>2. /\ pc' = pc /\ serv_state' = serv_state /\ extra' = extra
            /\ interrupts' = interrupts
        BY <2>1, <2>3, <3>3 DEF HandleInChild
      <4> QED
        BY <2>1, <3>1, <4>1, <4>2 DEF TypeOK
    <3> QED
      BY <3>2, <3>3
  <2>4. CASE a = Parent /\ HandleInParent
    <3>1. owed' \in [Sender -> Nat]
      BY <2>4, LossType DEF HandleInParent
    <3> QED
      BY <2>1, <2>4, <3>1, PcMoves DEF HandleInParent, TypeOK, Labels
  <2> QED
    BY <1>7, <2>2, <2>3, <2>4 DEF Deliver
<1>8. CASE Interrupt
  <2>1. pending' \in [Actor -> BOOLEAN]
    BY <1>8 DEF Interrupt
  <2>2. interrupts' \in 0 .. MaxInterrupts
    BY <1>8, ShutdownAssumption DEF Interrupt, TypeOK
  <2> QED
    BY <1>8, <2>1, <2>2 DEF Interrupt, TypeOK
<1>9. CASE UNCHANGED vars
  BY <1>9 DEF vars, TypeOK
<1> QED
  BY <1>1, <1>2, <1>3, <1>4, <1>5, <1>6, <1>7, <1>8, <1>9 DEF Next, ParentStep

\* The initial state.
LEMMA TypeInit == Init => TypeOK
<1> SUFFICES ASSUME Init PROVE TypeOK
  OBVIOUS
<1>1. pc \in [Actor -> {"unborn", "running", "stuck", "caught", "early",
                        "waiting"} \cup Unprotected \cup Gone]
  BY DEF Init, Unprotected
<1>2. \A c \in Child : queue[c] = <<>> /\ Len(queue[c]) = 0
  BY DEF Init
<1>3. queue \in [Child -> Seq({"text", "#"})] /\ \A c \in Child : Len(queue[c]) <= MaxMsg
  BY <1>2, ShutdownAssumption DEF Init
<1>4. /\ serv_state \in {"INIT", "START_WORK", "FINISH_WORK"}
      /\ extra \in [Sender -> BOOLEAN] /\ owed \in [Sender -> Nat]
      /\ pending \in [Actor -> BOOLEAN] /\ interrupts \in 0 .. MaxInterrupts
  BY ShutdownAssumption DEF Init
<1> QED
  BY <1>1, <1>3, <1>4 DEF TypeOK

\* All variables of the server's processes keep their types, and no queue ever
\* holds more than MaxMsg messages, whoever sends and however often SIGINT comes.
THEOREM TypeOKHolds == Spec => []TypeOK
BY TypeInit, TypeStep, PTL DEF Spec

-----------------------------------------------------------------------------
\* The waits of the parent's handler have returned as often as it has children,
\* so every child is gone.
LEMMA WaitedForAll == Waited => \A c \in Child : pc[c] \in Gone
<1> SUFFICES ASSUME Waited PROVE \A c \in Child : pc[c] \in Gone
  OBVIOUS
<1> DEFINE gone == {c \in Child : pc[c] \in Gone}
<1>1. IsFiniteSet(Child) /\ Cardinality(Child) = Cardinality(Process) + 1
  BY FS_AddElement, ShutdownAssumption DEF Child
<1>2. /\ Cardinality(gone) <= Cardinality(Child)
      /\ Cardinality(Child) = Cardinality(gone) => Child = gone
      /\ IsFiniteSet(gone)
  BY <1>1, FS_Subset
<1>3. /\ Cardinality(gone) \in Nat /\ Cardinality(Child) \in Nat
      /\ Cardinality(Process) \in Nat
  BY <1>1, <1>2, FS_CardinalityType, ShutdownAssumption
<1>4. Cardinality(gone) >= Cardinality(Process) + 1
  BY DEF Waited
<1> QED
  BY <1>1, <1>2, <1>3, <1>4

\* The parent finishes only when its children are gone, and ends only when it
\* has finished.
OutliveInv ==
  /\ serv_state = "FINISH_WORK" => \A c \in Child : pc[c] \in Gone
  /\ pc[Parent] = "ended" => serv_state = "FINISH_WORK"

\* A child that is gone stays so, and no step but those of the parent and the
\* delivery of a signal touches the parent.
GoneStays == \A c \in Child : pc[c] \in Gone => pc'[c] \in Gone
ParentRests == pc'[Parent] = pc[Parent] /\ serv_state' = serv_state

LEMMA OutliveStep == TypeOK /\ OutliveInv /\ [Next]_vars => OutliveInv'
<1> SUFFICES ASSUME TypeOK, OutliveInv, [Next]_vars PROVE OutliveInv'
  OBVIOUS
<1> USE Places
<1>0. Parent \notin Child /\ Parent \notin Process
  BY ShutdownAssumption DEF Child
<1>a. ASSUME GoneStays, ParentRests PROVE OutliveInv'
  BY <1>a DEF OutliveInv, GoneStays, ParentRests
<1>b. ASSUME NEW c \in Child, NEW label, pc[c] \notin Gone,
             pc' = [pc EXCEPT ![c] = label], serv_state' = serv_state
      PROVE  OutliveInv'
  <2>1. GoneStays /\ ParentRests
    BY <1>b, <1>0 DEF GoneStays, ParentRests, TypeOK
  <2> QED
    BY <1>a, <2>1
<1>1. ASSUME NEW c \in Child, Fork(c) PROVE OutliveInv'
  BY <1>1, <1>b DEF Fork, MayFork, Gone
<1>2. ASSUME NEW c \in Child, ForkFails(c) PROVE OutliveInv'
  <2>1. CASE c = Logger
    BY <1>2, <2>1, <1>b DEF ForkFails, MayFork, Gone
  <2>2. CASE c # Logger
    <3>1. pc' = [a \in Actor |-> IF a = Parent \/ pc[a] = "unborn"
                                 THEN "failed" ELSE pc[a]]
      BY <1>2, <2>2 DEF ForkFails
    <3>2. GoneStays
      BY <3>1 DEF GoneStays, Gone
    <3>3. pc'[Parent] = "failed" /\ serv_state' = serv_state
      BY <1>2, <3>1 DEF ForkFails
    <3> QED
      BY <3>2, <3>3 DEF OutliveInv, GoneStays
  <2> QED
    BY <2>1, <2>2
<1>3. CASE CatchSignals \/ StartRun \/ SkipRun \/ Turn \/ Waits
  <2>1. GoneStays
    BY <1>0, <1>3 DEF GoneStays, CatchSignals, StartRun, SkipRun, Turn, Waits, TypeOK
  <2>2. CASE CatchSignals
    BY <2>1, <2>2 DEF CatchSignals, OutliveInv, GoneStays, TypeOK
  <2>3. CASE StartRun
    BY <2>3 DEF StartRun, OutliveInv, TypeOK
  <2>4. CASE SkipRun
    BY <2>1, <2>4 DEF SkipRun, OutliveInv, GoneStays, TypeOK
  <2>5. CASE Turn
    BY <2>1, <2>5 DEF Turn, OutliveInv, GoneStays, TypeOK
  <2>6. CASE Waits
    <3>1. \A c \in Child : pc'[c] \in Gone
      BY <2>1, <2>6, WaitedForAll DEF Waits, GoneStays
    <3> QED
      BY <2>6, <3>1 DEF Waits, OutliveInv
  <2> QED
    BY <1>3, <2>2, <2>3, <2>4, <2>5, <2>6
<1>4. CASE LoggerStep
  BY <1>4, <1>b DEF LoggerStep, CreateQueue, StartLogger, ReceiveLog, Gone
<1>5. ASSUME NEW p \in Process, ProcessStep(p) PROVE OutliveInv'
  <2>1. CASE OpenQueues(p) \/ StartProcess(p)
    BY <2>1, <1>b DEF OpenQueues, StartProcess, Gone
  <2>2. CASE Select(p)
    BY <2>2, <1>a, <1>b DEF Select, Gone, GoneStays, ParentRests
  <2> QED
    BY <1>5, <2>1, <2>2 DEF ProcessStep
<1>6. ASSUME NEW a \in Sender, Log(a) PROVE OutliveInv'
  BY <1>6, <1>a DEF Log, GoneStays, ParentRests
<1>7. ASSUME NEW a \in Actor, Deliver(a) PROVE OutliveInv'
  <2>1. CASE a \in Child
    <3>1. ~ HandleInParent \/ a # Parent
      BY <2>1, <1>0
    <3>2. CASE Killed(a)
      BY <2>1, <3>2, <1>b DEF Killed, Unprotected, Gone
    <3>3. CASE HandleInChild(a)
      BY <2>1, <3>3, <1>a, <1>b DEF HandleInChild, Gone, GoneStays, ParentRests
    <3> QED
      BY <1>7, <2>1, <3>2, <3>3, <1>0 DEF Deliver
  <2>2. CASE a = Parent
    <3>1. GoneStays /\ pc'[Parent] # "ended" /\ serv_state' = serv_state
      BY <1>7, <2>2, <1>0 DEF Deliver, Killed, HandleInParent, GoneStays, TypeOK
    <3> QED
      BY <3>1 DEF OutliveInv, GoneStays
  <2> QED
    BY <2>1, <2>2 DEF Actor
<1>8. CASE Interrupt \/ UNCHANGED vars
  BY <1>8, <1>a DEF Interrupt, vars, GoneStays, ParentRests
<1> QED
  BY <1>1, <1>2, <1>3, <1>4, <1>5, <1>6, <1>7, <1>8 DEF Next, ParentStep

\* The server ends after its children, for any number of processes and of
\* SIGINTs: the children that the handler waited for are all of them.
THEOREM ParentOutlivesHolds == Spec => []ParentOutlives
<1>1. Init => OutliveInv
  BY Places DEF Init, OutliveInv
<1>2. OutliveInv => ParentOutlives
  BY DEF OutliveInv, ParentOutlives
<1> QED
  BY <1>1, <1>2, OutliveStep, TypeOKHolds, PTL DEF Spec
=============================================================================
