----------------------------- MODULE TaskProofs -----------------------------
(***************************************************************************)
(* Theorems about the letters that WorkerConnection has a task for: no     *)
(* letter has two, no handler forgets one, and they obey LetterQueue.      *)
(***************************************************************************)
EXTENDS WorkerConnectionProofs, SequenceTheorems

-----------------------------------------------------------------------------
\* Lists of letters.

Distinct(list) ==
  \A i, j \in 1 .. Len(list) : list[i] = list[j] => i = j

Disjoint(list, other) ==
  \A i \in 1 .. Len(list), j \in 1 .. Len(other) : list[i] # other[j]

\* Every letter of the list is in "tmp".
InTmp(list) == \A i \in 1 .. Len(list) : place[list[i]] = "tmp"

\* The letters of a list are letters.
LEMMA ElementType ==
  ASSUME NEW list \in Seq(Letter), NEW i \in 1 .. Len(list)
  PROVE  list[i] \in Letter
OBVIOUS

\* What Tail keeps of a list without duplicates: everything but the head.
LEMMA TailOfDistinct ==
  ASSUME NEW list \in Seq(Letter), list # <<>>, Distinct(list)
  PROVE  /\ Distinct(Tail(list))
         /\ \A i \in 1 .. Len(Tail(list)) :
              /\ i + 1 \in 1 .. Len(list)
              /\ Tail(list)[i] = list[i + 1]
              /\ Tail(list)[i] # Head(list)
BY DEF Distinct

\* A new letter at the end of a list without duplicates.
LEMMA AppendDistinct ==
  ASSUME NEW list \in Seq(Letter), NEW l \in Letter, Distinct(list),
         \A i \in 1 .. Len(list) : list[i] # l
  PROVE  Distinct(Append(list, l))
<1>1. /\ Len(Append(list, l)) = Len(list) + 1 /\ Len(list) \in Nat
      /\ \A i \in 1 .. Len(list) : Append(list, l)[i] = list[i]
      /\ Append(list, l)[Len(list) + 1] = l
  OBVIOUS
<1>2. \A i \in 1 .. Len(list) + 1 : i \in 1 .. Len(list) \/ i = Len(list) + 1
  BY <1>1
<1> QED
  BY <1>1, <1>2 DEF Distinct

\* An element of a concatenation is one of the first list or of the second.
LEMMA ConcatElement ==
  ASSUME NEW list \in Seq(Letter), NEW more \in Seq(Letter)
  PROVE  /\ Len(list) \in Nat /\ Len(more) \in Nat
         /\ DOMAIN (list \o more) = 1 .. Len(list \o more)
         /\ \A i \in 1 .. Len(list \o more) :
              \/ i \in 1 .. Len(list) /\ (list \o more)[i] = list[i]
              \/ /\ i - Len(list) \in 1 .. Len(more) /\ i \in Int
                 /\ (list \o more)[i] = more[i - Len(list)]
OBVIOUS

\* Two disjoint lists without duplicates, one after the other.
LEMMA ConcatDistinct ==
  ASSUME NEW list \in Seq(Letter), NEW more \in Seq(Letter),
         Distinct(list), Distinct(more), Disjoint(list, more)
  PROVE  Distinct(list \o more)
<1> DEFINE both == list \o more
<1>1. SUFFICES ASSUME NEW i \in 1 .. Len(both), NEW j \in 1 .. Len(both),
                      both[i] = both[j]
               PROVE  i = j
  BY DEF Distinct
<1> HIDE DEF both
<1>2. /\ Len(list) \in Nat
      /\ \A k \in 1 .. Len(both) :
           \/ k \in 1 .. Len(list) /\ both[k] = list[k]
           \/ /\ k - Len(list) \in 1 .. Len(more) /\ k \in Int
              /\ both[k] = more[k - Len(list)]
  BY ConcatElement DEF both
<1>3. CASE i \in 1 .. Len(list) /\ both[i] = list[i]
  <2>1. j \in 1 .. Len(list) /\ both[j] = list[j]
    BY <1>1, <1>2, <1>3 DEF Disjoint
  <2> QED
    BY <1>1, <1>3, <2>1 DEF Distinct
<1>4. CASE /\ i - Len(list) \in 1 .. Len(more) /\ i \in Int
           /\ both[i] = more[i - Len(list)]
  <2>1. /\ j - Len(list) \in 1 .. Len(more) /\ j \in Int
        /\ both[j] = more[j - Len(list)]
    BY <1>1, <1>2, <1>4 DEF Disjoint
  <2>2. i - Len(list) = j - Len(list)
    BY <1>1, <1>4, <2>1 DEF Distinct
  <2> QED
    BY <1>2, <1>4, <2>1, <2>2
<1> QED
  BY <1>2, <1>3, <1>4

\* What MoveLetter does to the folder of one letter.
LEMMA MovedOne ==
  ASSUME NEW letters, NEW folder, NEW l \in Letter
  PROVE  Moved(letters, folder)[l] = IF l \in letters THEN folder ELSE place[l]
BY DEF Moved

-----------------------------------------------------------------------------
\* OneTaskPerLetter, list by list.  Only a socket of the list of run has
\* letters, which is why processingTasks may overwrite the list of a new one.
TaskInv ==
  /\ Distinct(task_pool) /\ Distinct(tasks) /\ Disjoint(task_pool, tasks)
  /\ InTmp(task_pool) /\ InTmp(tasks)
  /\ inhand \in Letter => place[inhand] = "new"
  /\ ~Live /\ pc # "crashed" => task_pool = <<>>

\* What a handler may do to the letters: nothing, move the head away, or give
\* all of them back.
HeadLeaves(folder) ==
  /\ task_pool # <<>>
  /\ task_pool' = Tail(task_pool)
  /\ place' = Moved({Head(task_pool)}, folder)

AllReturn ==
  /\ task_pool' = <<>>
  /\ place' = Moved(Listed(task_pool), "new")

\* No handler does anything else to the letters.
LEMMA HandlersEffect ==
  ASSUME SMTP_Control
  PROVE  \/ UNCHANGED <<task_pool, place>>
         \/ HeadLeaves("current") \/ HeadLeaves("new")
         \/ AllReturn
<1> USE DEF dataVars, letterVars
<1>1. CASE handleResponseOfLetter
  BY <1>1 DEF handleResponseOfLetter, HeadLeaves
<1>2. CASE handleSmtpError
  BY <1>2 DEF handleSmtpError, GiveBackAll, TryAgain, DropLetter, NoCase,
              HeadLeaves, AllReturn
<1>3. CASE handleSendMailFrom \/ handleResponseOfEHLO
  BY <1>3 DEF handleSendMailFrom, handleResponseOfEHLO
<1>4. CASE handleSendLetter \/ handleDisposing \/ handleResponseOfDATA
  BY <1>4 DEF handleSendLetter, handleDisposing, handleResponseOfDATA
<1> QED
  BY <1>1, <1>2, <1>3, <1>4
  DEF SMTP_Control, handlePrepareSocketConnection, handleGreeting,
      handleSendEHLO, handleResponseOfMailFrom, handleSendRCPTto,
      handleResponseOfRCPTto, handleSendDATA, handleSendQUIT,
      handleResponseOfQUIT, handleSolvableMistake, handleResponseOfRSET,
      UnknownState

\* The letters of the connection and of the worker after the head has left.
LEMMA HeadLeavesStep ==
  ASSUME TypeInv, TaskInv, UNCHANGED <<tasks, inhand>>,
         NEW folder, HeadLeaves(folder)
  PROVE  /\ Distinct(task_pool)' /\ Distinct(tasks)'
         /\ Disjoint(task_pool, tasks)' /\ InTmp(task_pool)' /\ InTmp(tasks)'
         /\ (inhand \in Letter => place[inhand] = "new")'
<1>1. /\ task_pool \in Seq(Letter) /\ task_pool # <<>> /\ tasks \in Seq(Letter)
      /\ Head(task_pool) \in Letter /\ Head(task_pool) = task_pool[1]
      /\ 1 \in 1 .. Len(task_pool)
  BY DEF TypeInv, TypeOK, HeadLeaves
<1>2. \A l \in Letter : l # Head(task_pool) => place'[l] = place[l]
  BY MovedOne DEF HeadLeaves
<1>3. place[Head(task_pool)] = "tmp"
  BY <1>1 DEF TaskInv, InTmp
<1>4. Distinct(task_pool)' /\ InTmp(task_pool)' /\ Disjoint(task_pool, tasks)'
  <2>1. /\ Distinct(task_pool')
        /\ \A i \in 1 .. Len(task_pool') :
             /\ i + 1 \in 1 .. Len(task_pool)
             /\ task_pool'[i] = task_pool[i + 1]
             /\ task_pool'[i] # Head(task_pool)
    BY <1>1, TailOfDistinct DEF TaskInv, HeadLeaves
  <2>2. InTmp(task_pool)'
    BY <1>1, <1>2, <2>1, ElementType DEF TaskInv, InTmp
  <2>3. Disjoint(task_pool, tasks)'
    BY <2>1 DEF TaskInv, Disjoint
  <2> QED
    BY <2>1, <2>2, <2>3 DEF Distinct
<1>5. InTmp(tasks)'
  BY <1>1, <1>2, ElementType DEF TaskInv, InTmp, Disjoint
<1>6. (inhand \in Letter => place[inhand] = "new")'
  BY <1>2, <1>3 DEF TaskInv
<1> QED
  BY <1>4, <1>5, <1>6 DEF TaskInv, Distinct

\* The same after some letters have been given back: the others are unmoved.
LEMMA ReturnStep ==
  ASSUME TypeInv, TaskInv, UNCHANGED <<tasks, inhand>>,
         \/ task_pool' = task_pool \/ task_pool' = <<>>
         \/ task_pool # <<>> /\ task_pool' = <<Head(task_pool)>>,
         \/ place' = place
         \/ place' = Moved(Listed(task_pool) \ Listed(task_pool'), "new")
  PROVE  /\ Distinct(task_pool)' /\ Distinct(tasks)'
         /\ Disjoint(task_pool, tasks)' /\ InTmp(task_pool)' /\ InTmp(tasks)'
         /\ (inhand \in Letter => place[inhand] = "new")'
<1>1. /\ task_pool \in Seq(Letter) /\ tasks \in Seq(Letter)
      /\ task_pool' \in Seq(Letter)
  BY EmptyType, OneType, TailType DEF TypeInv, TypeOK
<1>2. /\ Len(task_pool') <= Len(task_pool)
      /\ \A i \in 1 .. Len(task_pool') : task_pool'[i] = task_pool[i]
  BY <1>1
<1>3. \A l \in Letter : \/ place'[l] = place[l]
                        \/ /\ place'[l] = "new"
                           /\ l \in Listed(task_pool) /\ l \notin Listed(task_pool')
  BY MovedOne
<1>4. \A i \in 1 .. Len(task_pool') : task_pool'[i] \in Listed(task_pool')
  BY <1>1 DEF Listed
<1>5. \A i \in 1 .. Len(tasks) : tasks[i] \notin Listed(task_pool)
  BY <1>1 DEF Listed, TaskInv, Disjoint
<1>6. Distinct(task_pool)' /\ Disjoint(task_pool, tasks)'
  BY <1>1, <1>2 DEF TaskInv, Distinct, Disjoint
<1>7. InTmp(task_pool)'
  BY <1>1, <1>2, <1>3, <1>4, ElementType DEF TaskInv, InTmp
<1>8. InTmp(tasks)'
  BY <1>1, <1>3, <1>5, ElementType DEF TaskInv, InTmp
<1>9. (inhand \in Letter => place[inhand] = "new")'
  BY <1>3 DEF TaskInv
<1> QED
  BY <1>6, <1>7, <1>8, <1>9 DEF TaskInv, Distinct

\* The steps of the two threads keep the lists disjoint and their letters in
\* "tmp".
LEMMA TaskStep ==
  ASSUME TypeInv, TaskInv, [Next]_vars
  PROVE  TaskInv'
<1>1. /\ task_pool \in Seq(Letter) /\ tasks \in Seq(Letter)
      /\ place \in [Letter -> {"new", "tmp", "current"}]
      /\ inhand \in Letter \cup {NoLetter}
  BY DEF TypeInv, TypeOK
<1>2. CASE UNCHANGED <<task_pool, tasks, place, inhand, pc>>
  BY <1>2 DEF TaskInv, Distinct, Disjoint, InTmp, Live
<1>3. ASSUME NEW l \in Letter, FindLetter(l)
      PROVE  TaskInv'
  BY <1>3
  DEF FindLetter, letterVars, TaskInv, Distinct, Disjoint, InTmp, Live
<1>4. CASE Delegate
  <2>1. inhand \in Letter /\ place[inhand] = "new"
    BY <1>1, <1>4 DEF Delegate, TaskInv
  <2>2. /\ \A i \in 1 .. Len(task_pool) : task_pool[i] # inhand
        /\ \A i \in 1 .. Len(tasks) : tasks[i] # inhand
    BY <2>1 DEF TaskInv, InTmp
  <2>3. /\ Len(tasks') = Len(tasks) + 1
        /\ \A i \in 1 .. Len(tasks) : tasks'[i] = tasks[i]
        /\ tasks'[Len(tasks) + 1] = inhand
    BY <1>1, <1>4, <2>1 DEF Delegate
  <2>4. \A l \in Letter : place'[l] = IF l = inhand THEN "tmp" ELSE place[l]
    BY <1>4, MovedOne DEF Delegate
  <2>5. UNCHANGED <<task_pool, pc>> /\ inhand' = NoLetter
    BY <1>4 DEF Delegate
  <2>6. Distinct(tasks)' /\ Disjoint(task_pool, tasks)'
    <3>1. Distinct(tasks')
      BY <1>1, <1>4, <2>1, <2>2, AppendDistinct DEF Delegate, TaskInv
    <3>2. Disjoint(task_pool, tasks)'
      BY <1>1, <2>2, <2>3, <2>5 DEF TaskInv, Disjoint
    <3> QED
      BY <3>1, <3>2 DEF Distinct
  <2>7. InTmp(task_pool)' /\ InTmp(tasks)'
    BY <1>1, <2>1, <2>3, <2>4, <2>5, ElementType DEF TaskInv, InTmp
  <2> QED
    BY <2>5, <2>6, <2>7, NoLetterAssumption DEF TaskInv, Distinct, Live
<1>5. CASE closingConnections
  <2>1. UNCHANGED <<tasks, inhand, pc>>
    BY <1>5 DEF closingConnections
  <2>2. ~Live => task_pool' = task_pool
    BY <1>5 DEF closingConnections, AtSelect, Live
  <2> QED
    BY <1>5, <2>1, <2>2, ClosingEffect, ReturnStep DEF TaskInv, Live
<1>6. CASE AppendTasks
  <2>1. UNCHANGED <<place, inhand, pc>> /\ tasks' = <<>>
    BY <1>6 DEF AppendTasks
  <2>2. \A i \in 1 .. Len(task_pool') :
          \/ i \in 1 .. Len(task_pool) /\ task_pool'[i] = task_pool[i]
          \/ /\ i - Len(task_pool) \in 1 .. Len(tasks)
             /\ task_pool'[i] = tasks[i - Len(task_pool)]
    BY <1>1, <1>6, ConcatElement DEF AppendTasks
  <2>3. Distinct(task_pool')
    BY <1>1, <1>6, ConcatDistinct DEF AppendTasks, TaskInv
  <2>4. InTmp(task_pool)'
    <3>1. /\ \A i \in 1 .. Len(task_pool) : place[task_pool[i]] = "tmp"
          /\ \A i \in 1 .. Len(tasks) : place[tasks[i]] = "tmp"
      BY DEF TaskInv, InTmp
    <3>2. \A i \in 1 .. Len(task_pool') : place[task_pool'[i]] = "tmp"
      BY <2>2, <3>1
    <3> QED
      BY <2>1, <3>2 DEF InTmp
  <2> QED
    BY <1>6, <2>1, <2>3, <2>4 DEF AppendTasks, TaskInv, Distinct, Disjoint, InTmp, Live
<1>7. CASE addNewSocketConnection
  BY <1>7
  DEF addNewSocketConnection, Allocate, workerVars, TaskInv, Distinct, Disjoint,
      InTmp, Live
<1>8. CASE PrepareSocket
  BY <1>8
  DEF PrepareSocket, handlePrepareSocketConnection, letterVars, workerVars,
      TaskInv, Distinct, Disjoint, InTmp, Live
<1>9. CASE TasksToNewSocket
  BY <1>9 DEF TasksToNewSocket, TaskInv, Distinct, Disjoint, InTmp, Live
<1>10. CASE RevertTask
  <2>1. tasks # <<>> /\ Head(tasks) \in Letter /\ Head(tasks) = tasks[1]
    BY <1>1, <1>10 DEF RevertTask, TypeInv, TaskToPrepareFor
  <2>2. task_pool = <<>> /\ task_pool' = <<>>
    BY <1>10 DEF RevertTask, Allocate, TaskInv, Live
  <2>3. UNCHANGED inhand /\ pc' \in {"none", "preparing"} /\ tasks' = Tail(tasks)
    BY <1>10 DEF RevertTask, Allocate
  <2>4. \A l \in Letter : \/ place'[l] = place[l]
                          \/ place'[l] = "new" /\ l = Head(tasks)
    BY <1>10, MovedOne DEF RevertTask
  <2>5. /\ Distinct(tasks')
        /\ \A i \in 1 .. Len(tasks') :
             /\ i + 1 \in 1 .. Len(tasks)
             /\ tasks'[i] = tasks[i + 1]
             /\ tasks'[i] # Head(tasks)
    BY <1>1, <2>1, <2>3, TailOfDistinct DEF TaskInv
  <2>6. InTmp(tasks)'
    BY <1>1, <2>4, <2>5, ElementType DEF TaskInv, InTmp
  <2>7. (inhand \in Letter => place[inhand] = "new")'
    BY <2>3, <2>4 DEF TaskInv
  <2>8. Distinct(task_pool)' /\ Disjoint(task_pool, tasks)' /\ InTmp(task_pool)'
    BY <2>2 DEF Distinct, Disjoint, InTmp
  <2> QED
    BY <2>2, <2>5, <2>6, <2>7, <2>8 DEF TaskInv, Distinct
<1>11. CASE StartServing
  BY <1>11
  DEF StartServing, connVars, dataVars, letterVars, TaskInv, Distinct, Disjoint,
      InTmp, Live
<1>12. CASE Serve
  <2>1. UNCHANGED <<tasks, inhand>> /\ Live /\ (Live' \/ pc' = "crashed")
    BY <1>12 DEF Serve, workerVars, Live
  <2>2. CASE UNCHANGED <<task_pool, place>>
    BY <2>1, <2>2 DEF TaskInv, Distinct, Disjoint, InTmp
  <2>3. CASE HeadLeaves("current") \/ HeadLeaves("new")
    BY <2>1, <2>3, HeadLeavesStep DEF TaskInv
  <2>4. CASE AllReturn
    <3>1. place' = Moved(Listed(task_pool) \ Listed(task_pool'), "new")
      <4>1. Listed(<<>>) = {}
        BY DEF Listed
      <4>2. Listed(task_pool) \ Listed(<<>>) = Listed(task_pool)
        BY <4>1
      <4> QED
        BY <2>4, <4>2 DEF AllReturn
    <3> QED
      BY <2>1, <2>4, <3>1, ReturnStep DEF AllReturn, TaskInv
  <2> QED
    BY <1>12, <2>2, <2>3, <2>4, HandlersEffect DEF Serve
<1>13. CASE Settle
  <2>1. UNCHANGED <<tasks, inhand, place>> /\ Live
    BY <1>13 DEF Settle, Live
  <2>2. \/ task_pool' = <<>>
        \/ task_pool' = task_pool /\ Live'
    BY <1>13 DEF Settle, RemoveSocket, Wait, Live
  <2> QED
    BY <2>1, <2>2 DEF TaskInv, Distinct, Disjoint, InTmp
<1>14. CASE Exit \/ RevertCrash
  BY <1>14
  DEF Exit, RevertCrash, connVars, dataVars, letterVars, workerVars, TaskInv, Distinct,
      Disjoint, InTmp, Live
<1> QED
  BY <1>2, <1>3, <1>4, <1>5, <1>6, <1>7, <1>8, <1>9, <1>10, <1>11, <1>12, <1>13,
     <1>14
  DEF Next, Main, Worker, Dispose, Ended, vars, connVars, dataVars, letterVars,
      workerVars

\* Every session of the worker keeps them so.
LEMMA TaskAlways == Spec => []TaskInv
<1>1. Init => TaskInv
  BY NoLetterAssumption
  DEF Init, Allocated, TaskInv, Distinct, Disjoint, InTmp, Live
<1> QED
  BY <1>1, TaskStep, TypeCorrect, PTL DEF Spec

\* OneTaskPerLetter: no letter is delegated twice or sent by two tasks, for any
\* number of letters.
THEOREM OneTaskPerLetterHolds == Spec => []OneTaskPerLetter
<1>1. TypeInv /\ TaskInv => OneTaskPerLetter
  <2> SUFFICES ASSUME TypeInv, TaskInv
               PROVE  OneTaskPerLetter
    OBVIOUS
  <2>1. task_pool \in Seq(Letter) /\ tasks \in Seq(Letter)
    BY DEF TypeInv, TypeOK
  <2>2. DOMAIN Owned = 1 .. Len(task_pool) + Len(tasks)
    BY <2>1 DEF Owned
  <2>3. \A i \in DOMAIN Owned :
          \/ i \in 1 .. Len(task_pool) /\ Owned[i] = task_pool[i]
          \/ /\ i - Len(task_pool) \in 1 .. Len(tasks)
             /\ Owned[i] = tasks[i - Len(task_pool)]
    BY <2>1 DEF Owned
  <2>4. \A i, j \in DOMAIN Owned : Owned[i] = Owned[j] => i = j
    BY <2>1, <2>2, <2>3 DEF TaskInv, Distinct, Disjoint
  <2>5. \A l \in Listed(Owned) : place[l] = "tmp"
    BY <2>3 DEF TaskInv, InTmp, Listed
  <2> QED
    BY <2>4, <2>5 DEF OneTaskPerLetter, TaskInv
<1> QED
  BY <1>1, TypeCorrect, TaskAlways, PTL

-----------------------------------------------------------------------------
\* Letters that lose their task.

InList(l, list) == \E i \in 1 .. Len(list) : list[i] = l

\* A letter of a concatenation is in one of the two lists.
LEMMA ListedConcat ==
  ASSUME NEW list \in Seq(Letter), NEW more \in Seq(Letter), NEW l
  PROVE  l \in Listed(list \o more) <=> InList(l, list) \/ InList(l, more)
<1> DEFINE both == list \o more
<1>1. DOMAIN both = 1 .. Len(both)
  BY ConcatElement
<1>2. l \in Listed(both) => InList(l, list) \/ InList(l, more)
  BY <1>1, ConcatElement DEF Listed, InList
<1>3. \A i \in 1 .. Len(list) : i \in 1 .. Len(both) /\ both[i] = list[i]
  OBVIOUS
<1>4. \A i \in 1 .. Len(more) : /\ i + Len(list) \in 1 .. Len(both)
                                /\ both[i + Len(list)] = more[i]
  OBVIOUS
<1>5. InList(l, list) \/ InList(l, more) => l \in Listed(both)
  BY <1>1, <1>3, <1>4 DEF Listed, InList
<1> QED
  BY <1>2, <1>5

\* A handler takes the task of a letter only when it moves the letter.
LEMMA HandlersStrandNone ==
  ASSUME TypeInv, SMTP_Control, NEW l \in Letter, InList(l, task_pool),
         ~InList(l, task_pool')
  PROVE  place'[l] # "tmp"
<1>1. task_pool \in Seq(Letter)
  BY DEF TypeInv, TypeOK
<1>2. CASE UNCHANGED <<task_pool, place>>
  BY <1>2
<1>3. ASSUME NEW folder \in {"current", "new"}, HeadLeaves(folder)
      PROVE  place'[l] # "tmp"
  <2>1. /\ Len(task_pool) \in Nat /\ Len(Tail(task_pool)) = Len(task_pool) - 1
        /\ \A i \in 1 .. Len(task_pool) - 1 : Tail(task_pool)[i] = task_pool[i + 1]
        /\ Head(task_pool) = task_pool[1]
    BY <1>1, <1>3 DEF HeadLeaves
  <2>2. PICK i \in 1 .. Len(task_pool) : task_pool[i] = l
    BY DEF InList
  <2>3. i = 1
    <3>1. SUFFICES ASSUME i # 1 PROVE FALSE
      OBVIOUS
    <3>2. i - 1 \in 1 .. Len(task_pool) - 1 /\ (i - 1) + 1 = i
      BY <2>1, <3>1
    <3>3. Tail(task_pool)[i - 1] = l
      BY <2>1, <2>2, <3>2
    <3> QED
      BY <1>3, <2>1, <3>2, <3>3 DEF HeadLeaves, InList
  <2> QED
    BY <1>3, <2>1, <2>2, <2>3, MovedOne DEF HeadLeaves
<1>4. CASE AllReturn
  <2>1. l \in Listed(task_pool)
    BY <1>1 DEF Listed, InList
  <2> QED
    BY <1>4, <2>1, MovedOne DEF AllReturn
<1> QED
  BY <1>2, <1>3, <1>4, HandlersEffect

\* StrandedOnlyOnRemoval: a letter stays in "tmp" without a task only after its
\* connection was removed or could not be opened.
THEOREM StrandedOnlyOnRemovalHolds == Spec => StrandedOnlyOnRemoval
<1>1. ASSUME TypeInv, TypeInv', TaskInv, [Next]_vars, NEW l \in Letter,
             HasTask(l), ~HasTask(l)', place'[l] = "tmp"
      PROVE  \/ pc = "settling" /\ pc' = "none"
             \/ pc = "prepared"
  <2>1. /\ task_pool \in Seq(Letter) /\ tasks \in Seq(Letter)
        /\ task_pool' \in Seq(Letter) /\ tasks' \in Seq(Letter)
    BY <1>1 DEF TypeInv, TypeOK
  <2>2. InList(l, task_pool) \/ InList(l, tasks)
    BY <1>1, <2>1, ListedConcat DEF HasTask, Owned
  <2>3. ~InList(l, task_pool') /\ ~InList(l, tasks')
    <3>1. l \notin Listed(task_pool' \o tasks')
      BY <1>1 DEF HasTask, Owned, Listed
    <3> QED
      BY <2>1, <3>1, ListedConcat
  <2>4. CASE UNCHANGED <<task_pool, tasks>>
    BY <2>2, <2>3, <2>4
  <2>5. CASE Delegate
    <3>1. inhand \in Letter
      BY <1>1, <2>5 DEF Delegate, TypeInv, TypeOK
    <3>2. \A i \in 1 .. Len(tasks) :
            i \in 1 .. Len(tasks') /\ tasks'[i] = tasks[i]
      BY <2>1, <2>5, <3>1 DEF Delegate
    <3>3. InList(l, tasks) => InList(l, tasks')
      BY <3>2 DEF InList
    <3> QED
      BY <2>2, <2>3, <2>5, <3>3 DEF Delegate
  <2>6. CASE closingConnections
    <3>1. tasks' = tasks /\ InList(l, task_pool)
      BY <2>2, <2>3, <2>6 DEF closingConnections
    <3>2. place' = Moved(Listed(task_pool) \ Listed(task_pool'), "new")
      BY <2>3, <2>6, <3>1 DEF closingConnections
    <3>3. l \in Listed(task_pool) /\ l \notin Listed(task_pool')
      BY <2>1, <2>3, <3>1 DEF Listed, InList
    <3> QED
      BY <1>1, <3>2, <3>3, MovedOne
  <2>7. CASE AppendTasks
    <3>1. task_pool' = Owned
      BY <2>7 DEF AppendTasks, Owned
    <3>2. DOMAIN Owned = 1 .. Len(Owned)
      BY <2>1, ConcatElement DEF Owned
    <3> QED
      BY <1>1, <2>3, <3>1, <3>2 DEF HasTask, Listed, InList
  <2>8. CASE addNewSocketConnection
    <3>1. task_pool = <<>> /\ tasks' = tasks
      BY <1>1, <2>8 DEF addNewSocketConnection, workerVars, TaskInv, Live
    <3> QED
      BY <2>2, <2>3, <3>1 DEF InList
  <2>9. CASE Serve
    BY <1>1, <2>2, <2>3, <2>9, HandlersStrandNone DEF Serve, workerVars
  <2>10. CASE Settle
    BY <2>2, <2>3, <2>10 DEF Settle, RemoveSocket, Wait
  <2>11. CASE PrepareSocket
    BY <2>4, <2>11
    DEF PrepareSocket, handlePrepareSocketConnection, letterVars, workerVars
  <2>12. CASE TasksToNewSocket \/ RevertTask
    BY <2>12 DEF TasksToNewSocket, RevertTask
  <2> QED
    BY <1>1, <2>4, <2>5, <2>6, <2>7, <2>8, <2>9, <2>10, <2>11, <2>12
    DEF Next, Main, Worker, FindLetter, Dispose, StartServing, Exit, RevertCrash,
        Ended, vars, connVars, dataVars, letterVars, workerVars
<1>2. TypeInv /\ TypeInv' /\ TaskInv /\ [Next]_vars
        => [\A l \in Letter :
              HasTask(l) /\ ~HasTask(l)' /\ place'[l] = "tmp" =>
                \/ pc = "settling" /\ pc' = "none"
                \/ pc = "prepared"]_vars
  BY <1>1
<1> QED
  BY <1>2, TypeCorrect, TaskAlways, PTL DEF Spec, StrandedOnlyOnRemoval

-----------------------------------------------------------------------------
\* The refinement of LetterQueue.

\* A prefix and a suffix of a list, element by element.
LEMMA Prefix ==
  ASSUME NEW list \in Seq(Letter), NEW n \in 0 .. Len(list)
  PROVE  /\ SubSeq(list, 1, n) \in Seq(Letter) /\ Len(SubSeq(list, 1, n)) = n
         /\ \A i \in 1 .. n : SubSeq(list, 1, n)[i] = list[i]
OBVIOUS

LEMMA Suffix ==
  ASSUME NEW list \in Seq(Letter), NEW n \in 0 .. Len(list)
  PROVE  /\ SubSeq(list, n + 1, Len(list)) \in Seq(Letter)
         /\ Len(SubSeq(list, n + 1, Len(list))) = Len(list) - n
         /\ \A i \in 1 .. Len(list) - n :
              SubSeq(list, n + 1, Len(list))[i] = list[i + n]
OBVIOUS

\* The letters of list behind the first n leave the queue, those of more stay.
LEMMA DropRun ==
  ASSUME NEW list \in Seq(Letter), NEW more \in Seq(Letter),
         NEW n \in 0 .. Len(list)
  PROVE  SubSeq(list \o more, 1, n)
           \o SubSeq(list \o more, Len(list) + 1, Len(list \o more))
         = SubSeq(list, 1, n) \o more
<1> DEFINE both == list \o more
<1>1. /\ both \in Seq(Letter) /\ Len(both) = Len(list) + Len(more)
      /\ \A i \in 1 .. Len(list) : both[i] = list[i]
      /\ \A i \in 1 .. Len(more) : both[i + Len(list)] = more[i]
      /\ Len(list) \in Nat /\ Len(more) \in Nat
  OBVIOUS
<1> HIDE DEF both
<1>2. n \in 0 .. Len(both) /\ Len(list) \in 0 .. Len(both)
  BY <1>1
<1>3. SubSeq(both, 1, n) = SubSeq(list, 1, n)
  <2>1. /\ SubSeq(both, 1, n) \in Seq(Letter) /\ Len(SubSeq(both, 1, n)) = n
        /\ \A i \in 1 .. n : SubSeq(both, 1, n)[i] = both[i]
    BY <1>1, <1>2, Prefix
  <2>2. /\ SubSeq(list, 1, n) \in Seq(Letter) /\ Len(SubSeq(list, 1, n)) = n
        /\ \A i \in 1 .. n : SubSeq(list, 1, n)[i] = list[i]
    BY Prefix
  <2>3. \A i \in 1 .. n : i \in 1 .. Len(list)
    BY <1>1
  <2> QED
    BY <1>1, <2>1, <2>2, <2>3, SeqEqual
<1>4. SubSeq(both, Len(list) + 1, Len(both)) = more
  <2>1. /\ SubSeq(both, Len(list) + 1, Len(both)) \in Seq(Letter)
        /\ Len(SubSeq(both, Len(list) + 1, Len(both))) = Len(both) - Len(list)
        /\ \A i \in 1 .. Len(both) - Len(list) :
             SubSeq(both, Len(list) + 1, Len(both))[i] = both[i + Len(list)]
    BY <1>1, <1>2, Suffix
  <2>2. Len(both) - Len(list) = Len(more)
    BY <1>1
  <2> QED
    BY <1>1, <2>1, <2>2, SeqEqual
<1> QED
  BY <1>3, <1>4 DEF both

\* Taking the head off the first of two lists takes it off the queue.
LEMMA TailOfBoth ==
  ASSUME NEW list \in Seq(Letter), NEW more \in Seq(Letter), list # <<>>
  PROVE  /\ list \o more # <<>>
         /\ Head(list \o more) = Head(list)
         /\ Tail(list \o more) = Tail(list) \o more
OBVIOUS

\* The head leaves the queue, for "new" or without a trace.
LEMMA HeadDrops ==
  ASSUME Owned \in Seq(Letter), Owned # <<>>, Owned' = Tail(Owned),
         place \in [Letter -> {"new", "tmp", "current"}],
         place' = place \/ place' = Moved({Head(Owned)}, "new")
  PROVE  Abstract!Next
<1>1. /\ 1 \in DOMAIN Owned /\ 1 \in 1 .. Len(Owned) /\ Head(Owned) = Owned[1]
      /\ SubSeq(Owned, 1, 1 - 1) \o SubSeq(Owned, 1 + 1, Len(Owned)) = Tail(Owned)
  <2> DEFINE o == Owned
  <2>1. o \in Seq(Letter) /\ o # <<>>
    OBVIOUS
  <2> HIDE DEF o
  <2>2. 1 \in 1 .. Len(o) /\ Len(o) \in Nat /\ DOMAIN o = 1 .. Len(o) /\ Head(o) = o[1]
    BY <2>1
  <2>3. SubSeq(o, 1, 1 - 1) = <<>> /\ SubSeq(o, 1 + 1, Len(o)) = Tail(o)
    BY <2>1, <2>2
  <2>4. <<>> \o Tail(o) = Tail(o)
    BY <2>1
  <2> QED
    BY <2>2, <2>3, <2>4 DEF o
<1>2. PICK returned \in SUBSET {Owned[1]} : Abstract!Put(returned, "new")
  <2>1. CASE place' = place
    <3>1. Abstract!Put({}, "new")
      BY <2>1 DEF Abstract!Put
    <3> QED
      BY <3>1
  <2>2. CASE place' = Moved({Head(Owned)}, "new")
    <3>1. Abstract!Put({Owned[1]}, "new")
      BY <1>1, <2>2 DEF Abstract!Put, Moved
    <3> QED
      BY <3>1
  <2> QED
    BY <2>1, <2>2
<1>3. returned \in SUBSET Abstract!Queued /\ returned \subseteq {Owned[i] : i \in 1 .. 1}
  BY <1>1 DEF Abstract!Queued
<1>4. Abstract!Drop(1, 1, returned)
  BY <1>1, <1>2, <1>3 DEF Abstract!Drop
<1> QED
  BY <1>1, <1>3, <1>4 DEF Abstract!Next

\* Letters that leave the end of the connection's list are a Drop, or nothing.
LEMMA LeavingDrops ==
  ASSUME TypeInv, UNCHANGED tasks, NEW n \in 0 .. Len(task_pool),
         task_pool' = SubSeq(task_pool, 1, n),
         NEW returned, returned \subseteq {task_pool[i] : i \in n + 1 .. Len(task_pool)},
         place' = Moved(returned, "new")
  PROVE  Abstract!Next \/ UNCHANGED <<Owned, place>>
<1>1. /\ task_pool \in Seq(Letter) /\ tasks \in Seq(Letter)
      /\ place \in [Letter -> {"new", "tmp", "current"}]
      /\ Len(task_pool) \in Nat
  BY DEF TypeInv, TypeOK
<1>2. CASE n = Len(task_pool)
  <2>1. task_pool' = task_pool
    BY <1>1, <1>2
  <2>2. returned = {}
    BY <1>1, <1>2
  <2>3. place' = place
    BY <1>1, <2>2 DEF Moved
  <2> QED
    BY <2>1, <2>3 DEF Owned
<1>3. CASE n # Len(task_pool)
  <2>1. n + 1 \in 1 .. Len(task_pool) /\ Len(task_pool) \in n + 1 .. Len(task_pool)
    BY <1>1, <1>3
  <2>2. /\ DOMAIN Owned = 1 .. Len(Owned) /\ Len(Owned) = Len(task_pool) + Len(tasks)
        /\ \A i \in 1 .. Len(task_pool) : Owned[i] = task_pool[i]
    BY <1>1 DEF Owned
  <2>3. n + 1 \in DOMAIN Owned /\ Len(task_pool) \in n + 1 .. Len(Owned)
    BY <1>1, <2>1, <2>2
  <2>4. Owned' = SubSeq(Owned, 1, (n + 1) - 1)
                 \o SubSeq(Owned, Len(task_pool) + 1, Len(Owned))
    <3>1. (n + 1) - 1 = n
      OBVIOUS
    <3> QED
      BY <1>1, <3>1, DropRun DEF Owned
  <2>5. returned \subseteq {Owned[i] : i \in n + 1 .. Len(task_pool)}
    BY <1>1, <2>2
  <2>6. returned \in SUBSET Abstract!Queued
    <3>1. \A i \in n + 1 .. Len(task_pool) : i \in DOMAIN Owned
      BY <1>1, <2>2
    <3> QED
      BY <2>5, <3>1 DEF Abstract!Queued
  <2>7. Abstract!Put(returned, "new")
    BY DEF Abstract!Put, Moved
  <2>8. Abstract!Drop(n + 1, Len(task_pool), returned)
    BY <2>4, <2>5, <2>7 DEF Abstract!Drop
  <2> QED
    BY <2>3, <2>6, <2>8 DEF Abstract!Next
<1> QED
  BY <1>2, <1>3

\* Every handler delivers the head of the queue, drops some letters, or leaves
\* the queue alone.
LEMMA HandlersMap ==
  ASSUME TypeInv, TypeInv', SMTP_Control, UNCHANGED tasks
  PROVE  Abstract!Next \/ UNCHANGED <<Owned, place>>
<1>1. /\ task_pool \in Seq(Letter) /\ tasks \in Seq(Letter)
      /\ Len(task_pool) \in Nat
  BY DEF TypeInv, TypeOK
<1>2. CASE UNCHANGED <<task_pool, place>>
  BY <1>2 DEF Owned
<1>3. CASE HeadLeaves("current")
  <2>1. Owned # <<>> /\ Head(Owned) = Head(task_pool) /\ Owned' = Tail(Owned)
    BY <1>1, <1>3, TailOfBoth DEF HeadLeaves, Owned
  <2>2. Abstract!Put({Head(Owned)}, "current")
    BY <1>3, <2>1 DEF HeadLeaves, Abstract!Put, Moved
  <2> QED
    BY <2>1, <2>2 DEF Abstract!Next, Abstract!Deliver
<1>4. CASE HeadLeaves("new")
  <2>1. Owned # <<>> /\ Head(Owned) = Head(task_pool) /\ Owned' = Tail(Owned)
    BY <1>1, <1>4, TailOfBoth DEF HeadLeaves, Owned
  <2>2. Owned \in Seq(Letter)
    BY <1>1 DEF Owned
  <2>3. place \in [Letter -> {"new", "tmp", "current"}]
    BY DEF TypeInv, TypeOK
  <2> QED
    BY <1>4, <2>1, <2>2, <2>3, HeadDrops DEF HeadLeaves
<1>5. CASE AllReturn
  <2>1. task_pool' = SubSeq(task_pool, 1, 0)
    BY <1>1, <1>5 DEF AllReturn
  <2>2. Listed(task_pool) \subseteq {task_pool[i] : i \in 0 + 1 .. Len(task_pool)}
    BY <1>1 DEF Listed
  <2>3. 0 \in 0 .. Len(task_pool)
    BY <1>1
  <2> QED
    BY <1>5, <2>1, <2>2, <2>3, LeavingDrops DEF AllReturn
<1> QED
  BY <1>2, <1>3, <1>4, <1>5, HandlersEffect

\* Each step of the two threads is a step of LetterQueue or leaves the queue
\* and the folders alone.
LEMMA QueueStep ==
  ASSUME TypeInv, TypeInv', TaskInv, [Next]_vars
  PROVE  Abstract!Next \/ UNCHANGED <<Owned, place>>
<1>1. /\ task_pool \in Seq(Letter) /\ tasks \in Seq(Letter)
      /\ Len(task_pool) \in Nat /\ Len(tasks) \in Nat
      /\ place \in [Letter -> {"new", "tmp", "current"}]
      /\ inhand \in Letter \cup {NoLetter}
  BY DEF TypeInv, TypeOK
<1>2. CASE UNCHANGED <<task_pool, tasks, place>>
  BY <1>2 DEF Owned
<1>3. CASE Delegate
  <2>1. inhand \in Letter /\ place[inhand] = "new"
    BY <1>1, <1>3 DEF Delegate, TaskInv
  <2>2. Owned' = Append(Owned, inhand)
    BY <1>1, <1>3, <2>1 DEF Delegate, Owned
  <2>3. inhand \notin Abstract!Queued
    <3>1. \A i \in DOMAIN Owned : place[Owned[i]] = "tmp"
      BY <1>1, ConcatElement DEF Owned, TaskInv, InTmp
    <3> QED
      BY <2>1, <3>1 DEF Abstract!Queued
  <2>4. Abstract!Put({inhand}, "tmp")
    BY <1>3 DEF Delegate, Abstract!Put, Moved
  <2> QED
    BY <2>1, <2>2, <2>3, <2>4 DEF Abstract!Next, Abstract!Take
<1>4. CASE closingConnections
  <2>1. CASE pc = "none"
    BY <1>4, <2>1 DEF closingConnections, Owned
  <2>2. CASE pc # "none" /\ Kept = <<>>
    <3>1. /\ task_pool' = SubSeq(task_pool, 1, 0) /\ tasks' = tasks
          /\ place' = Moved(Listed(task_pool), "new")
      <4>1. Listed(task_pool) \ Listed(<<>>) = Listed(task_pool)
        BY DEF Listed
      <4>2. SubSeq(task_pool, 1, 0) = <<>>
        BY <1>1
      <4> QED
        BY <1>4, <2>2, <4>1, <4>2 DEF closingConnections
    <3>2. Listed(task_pool) \subseteq {task_pool[i] : i \in 0 + 1 .. Len(task_pool)}
      BY <1>1 DEF Listed
    <3>3. 0 \in 0 .. Len(task_pool)
      BY <1>1
    <3> QED
      BY <3>1, <3>2, <3>3, LeavingDrops
  <2>3. CASE pc # "none" /\ Kept # <<>>
    <3>1. task_pool # <<>> /\ Kept = <<Head(task_pool)>>
      BY <2>3 DEF Kept
    <3>2. 1 \in 0 .. Len(task_pool) /\ SubSeq(task_pool, 1, 1) = <<Head(task_pool)>>
      <4>1. 1 \in 0 .. Len(task_pool) /\ Head(task_pool) = task_pool[1]
        BY <1>1, <3>1
      <4>2. Head(task_pool) \in Letter
        BY <1>1, <3>1
      <4>3. /\ <<Head(task_pool)>> \in Seq(Letter) /\ Len(<<Head(task_pool)>>) = 1
            /\ \A i \in 1 .. 1 : <<Head(task_pool)>>[i] = task_pool[1]
        BY <4>1, <4>2
      <4>4. /\ SubSeq(task_pool, 1, 1) \in Seq(Letter) /\ Len(SubSeq(task_pool, 1, 1)) = 1
            /\ \A i \in 1 .. 1 : SubSeq(task_pool, 1, 1)[i] = task_pool[i]
        BY <1>1, <4>1, Prefix
      <4>5. \A i \in 1 .. 1 : SubSeq(task_pool, 1, 1)[i] = <<Head(task_pool)>>[i]
        BY <4>3, <4>4
      <4>6. SubSeq(task_pool, 1, 1) = <<Head(task_pool)>>
        BY <4>3, <4>4, <4>5, SeqEqual
      <4> QED
        BY <4>1, <4>6
    <3>3. /\ task_pool' = SubSeq(task_pool, 1, 1) /\ tasks' = tasks
          /\ place' = Moved(Listed(task_pool) \ Listed(Kept), "new")
      BY <1>4, <2>3, <3>1, <3>2 DEF closingConnections
    <3>4. Listed(task_pool) \ Listed(Kept)
            \subseteq {task_pool[i] : i \in 1 + 1 .. Len(task_pool)}
      <4>1. task_pool[1] \in Listed(Kept)
        BY <1>1, <3>1 DEF Listed
      <4>2. \A i \in DOMAIN task_pool : i = 1 \/ i \in 1 + 1 .. Len(task_pool)
        BY <1>1
      <4> QED
        BY <4>1, <4>2 DEF Listed
    <3> QED
      BY <3>2, <3>3, <3>4, LeavingDrops
  <2> QED
    BY <2>1, <2>2, <2>3
<1>5. CASE AppendTasks
  BY <1>1, <1>5 DEF AppendTasks, Owned
<1>6. CASE addNewSocketConnection
  BY <1>6 DEF addNewSocketConnection, Allocate, workerVars, TaskInv, Live, Owned
<1>7. CASE TasksToNewSocket
  <2>1. task_pool = <<>> /\ task_pool' = tasks /\ tasks' = <<>> /\ place' = place
    BY <1>7 DEF TasksToNewSocket, TaskInv, Live
  <2> QED
    BY <1>1, <2>1 DEF Owned
<1>8. CASE RevertTask
  <2>1. task_pool = <<>> /\ task_pool' = <<>> /\ tasks # <<>>
    BY <1>8 DEF RevertTask, Allocate, TaskInv, Live, TypeInv, TaskToPrepareFor
  <2>2. Owned = tasks /\ Owned' = Tail(tasks)
    BY <1>1, <1>8, <2>1 DEF RevertTask, Owned
  <2>3. place' = place \/ place' = Moved({Head(Owned)}, "new")
    BY <1>8, <2>2 DEF RevertTask
  <2> QED
    BY <1>1, <2>1, <2>2, <2>3, HeadDrops
<1>9. CASE Serve
  BY <1>9, HandlersMap DEF Serve, workerVars
<1>10. CASE Settle
  <2>1. tasks' = tasks /\ place' = place
    BY <1>10 DEF Settle
  <2>2. CASE task_pool' = task_pool
    BY <2>1, <2>2 DEF Owned
  <2>3. CASE task_pool' = <<>>
    <3>1. task_pool' = SubSeq(task_pool, 1, 0) /\ 0 \in 0 .. Len(task_pool)
      BY <1>1, <2>3
    <3>2. place' = Moved({}, "new")
      BY <1>1, <2>1 DEF Moved
    <3> QED
      BY <2>1, <3>1, <3>2, LeavingDrops
  <2> QED
    BY <1>10, <2>2, <2>3 DEF Settle, RemoveSocket, Wait
<1> QED
  BY <1>2, <1>3, <1>4, <1>5, <1>6, <1>7, <1>8, <1>9, <1>10
  DEF Next, Main, Worker, FindLetter, Dispose, PrepareSocket,
      handlePrepareSocketConnection, StartServing, Exit, RevertCrash, Ended, vars,
      connVars, dataVars, letterVars, workerVars

\* The client keeps the promise of LetterQueue: letters are delivered in the
\* order of their delegation, each at most once, and are never lost but by
\* leaving the queue, whatever the peer answers and however the two threads
\* interleave (worker.c:257-360, smtp_interface.c, file_viewer.c:190-240).
THEOREM ImplementsLetterQueueHolds == Spec => ImplementsLetterQueue
<1>1. Init => Abstract!Init
  BY DEF Init, Allocated, Abstract!Init, Owned
<1>2. TypeInv /\ TypeInv' /\ TaskInv /\ [Next]_vars
        => [Abstract!Next]_<<Owned, place>>
  BY QueueStep
<1> QED
  BY <1>1, <1>2, TypeCorrect, TaskAlways, PTL
  DEF Spec, ImplementsLetterQueue, Abstract!Spec

=============================================================================
