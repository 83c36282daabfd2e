----------------------- MODULE WorkerConnectionProofs -----------------------
(***************************************************************************)
(* Theorems about WorkerConnection, for any set of letters, any number of  *)
(* lines and any outcome of the system calls: types, the dialogue, the     *)
(* letter under way, and how a connection leaves the list.                 *)
(***************************************************************************)
EXTENDS WorkerConnection, TLAPS

-----------------------------------------------------------------------------
\* Type correctness.

\* Lines already sent are lines already read, so "sent" stays a line count.
SentIsRead ==
  current = "SEND_LETTER" /\ prev = "RECEIVE_DATA_RESPONSE" =>
    sent <= IF file = "open" THEN read ELSE 0

\* While a socket is being prepared there is a task it is prepared for.
TaskToPrepareFor == pc \in {"preparing", "prepared"} => tasks # <<>>

TypeInv == TypeOK /\ SentIsRead /\ TaskToPrepareFor

\* MoveLetter leaves every letter in one of the folders.
LEMMA MovedType ==
  ASSUME place \in [Letter -> {"new", "tmp", "current"}],
         NEW letters, NEW folder \in {"new", "tmp", "current"}
  PROVE  Moved(letters, folder) \in [Letter -> {"new", "tmp", "current"}]
BY DEF Moved

\* The empty list of tasks (task_pool == NULL) is a list of letters.
LEMMA EmptyType == <<>> \in Seq(Letter)
OBVIOUS

\* A list of one task is a list of letters.
LEMMA OneType ==
  ASSUME NEW l \in Letter
  PROVE  <<l>> \in Seq(Letter)
OBVIOUS

\* Taking the first task off a list leaves a list, and a letter.
LEMMA TailType ==
  ASSUME NEW list \in Seq(Letter), list # <<>>
  PROVE  Tail(list) \in Seq(Letter) /\ Head(list) \in Letter
OBVIOUS

\* No handler leaves the states of states.h.
LEMMA HandlersKeepStates ==
  ASSUME TypeInv, SMTP_Control
  PROVE  current' \in State /\ prev' \in State
<1> USE ConnectionAssumption
    DEF TypeInv, TypeOK, State, Sending, Receiving, connVars, dataVars,
        letterVars
<1>1. CASE handlePrepareSocketConnection
  BY <1>1 DEF handlePrepareSocketConnection
<1>2. CASE handleGreeting
  BY <1>2 DEF handleGreeting, NoGoodReply, GoodReply, Fail, Blocked, Advance
<1>3. CASE handleSendEHLO
  BY <1>3 DEF handleSendEHLO, SendCommand, Send, Fail, Blocked, Advance, Crash
<1>4. CASE handleResponseOfEHLO
  BY <1>4
  DEF handleResponseOfEHLO, NoGoodReply, GoodReply, Fail, Blocked, Advance
<1>5. CASE handleSendMailFrom
  BY <1>5 DEF handleSendMailFrom, FailHere, Send, Blocked, Advance, Crash, MayCrash
<1>6. CASE handleResponseOfMailFrom
  BY <1>6
  DEF handleResponseOfMailFrom, NoGoodReply, GoodReply, Fail, Blocked, Advance
<1>7. CASE handleSendRCPTto
  BY <1>7
  DEF handleSendRCPTto, SendCommand, Send, Fail, Blocked, Advance, Crash
<1>8. CASE handleResponseOfRCPTto
  BY <1>8
  DEF handleResponseOfRCPTto, NoGoodReply, GoodReply, Fail, Blocked, Advance
<1>9. CASE handleSendDATA
  BY <1>9 DEF handleSendDATA, SendCommand, Send, Fail, Blocked, Advance, Crash
<1>10. CASE handleResponseOfDATA
  BY <1>10
  DEF handleResponseOfDATA, NoGoodReply, GoodReply, Fail, Blocked, Advance
<1>11. CASE handleSendLetter
  BY <1>11
  DEF handleSendLetter, LetterLines, StaleLines, MayCrash, Fail, Blocked,
      Advance, Crash
<1>12. CASE handleResponseOfLetter
  BY <1>12
  DEF handleResponseOfLetter, NoGoodReply, GoodReply, Fail, Blocked, Advance,
      Crash
<1>13. CASE handleSendQUIT
  BY <1>13
  DEF handleSendQUIT, SendCommand, Send, Fail, Blocked, Advance, Crash
<1>14. CASE handleResponseOfQUIT
  BY <1>14
  DEF handleResponseOfQUIT, NoGoodReply, GoodReply, Fail, Blocked, Advance
<1>15. CASE handleDisposing
  BY <1>15 DEF handleDisposing, Fail, Crash, MayCrash
<1>16. CASE handleSmtpError
  BY <1>16
  DEF handleSmtpError, GiveBackAll, TryAgain, DropLetter, NoCase, MayCrash,
      Crash
<1>17. CASE handleSolvableMistake
  BY <1>17
  DEF handleSolvableMistake, SendCommand, Send, Fail, Blocked, Advance, Crash
<1>18. CASE handleResponseOfRSET
  BY <1>18
  DEF handleResponseOfRSET, NoGoodReply, GoodReply, Fail, Blocked, Advance
<1>19. CASE UnknownState
  BY <1>19 DEF UnknownState
<1> QED
  BY <1>1, <1>2, <1>3, <1>4, <1>5, <1>6, <1>7, <1>8, <1>9, <1>10, <1>11,
     <1>12, <1>13, <1>14, <1>15, <1>16, <1>17, <1>18, <1>19
  DEF SMTP_Control

\* A handler leaves the record of the domain, or removes it.
LEMMA HandlersKeepRecord ==
  ASSUME TypeInv, SMTP_Control
  PROVE  record' \in BOOLEAN
<1> USE DEF TypeInv, TypeOK, dataVars, connVars, letterVars
<1>1. CASE handleResponseOfLetter
  BY <1>1 DEF handleResponseOfLetter
<1>2. CASE handleSmtpError
  BY <1>2 DEF handleSmtpError, GiveBackAll, TryAgain, DropLetter, NoCase
<1>3. CASE UNCHANGED record
  BY <1>3
<1> QED
  BY <1>1, <1>2, <1>3
  DEF SMTP_Control, handlePrepareSocketConnection, handleGreeting,
      handleSendEHLO, handleResponseOfEHLO, handleSendMailFrom, FailHere,
      handleResponseOfMailFrom, handleSendRCPTto, handleResponseOfRCPTto,
      handleSendDATA, handleResponseOfDATA, handleSendLetter, handleSendQUIT,
      handleResponseOfQUIT, handleDisposing, handleSolvableMistake,
      handleResponseOfRSET, UnknownState

\* The handlers keep the types of the other fields of the connection.
Counts ==
  /\ attempt \in {-1, 0, 1}
  /\ read \in 0 .. Lines /\ sent \in 0 .. Lines
  /\ SentIsRead

Fields ==
  /\ task_pool \in Seq(Letter)
  /\ file \in {"null", "open", "stale"}
  /\ names \in {"null", "set", "stale"}
  /\ socket \in {"none", "open", "closed"}
  /\ status \in {"ok", "block", "fail", "crash"}

Flags == record \in BOOLEAN /\ worked \in BOOLEAN /\ closing \in BOOLEAN

Folders == place \in [Letter -> {"new", "tmp", "current"}]

\* Giving all letters back keeps the type of every field it writes.
LEMMA GiveBackFields ==
  ASSUME TypeInv, GiveBackAll, socket' = socket
  PROVE  Fields'
<1>1. file' \in {"null", "open", "stale"}
  BY Zenon DEF TypeInv, TypeOK, GiveBackAll
<1>2. task_pool' \in Seq(Letter)
  <2>1. task_pool' = task_pool \/ task_pool' = <<>>
    BY DEF GiveBackAll
  <2> QED
    BY <2>1, EmptyType DEF TypeInv, TypeOK
<1>3. status' \in {"ok", "block", "fail", "crash"}
  BY ConnectionAssumption DEF GiveBackAll, MayCrash, Crash
<1> QED
  BY <1>1, <1>2, <1>3 DEF TypeInv, TypeOK, GiveBackAll, Fields

\* No handler takes a field of FileDesc or a letter out of its type.
LEMMA HandlersKeepTypes ==
  ASSUME TypeInv, SMTP_Control
  PROVE  Counts' /\ Fields' /\ Folders'
<1> USE ConnectionAssumption
    DEF TypeInv, TypeOK, SentIsRead, Counts, Fields, Folders,
        connVars, dataVars, letterVars
<1>1. CASE handlePrepareSocketConnection
  BY <1>1 DEF handlePrepareSocketConnection
<1>2. CASE handleGreeting
  BY <1>2 DEF handleGreeting, NoGoodReply, GoodReply, Fail, Blocked, Advance
<1>3. CASE handleSendEHLO
  BY <1>3 DEF handleSendEHLO, SendCommand, Send, Fail, Blocked, Advance, Crash
<1>4. CASE handleResponseOfEHLO
  BY <1>4
  DEF handleResponseOfEHLO, NoGoodReply, GoodReply, Fail, Blocked, Advance
<1>5. CASE handleSendMailFrom
  BY <1>5 DEF handleSendMailFrom, FailHere, Send, Blocked, Advance, Crash, MayCrash
<1>6. CASE handleResponseOfMailFrom
  BY <1>6
  DEF handleResponseOfMailFrom, NoGoodReply, GoodReply, Fail, Blocked, Advance
<1>7. CASE handleSendRCPTto
  BY <1>7
  DEF handleSendRCPTto, SendCommand, Send, Fail, Blocked, Advance, Crash
<1>8. CASE handleResponseOfRCPTto
  BY <1>8
  DEF handleResponseOfRCPTto, NoGoodReply, GoodReply, Fail, Blocked, Advance
<1>9. CASE handleSendDATA
  BY <1>9 DEF handleSendDATA, SendCommand, Send, Fail, Blocked, Advance, Crash
<1>10. CASE handleResponseOfDATA
  BY <1>10
  DEF handleResponseOfDATA, NoGoodReply, GoodReply, Fail, Blocked, Advance
<1>11. CASE handleSendLetter
  <2>1. CASE UNCHANGED <<file, read, sent>> /\ Fail
    BY <1>11, <2>1 DEF handleSendLetter, Fail
  <2>2. ASSUME NEW start \in 0 .. Lines, LetterLines(start), sent <= start,
               current = "SEND_LETTER", prev = "RECEIVE_DATA_RESPONSE"
        PROVE  /\ file' \in {"null", "open"}
               /\ read' \in 0 .. Lines /\ sent' \in 0 .. Lines
               /\ status' \in {"ok", "block", "fail", "crash"}
               /\ SentIsRead'
    BY <2>2 DEF LetterLines, Fail, Blocked, Advance, Crash
  <2>3. CASE /\ prev = "RECEIVE_DATA_RESPONSE" /\ file = "null"
             /\ LetterLines(0)
    BY <1>11, <2>2, <2>3 DEF handleSendLetter
  <2>4. CASE /\ prev = "RECEIVE_DATA_RESPONSE" /\ file = "open"
             /\ LetterLines(read)
    BY <1>11, <2>2, <2>4 DEF handleSendLetter
  <2>5. CASE /\ prev = "RECEIVE_DATA_RESPONSE" /\ file = "stale"
             /\ StaleLines /\ UNCHANGED <<read, sent>>
    BY <1>11, <2>5 DEF handleSendLetter, StaleLines, MayCrash, Fail, Blocked,
                       Advance, Crash
  <2> QED
    BY <1>11, <2>1, <2>3, <2>4, <2>5 DEF handleSendLetter
<1>12. CASE handleResponseOfLetter
  <2>1. Counts'
    BY <1>12
    DEF handleResponseOfLetter, NoGoodReply, GoodReply, Fail, Blocked,
        Advance, Crash
  <2>2. Fields'
    BY <1>12, TailType
    DEF handleResponseOfLetter, NoGoodReply, GoodReply, Fail, Blocked,
        Advance, Crash
  <2>3. Folders'
    BY <1>12, MovedType
    DEF handleResponseOfLetter, NoGoodReply, GoodReply, Fail, Blocked,
        Advance, Crash
  <2> QED
    BY <2>1, <2>2, <2>3
<1>13. CASE handleSendQUIT
  BY <1>13
  DEF handleSendQUIT, SendCommand, Send, Fail, Blocked, Advance, Crash
<1>14. CASE handleResponseOfQUIT
  BY <1>14
  DEF handleResponseOfQUIT, NoGoodReply, GoodReply, Fail, Blocked, Advance
<1>15. CASE handleDisposing
  BY <1>15 DEF handleDisposing, Fail, Crash, MayCrash
<1>16. CASE handleSmtpError
  <2>1. CASE GiveBackAll
    <3>1. Counts'
      BY <1>16, <2>1
      DEF handleSmtpError, GiveBackAll, MayCrash, Crash
    <3>2. Fields'
      BY <1>16, <2>1, GiveBackFields DEF handleSmtpError
    <3>3. Folders'
      BY <1>16, <2>1, MovedType
      DEF handleSmtpError, GiveBackAll, MayCrash, Crash
    <3> QED
      BY <3>1, <3>2, <3>3
  <2>2. CASE TryAgain
    <3>1. Counts'
      BY <1>16, <2>2 DEF handleSmtpError, TryAgain, MayCrash, Crash
    <3>2. Fields'
      BY <1>16, <2>2 DEF handleSmtpError, TryAgain, MayCrash, Crash
    <3>3. Folders'
      BY <1>16, <2>2 DEF handleSmtpError, TryAgain, MayCrash, Crash
    <3> QED
      BY <3>1, <3>2, <3>3
  <2>3. CASE DropLetter
    <3>1. Counts'
      BY <1>16, <2>3
      DEF handleSmtpError, DropLetter, MayCrash, Crash
    <3>2. Fields'
      BY <1>16, <2>3, TailType
      DEF handleSmtpError, DropLetter, MayCrash, Crash
    <3>3. Folders'
      BY <1>16, <2>3, MovedType
      DEF handleSmtpError, DropLetter, MayCrash, Crash
    <3> QED
      BY <3>1, <3>2, <3>3
  <2>4. CASE NoCase
    BY <1>16, <2>4 DEF handleSmtpError, NoCase
  <2> QED
    BY <1>16, <2>1, <2>2, <2>3, <2>4 DEF handleSmtpError
<1>17. CASE handleSolvableMistake
  BY <1>17
  DEF handleSolvableMistake, SendCommand, Send, Fail, Blocked, Advance, Crash
<1>18. CASE handleResponseOfRSET
  BY <1>18
  DEF handleResponseOfRSET, NoGoodReply, GoodReply, Fail, Blocked, Advance
<1>19. CASE UnknownState
  BY <1>19 DEF UnknownState
<1> QED
  BY <1>1, <1>2, <1>3, <1>4, <1>5, <1>6, <1>7, <1>8, <1>9, <1>10, <1>11,
     <1>12, <1>13, <1>14, <1>15, <1>16, <1>17, <1>18, <1>19
  DEF SMTP_Control

\* The Boolean fields, apart because the provers treat them apart.
LEMMA FlagsStep ==
  ASSUME TypeInv, [Next]_vars
  PROVE  Flags'
<1> USE DEF TypeInv, TypeOK, Flags
<1>1. CASE \E l \in Letter : FindLetter(l)
  BY <1>1 DEF FindLetter
<1>2. CASE Delegate \/ Dispose
  BY <1>2 DEF Delegate, Dispose, connVars, dataVars
<1>3. CASE closingConnections \/ AppendTasks \/ TasksToNewSocket \/ RevertTask
  BY <1>3 DEF closingConnections, AppendTasks, TasksToNewSocket, RevertTask
<1>4. CASE addNewSocketConnection \/ StartServing
  BY <1>4 DEF addNewSocketConnection, StartServing, workerVars, connVars, dataVars
<1>5. CASE PrepareSocket \/ Serve
  BY <1>5, HandlersKeepRecord DEF PrepareSocket, Serve, SMTP_Control, workerVars
<1>6. CASE Settle
  BY <1>6 DEF Settle, RemoveSocket, Wait
<1>7. CASE Exit \/ RevertCrash \/ Ended \/ UNCHANGED vars
  BY <1>7 DEF Exit, RevertCrash, Ended, vars, connVars, dataVars, workerVars
<1> QED
  BY <1>1, <1>2, <1>3, <1>4, <1>5, <1>6, <1>7 DEF Next, Main, Worker

\* closingConnections keeps the list, empties it or keeps its head, and moves
\* the letters that leave it.
LEMMA ClosingEffect ==
  ASSUME closingConnections
  PROVE  /\ \/ task_pool' = task_pool \/ task_pool' = <<>>
            \/ task_pool # <<>> /\ task_pool' = <<Head(task_pool)>>
         /\ \/ place' = place
            \/ place' = Moved(Listed(task_pool) \ Listed(task_pool'), "new")
         /\ task_pool # <<>> /\ current \notin BeforeGreeting => task_pool' # <<>>
<1>1. \/ task_pool' = task_pool \/ task_pool' = <<>>
      \/ task_pool # <<>> /\ task_pool' = <<Head(task_pool)>>
  BY DEF closingConnections, Kept
<1>2. \/ place' = place
      \/ place' = Moved(Listed(task_pool) \ Listed(task_pool'), "new")
  BY DEF closingConnections, Kept
<1>3. task_pool # <<>> /\ current \notin BeforeGreeting => task_pool' # <<>>
  BY DEF closingConnections, Kept
<1> QED
  BY <1>1, <1>2, <1>3

\* closingConnections keeps every type.
LEMMA ClosingTypes ==
  ASSUME TypeInv, closingConnections, Flags'
  PROVE  TypeInv'
<1>1. /\ task_pool \in Seq(Letter)
      /\ place \in [Letter -> {"new", "tmp", "current"}]
  BY DEF TypeInv, TypeOK
<1>2. task_pool' \in Seq(Letter)
  BY <1>1, ClosingEffect, TailType, EmptyType, OneType
<1>3. place' \in [Letter -> {"new", "tmp", "current"}]
  BY <1>1, ClosingEffect, MovedType
<1>4. UNCHANGED <<current, prev, attempt, file, names, read, sent, socket,
                  status, tasks, inhand, waits, pc>>
  BY DEF closingConnections, Kept
<1> QED
  BY <1>2, <1>3, <1>4
  DEF TypeInv, TypeOK, SentIsRead, TaskToPrepareFor, Flags

\* A connection that cannot be opened keeps every type, and a next attempt is
\* made only for a task that is still there.
LEMMA RevertTypes ==
  ASSUME TypeInv, RevertTask, Flags'
  PROVE  TypeInv'
<1> USE DEF TypeInv, TypeOK, TaskToPrepareFor
<1>1. tasks' \in Seq(Letter)
  BY TailType DEF RevertTask
<1>2. place' \in [Letter -> {"new", "tmp", "current"}]
  BY MovedType DEF RevertTask
<1>3. CASE Tail(tasks) = <<>>
  BY <1>1, <1>2, <1>3 DEF RevertTask, SentIsRead, Flags
<1>4. CASE Tail(tasks) # <<>> /\ Allocate
  BY <1>1, <1>2, <1>4, ConnectionAssumption
  DEF Allocate, RevertTask, SentIsRead, Flags, State
<1> QED
  BY <1>3, <1>4 DEF RevertTask

\* Every variable keeps its type, no more lines are sent than were read, and a
\* socket is only prepared for a task: the inductive form of TypeOK.
THEOREM TypeCorrect == Spec => []TypeInv
<1> USE ConnectionAssumption, NoLetterAssumption
<1>1. Init => TypeInv
  <2> SUFFICES ASSUME Init PROVE TypeInv
    OBVIOUS
  <2> USE DEF Init, Allocated
  <2>1. Flags
    BY DEF Flags
  <2> QED
    BY <2>1 DEF TypeInv, TypeOK, SentIsRead, TaskToPrepareFor, State, Flags
<1>2. TypeInv /\ [Next]_vars => TypeInv'
  <2> SUFFICES ASSUME TypeInv, [Next]_vars
               PROVE  TypeInv'
    OBVIOUS
  <2> USE DEF TypeInv, TypeOK, SentIsRead, TaskToPrepareFor, Flags
  <2>0. Flags'
    BY FlagsStep
  <2>1. ASSUME NEW l \in Letter, FindLetter(l)
        PROVE  TypeInv'
    BY <2>1, <2>0 DEF FindLetter, letterVars
  <2>2. CASE Delegate
    BY <2>2, <2>0, MovedType DEF Delegate
  <2>3. CASE Dispose
    BY <2>3, <2>0 DEF Dispose, connVars, dataVars, letterVars
  <2>4. CASE closingConnections
    BY <2>4, <2>0, ClosingTypes
  <2>5. CASE AppendTasks
    BY <2>5, <2>0 DEF AppendTasks
  <2>6. CASE addNewSocketConnection
    BY <2>6, <2>0
    DEF addNewSocketConnection, Allocate, workerVars, State
  <2>7. CASE PrepareSocket
    BY <2>7, <2>0, HandlersKeepStates, HandlersKeepTypes
    DEF PrepareSocket, SMTP_Control, workerVars, Counts, Fields, Folders
  <2>8. CASE TasksToNewSocket
    BY <2>8, <2>0 DEF TasksToNewSocket
  <2>9. CASE RevertTask
    BY <2>9, <2>0, RevertTypes
  <2>10. CASE StartServing
    BY <2>10, <2>0 DEF StartServing, connVars, dataVars, letterVars
  <2>11. CASE Serve
    BY <2>11, <2>0, HandlersKeepStates, HandlersKeepTypes
    DEF Serve, workerVars, Counts, Fields, Folders
  <2>12. CASE Settle
    <3>1. CASE RemoveSocket
      BY <2>12, <2>0, <3>1 DEF Settle, RemoveSocket
    <3>2. CASE Wait("read") \/ Wait("write")
      BY <2>12, <2>0, <3>2 DEF Settle, Wait
    <3> QED
      BY <2>12, <3>1, <3>2 DEF Settle
  <2>13. CASE Exit \/ RevertCrash \/ Ended \/ UNCHANGED vars
    BY <2>13, <2>0
    DEF Exit, RevertCrash, Ended, vars, connVars, dataVars, letterVars, workerVars
  <2> QED
    BY <2>1, <2>2, <2>3, <2>4, <2>5, <2>6, <2>7, <2>8, <2>9, <2>10, <2>11,
       <2>12, <2>13
    DEF Next, Main, Worker
<1> QED
  BY <1>1, <1>2, PTL DEF Spec

\* Every variable keeps its type.
THEOREM TypeOKHolds == Spec => []TypeOK
<1>1. TypeInv => TypeOK
  BY DEF TypeInv
<1> QED
  BY <1>1, TypeCorrect, PTL

-----------------------------------------------------------------------------
\* The pairs of states.

\* Before the socket is in the list, its pair is the one SMTP_Control expects.
PreparingPair ==
  /\ pc = "preparing" =>
       current = "PREPARE_SOCKET_CONNECTION" /\ prev = "NULL_POINTER"
  /\ pc = "prepared" /\ status # "fail" =>
       /\ current = "RECEIVE_SMTP_GREETING"
       /\ prev = "PREPARE_SOCKET_CONNECTION"

\* A connection goes back to pselect in a state that waits for the peer.
IdleWaits == pc = "idle" => current \in Receiving \cup Sending

DialogueInv == PreparingPair /\ IdleWaits /\ StatePairs

\* No handler takes a connection off the edges of the dialogue.
LEMMA HandlersKeepEdge ==
  ASSUME OnEdge, SMTP_Control
  PROVE  OnEdge'
<1> USE DEF OnEdge, Dialogue, ErrorFrom
<1>1. CASE handlePrepareSocketConnection
  BY <1>1 DEF handlePrepareSocketConnection
<1>2. CASE handleGreeting
  BY <1>2 DEF handleGreeting, NoGoodReply, GoodReply, Fail, Blocked, Advance
<1>3. CASE handleSendEHLO
  BY <1>3 DEF handleSendEHLO, SendCommand, Send, Fail, Blocked, Advance, Crash
<1>4. CASE handleResponseOfEHLO
  BY <1>4
  DEF handleResponseOfEHLO, NoGoodReply, GoodReply, Fail, Blocked, Advance
<1>5. CASE handleSendMailFrom
  BY <1>5 DEF handleSendMailFrom, FailHere, Send, Blocked, Advance, Crash, MayCrash
<1>6. CASE handleResponseOfMailFrom
  BY <1>6
  DEF handleResponseOfMailFrom, NoGoodReply, GoodReply, Fail, Blocked, Advance
<1>7. CASE handleSendRCPTto
  BY <1>7
  DEF handleSendRCPTto, SendCommand, Send, Fail, Blocked, Advance, Crash
<1>8. CASE handleResponseOfRCPTto
  BY <1>8
  DEF handleResponseOfRCPTto, NoGoodReply, GoodReply, Fail, Blocked, Advance
<1>9. CASE handleSendDATA
  BY <1>9 DEF handleSendDATA, SendCommand, Send, Fail, Blocked, Advance, Crash
<1>10. CASE handleResponseOfDATA
  BY <1>10
  DEF handleResponseOfDATA, NoGoodReply, GoodReply, Fail, Blocked, Advance
<1>11. CASE handleSendLetter
  BY <1>11
  DEF handleSendLetter, LetterLines, StaleLines, MayCrash, Fail, Blocked,
      Advance, Crash
<1>12. CASE handleResponseOfLetter
  BY <1>12
  DEF handleResponseOfLetter, NoGoodReply, GoodReply, Fail, Blocked, Advance,
      Crash
<1>13. CASE handleSendQUIT
  BY <1>13
  DEF handleSendQUIT, SendCommand, Send, Fail, Blocked, Advance, Crash
<1>14. CASE handleResponseOfQUIT
  BY <1>14
  DEF handleResponseOfQUIT, NoGoodReply, GoodReply, Fail, Blocked, Advance
<1>15. CASE handleDisposing
  BY <1>15 DEF handleDisposing, Fail, Crash, MayCrash
<1>16. CASE handleSmtpError
  BY <1>16
  DEF handleSmtpError, GiveBackAll, TryAgain, DropLetter, NoCase, MayCrash,
      Crash
<1>17. CASE handleSolvableMistake
  BY <1>17
  DEF handleSolvableMistake, SendCommand, Send, Fail, Blocked, Advance, Crash
<1>18. CASE handleResponseOfRSET
  BY <1>18
  DEF handleResponseOfRSET, NoGoodReply, GoodReply, Fail, Blocked, Advance
<1>19. CASE UnknownState
  BY <1>19 DEF UnknownState
<1> QED
  BY <1>1, <1>2, <1>3, <1>4, <1>5, <1>6, <1>7, <1>8, <1>9, <1>10, <1>11,
     <1>12, <1>13, <1>14, <1>15, <1>16, <1>17, <1>18, <1>19
  DEF SMTP_Control

\* A socket being prepared has the states addNewSocketConnection gave it, and a
\* live one is on an edge of the dialogue: the inductive form of StatePairs.
THEOREM DialogueHolds == Spec => []DialogueInv
<1>1. Init => DialogueInv
  BY DEF Init, Allocated, DialogueInv, PreparingPair, IdleWaits, StatePairs, Live
<1>2. DialogueInv /\ [Next]_vars => DialogueInv'
  <2> SUFFICES ASSUME DialogueInv, [Next]_vars
               PROVE  DialogueInv'
    OBVIOUS
  <2> USE DEF DialogueInv, PreparingPair, IdleWaits, StatePairs, Live
  <2>1. CASE UNCHANGED <<current, prev, status, pc>>
    BY <2>1 DEF OnEdge
  <2>2. CASE addNewSocketConnection
    BY <2>2 DEF addNewSocketConnection, Allocate
  <2>3. CASE PrepareSocket
    BY <2>3 DEF PrepareSocket, handlePrepareSocketConnection
  <2>4. CASE TasksToNewSocket
    BY <2>4 DEF TasksToNewSocket, OnEdge, Dialogue, Receiving
  <2>5. CASE RevertTask
    BY <2>5 DEF RevertTask, Allocate
  <2>6. CASE StartServing
    BY <2>6 DEF StartServing, connVars, OnEdge
  <2>7. CASE Serve
    <3>1. OnEdge'
      BY <2>7, HandlersKeepEdge DEF Serve
    <3> QED
      BY <2>7, <3>1 DEF Serve
  <2>8. CASE Settle
    BY <2>8 DEF Settle, RemoveSocket, Wait, OnEdge
  <2>9. CASE Exit \/ RevertCrash
    BY <2>9 DEF Exit, RevertCrash
  <2> QED
    BY <2>1, <2>2, <2>3, <2>4, <2>5, <2>6, <2>7, <2>8, <2>9
    DEF Next, Main, Worker, FindLetter, Delegate, Dispose, closingConnections,
        AppendTasks, Ended, vars, connVars, dataVars, letterVars
<1> QED
  BY <1>1, <1>2, PTL DEF Spec

\* A live connection is always on an edge of the dialogue, or in an error that
\* came from a known state.
THEOREM StatePairsHold == Spec => []StatePairs
<1>1. DialogueInv => StatePairs
  BY DEF DialogueInv
<1> QED
  BY <1>1, DialogueHolds, PTL

-----------------------------------------------------------------------------
\* The letter under way, the counter of attempts and the open file.

HasHead == InTransaction => task_pool # <<>>

FileOfHead ==
  file = "open" =>
    /\ task_pool # <<>>
    /\ <<current, prev>> \in {<<"SEND_LETTER", "RECEIVE_DATA_RESPONSE">>,
                              <<"SMTP_ERROR", "RECEIVE_DATA_RESPONSE">>}

\* Until the reply to EHLO the counter is not written; the pairs a connection
\* can be in until then.
CounterUnset ==
  attempt = -1 =>
    \/ current \in {"RECEIVE_SMTP_GREETING", "SEND_EHLO", "RECEIVE_EHLO_RESPONSE",
                    "DISPOSING_SOCKET", "NULL_POINTER"}
    \/ /\ current = "SMTP_ERROR"
       /\ prev \in {"PREPARE_SOCKET_CONNECTION", "RECEIVE_SMTP_GREETING",
                    "SEND_EHLO"}

LetterFacts == HasHead /\ FileOfHead /\ CounterUnset

\* A socket is prepared for a FileDesc whose file is not open.
NoFileYet == pc \in {"preparing", "prepared"} => file # "open"

LetterInv == DialogueInv /\ NoFileYet /\ (Live => LetterFacts)

\* The handlers keep a letter under way, its file and the counter together.
LEMMA HandlersKeepLetter ==
  ASSUME OnEdge, LetterFacts, SMTP_Control
  PROVE  LetterFacts'
<1> USE DEF OnEdge, Dialogue, LetterFacts, HasHead, FileOfHead, CounterUnset,
            InTransaction, dataVars, letterVars
<1>1. CASE handlePrepareSocketConnection
  BY <1>1 DEF handlePrepareSocketConnection
<1>2. CASE handleGreeting
  BY <1>2 DEF handleGreeting, NoGoodReply, GoodReply, Fail, Blocked, Advance
<1>3. CASE handleSendEHLO
  BY <1>3 DEF handleSendEHLO, SendCommand, Send, Fail, Blocked, Advance, Crash
<1>4. CASE handleResponseOfEHLO
  BY <1>4
  DEF handleResponseOfEHLO, NoGoodReply, GoodReply, Fail, Blocked, Advance
<1>5. CASE handleSendMailFrom
  BY <1>5 DEF handleSendMailFrom, FailHere, Send, Blocked, Advance, Crash, MayCrash
<1>6. CASE handleResponseOfMailFrom
  BY <1>6
  DEF handleResponseOfMailFrom, NoGoodReply, GoodReply, Fail, Blocked, Advance
<1>7. CASE handleSendRCPTto
  BY <1>7
  DEF handleSendRCPTto, SendCommand, Send, Fail, Blocked, Advance, Crash
<1>8. CASE handleResponseOfRCPTto
  BY <1>8
  DEF handleResponseOfRCPTto, NoGoodReply, GoodReply, Fail, Blocked, Advance
<1>9. CASE handleSendDATA
  BY <1>9 DEF handleSendDATA, SendCommand, Send, Fail, Blocked, Advance, Crash
<1>10. CASE handleResponseOfDATA
  BY <1>10
  DEF handleResponseOfDATA, NoGoodReply, GoodReply, Fail, Blocked, Advance
<1>11. CASE handleSendLetter
  BY <1>11
  DEF handleSendLetter, LetterLines, StaleLines, MayCrash, Fail, Blocked,
      Advance, Crash
<1>12. CASE handleResponseOfLetter
  BY <1>12
  DEF handleResponseOfLetter, NoGoodReply, GoodReply, Fail, Blocked, Advance,
      Crash
<1>13. CASE handleSendQUIT
  BY <1>13
  DEF handleSendQUIT, SendCommand, Send, Fail, Blocked, Advance, Crash
<1>14. CASE handleResponseOfQUIT
  BY <1>14
  DEF handleResponseOfQUIT, NoGoodReply, GoodReply, Fail, Blocked, Advance
<1>15. CASE handleDisposing
  BY <1>15 DEF handleDisposing, Fail, Crash, MayCrash
<1>16. CASE handleSmtpError
  <2>1. CASE GiveBackAll
    BY <1>16, <2>1 DEF handleSmtpError, GiveBackAll, MayCrash, Crash, Unsolvable
  <2>2. CASE TryAgain
    BY <1>16, <2>2 DEF handleSmtpError, TryAgain, MayCrash, Crash
  <2>3. CASE DropLetter
    BY <1>16, <2>3 DEF handleSmtpError, DropLetter, MayCrash, Crash, Solvable
  <2>4. CASE NoCase
    BY <1>16, <2>4 DEF handleSmtpError, NoCase
  <2> QED
    BY <1>16, <2>1, <2>2, <2>3, <2>4 DEF handleSmtpError
<1>17. CASE handleSolvableMistake
  BY <1>17
  DEF handleSolvableMistake, SendCommand, Send, Fail, Blocked, Advance, Crash
<1>18. CASE handleResponseOfRSET
  BY <1>18
  DEF handleResponseOfRSET, NoGoodReply, GoodReply, Fail, Blocked, Advance
<1>19. CASE UnknownState
  BY <1>19 DEF UnknownState
<1> QED
  BY <1>1, <1>2, <1>3, <1>4, <1>5, <1>6, <1>7, <1>8, <1>9, <1>10, <1>11,
     <1>12, <1>13, <1>14, <1>15, <1>16, <1>17, <1>18, <1>19
  DEF SMTP_Control

\* Appending tasks to a list that is not empty does not empty it.
LEMMA LongerList ==
  ASSUME NEW list \in Seq(Letter), NEW more \in Seq(Letter), list # <<>>
  PROVE  list \o more # <<>>
OBVIOUS

\* The letter under way, its open file and the counter of attempts belong
\* together on every live connection: what the three theorems below follow from.
THEOREM LetterHolds == Spec => []LetterInv
<1>1. Init => LetterInv
  BY DEF Init, Allocated, LetterInv, DialogueInv, PreparingPair, IdleWaits,
         StatePairs, Live, NoFileYet
<1>2. TypeInv /\ DialogueInv' /\ LetterInv /\ [Next]_vars => LetterInv'
  <2> SUFFICES ASSUME TypeInv, DialogueInv', LetterInv, [Next]_vars
               PROVE  NoFileYet' /\ (Live => LetterFacts)'
    BY DEF LetterInv
  <2> USE DEF LetterInv, NoFileYet, Live
  <2>1. CASE UNCHANGED <<current, prev, task_pool, file, attempt, pc>>
    BY <2>1 DEF LetterFacts, HasHead, FileOfHead, CounterUnset, InTransaction
  <2>2. CASE closingConnections
    <3>1. CASE pc = "idle"
      <4>1. current \in Receiving \cup Sending
        BY <3>1 DEF DialogueInv, IdleWaits
      <4>2. UNCHANGED <<current, prev, file, attempt, pc>>
        BY <2>2 DEF closingConnections
      <4> QED
        BY <2>2, <3>1, <4>1, <4>2, ClosingEffect
        DEF LetterFacts, HasHead, FileOfHead, CounterUnset, InTransaction,
            BeforeGreeting, Receiving, Sending
    <3>2. CASE pc = "none"
      BY <2>2, <3>2 DEF closingConnections
    <3> QED
      BY <2>2, <3>1, <3>2 DEF closingConnections, AtSelect
  <2>3. CASE AppendTasks
    <3>1. task_pool # <<>> => task_pool' # <<>>
      BY <2>3, LongerList DEF AppendTasks, TypeInv, TypeOK
    <3> QED
      BY <2>3, <3>1
      DEF AppendTasks, LetterFacts, HasHead, FileOfHead, CounterUnset,
          InTransaction
  <2>4. CASE addNewSocketConnection
    BY <2>4, ConnectionAssumption DEF addNewSocketConnection, Allocate
  <2>5. CASE PrepareSocket
    BY <2>5 DEF PrepareSocket, handlePrepareSocketConnection, letterVars
  <2>6. CASE TasksToNewSocket
    BY <2>6
    DEF TasksToNewSocket, DialogueInv, PreparingPair, LetterFacts, HasHead,
        FileOfHead, CounterUnset, InTransaction
  <2>7. CASE RevertTask
    BY <2>7, ConnectionAssumption DEF RevertTask, Allocate
  <2>8. CASE StartServing
    BY <2>8
    DEF StartServing, connVars, dataVars, letterVars, LetterFacts, HasHead,
        FileOfHead, CounterUnset, InTransaction
  <2>9. CASE Serve
    <3>1. LetterFacts'
      BY <2>9, HandlersKeepLetter DEF Serve, DialogueInv, StatePairs
    <3> QED
      BY <2>9, <3>1 DEF Serve
  <2>10. CASE Settle
    BY <2>10
    DEF Settle, RemoveSocket, Wait, LetterFacts, HasHead, FileOfHead,
        CounterUnset, InTransaction
  <2>11. CASE Exit \/ RevertCrash
    BY <2>11 DEF Exit, RevertCrash
  <2> QED
    BY <2>1, <2>2, <2>3, <2>4, <2>5, <2>6, <2>7, <2>8, <2>9, <2>10, <2>11
    DEF Next, Main, Worker, FindLetter, Delegate, Dispose, Ended, vars,
        connVars, dataVars, letterVars
<1> QED
  BY <1>1, <1>2, TypeCorrect, DialogueHolds, PTL DEF Spec

\* A connection in a transaction has the letter it is about.
THEOREM HeadPresentHolds == Spec => []HeadPresent
<1>1. LetterInv => HeadPresent
  BY DEF LetterInv, LetterFacts, HasHead, HeadPresent
<1> QED
  BY <1>1, LetterHolds, PTL

\* The counter of attempts is never read before it is written.
THEOREM AttemptWrittenHolds == Spec => []AttemptWritten
<1>1. LetterInv => AttemptWritten
  BY DEF LetterInv, LetterFacts, CounterUnset, AttemptWritten, Solvable
<1> QED
  BY <1>1, LetterHolds, PTL

\* An open file belongs to the letter being sent.
THEOREM OpenFileIsHeadHolds == Spec => []OpenFileIsHead
<1>1. LetterInv => OpenFileIsHead
  BY DEF LetterInv, LetterFacts, FileOfHead, OpenFileIsHead
<1> QED
  BY <1>1, LetterHolds, PTL

-----------------------------------------------------------------------------
\* How a connection leaves the list.

\* Behind handleDisposing the socket is closed.
DisposedClosed == prev = "DISPOSING_SOCKET" => socket = "closed"

\* What the loop around SMTP_Control leaves behind: a disposed connection, the
\* accidental result of handleSmtpError, or a call that would block.
Settled ==
  \/ prev = "DISPOSING_SOCKET"
  \/ prev = "SMTP_ERROR" /\ status # "ok"
  \/ status = "block" /\ current \in Receiving \cup Sending

ClosedInv == (Live => DisposedClosed) /\ (pc = "settling" => Settled)

\* The handlers on an edge of the dialogue: when they do not end in an error,
\* or in a state that goes on, the connection is settled.
LEMMA HandlersSettle ==
  ASSUME OnEdge, DisposedClosed, SMTP_Control
  PROVE  /\ DisposedClosed'
         /\ \/ status' \in {"ok", "crash"} \/ current' = "SMTP_ERROR"
            \/ Settled'
<1> USE DEF OnEdge, Dialogue, ErrorFrom, DisposedClosed, Settled, Receiving,
            Sending, dataVars, letterVars
<1>1. CASE handlePrepareSocketConnection
  BY <1>1 DEF handlePrepareSocketConnection
<1>2. CASE handleGreeting
  BY <1>2 DEF handleGreeting, NoGoodReply, GoodReply, Fail, Blocked, Advance
<1>3. CASE handleSendEHLO
  BY <1>3 DEF handleSendEHLO, SendCommand, Send, Fail, Blocked, Advance, Crash
<1>4. CASE handleResponseOfEHLO
  BY <1>4
  DEF handleResponseOfEHLO, NoGoodReply, GoodReply, Fail, Blocked, Advance
<1>5. CASE handleSendMailFrom
  BY <1>5 DEF handleSendMailFrom, FailHere, Send, Blocked, Advance, Crash, MayCrash
<1>6. CASE handleResponseOfMailFrom
  BY <1>6
  DEF handleResponseOfMailFrom, NoGoodReply, GoodReply, Fail, Blocked, Advance
<1>7. CASE handleSendRCPTto
  BY <1>7
  DEF handleSendRCPTto, SendCommand, Send, Fail, Blocked, Advance, Crash
<1>8. CASE handleResponseOfRCPTto
  BY <1>8
  DEF handleResponseOfRCPTto, NoGoodReply, GoodReply, Fail, Blocked, Advance
<1>9. CASE handleSendDATA
  BY <1>9 DEF handleSendDATA, SendCommand, Send, Fail, Blocked, Advance, Crash
<1>10. CASE handleResponseOfDATA
  BY <1>10
  DEF handleResponseOfDATA, NoGoodReply, GoodReply, Fail, Blocked, Advance
<1>11. CASE handleSendLetter
  BY <1>11
  DEF handleSendLetter, LetterLines, StaleLines, MayCrash, Fail, Blocked,
      Advance, Crash
<1>12. CASE handleResponseOfLetter
  BY <1>12
  DEF handleResponseOfLetter, NoGoodReply, GoodReply, Fail, Blocked, Advance,
      Crash
<1>13. CASE handleSendQUIT
  BY <1>13
  DEF handleSendQUIT, SendCommand, Send, Fail, Blocked, Advance, Crash
<1>14. CASE handleResponseOfQUIT
  BY <1>14
  DEF handleResponseOfQUIT, NoGoodReply, GoodReply, Fail, Blocked, Advance
<1>15. CASE handleDisposing
  BY <1>15 DEF handleDisposing, Fail, Crash, MayCrash
<1>16. CASE handleSmtpError
  BY <1>16
  DEF handleSmtpError, GiveBackAll, TryAgain, DropLetter, NoCase, MayCrash,
      Crash
<1>17. CASE handleSolvableMistake
  BY <1>17
  DEF handleSolvableMistake, SendCommand, Send, Fail, Blocked, Advance, Crash
<1>18. CASE handleResponseOfRSET
  BY <1>18
  DEF handleResponseOfRSET, NoGoodReply, GoodReply, Fail, Blocked, Advance
<1>19. CASE UnknownState
  BY <1>19 DEF UnknownState
<1> QED
  BY <1>1, <1>2, <1>3, <1>4, <1>5, <1>6, <1>7, <1>8, <1>9, <1>10, <1>11,
     <1>12, <1>13, <1>14, <1>15, <1>16, <1>17, <1>18, <1>19
  DEF SMTP_Control

\* No step of the two threads makes a connection live that was not disposed of
\* with its socket.
LEMMA ClosedStep ==
  ASSUME TypeInv, DialogueInv, ClosedInv, [Next]_vars
  PROVE  ClosedInv'
<1> USE DEF ClosedInv, DisposedClosed, Settled, Live
<1>1. CASE UNCHANGED <<current, prev, socket, status, pc>>
  BY <1>1
<1>2. CASE addNewSocketConnection
  BY <1>2 DEF addNewSocketConnection, Allocate
<1>3. CASE PrepareSocket
  BY <1>3 DEF PrepareSocket
<1>4. CASE TasksToNewSocket
  BY <1>4 DEF TasksToNewSocket, DialogueInv, PreparingPair
<1>5. CASE RevertTask
  BY <1>5 DEF RevertTask, Allocate
<1>6. CASE StartServing
  BY <1>6 DEF StartServing, connVars, dataVars, letterVars
<1>7. CASE Serve
  <2>1. OnEdge /\ DisposedClosed
    BY <1>7 DEF Serve, DialogueInv, StatePairs
  <2>2. /\ DisposedClosed'
        /\ \/ status' \in {"ok", "crash"} \/ current' = "SMTP_ERROR"
           \/ Settled'
    BY <1>7, <2>1, HandlersSettle DEF Serve
  <2> QED
    BY <1>7, <2>2 DEF Serve
<1>8. CASE Settle
  BY <1>8 DEF Settle, RemoveSocket, Wait
<1>9. CASE Exit \/ RevertCrash
  BY <1>9 DEF Exit, RevertCrash
<1> QED
  BY <1>1, <1>2, <1>3, <1>4, <1>5, <1>6, <1>7, <1>8, <1>9
  DEF Next, Main, Worker, FindLetter, Delegate, Dispose, closingConnections,
      AppendTasks, Ended, vars, connVars, dataVars, letterVars

\* RemovedClosed: a connection leaves the list with its socket closed, but for
\* the two leaks named there (worker.c:131-248, smtp_interface.c:1053-1222).
THEOREM RemovedClosedHolds == Spec => RemovedClosed
<1>1. Init => ClosedInv
  BY DEF Init, ClosedInv, Live
<1>2. ASSUME DialogueInv, ClosedInv, [Next]_vars, pc = "settling", pc' = "none"
      PROVE  \/ prev = "DISPOSING_SOCKET" /\ socket = "closed"
             \/ prev = "SMTP_ERROR" /\ status # "ok"
             \/ ~worked /\ status = "block" /\ task_pool = <<>>
  <2>1. Settle
    BY <1>2
    DEF Next, Main, Worker, FindLetter, Delegate, Dispose, closingConnections,
        AtSelect, AppendTasks, addNewSocketConnection, PrepareSocket,
        TasksToNewSocket, RevertTask, RevertCrash, StartServing, Serve, Exit,
        Ended, vars
  <2>2. Settled /\ DisposedClosed
    BY <1>2 DEF ClosedInv, Live
  <2>3. CASE NothingLeft /\ status = "block"
    BY <2>3 DEF NothingLeft
  <2>4. CASE ~(status = "block" /\ current \in Receiving \cup Sending)
    BY <2>2, <2>4 DEF Settled, DisposedClosed
  <2>5. CASE status = "block" /\ current \in Receiving \cup Sending /\ ~NothingLeft
    BY <1>2, <2>1, <2>5 DEF Settle, Wait
  <2> QED
    BY <2>3, <2>4, <2>5
<1>3. DialogueInv /\ ClosedInv /\ [Next]_vars
        => [pc = "settling" /\ pc' = "none" =>
              \/ prev = "DISPOSING_SOCKET" /\ socket = "closed"
              \/ prev = "SMTP_ERROR" /\ status # "ok"
              \/ ~worked /\ status = "block" /\ task_pool = <<>>]_vars
  BY <1>2
<1> QED
  BY <1>1, <1>3, ClosedStep, TypeCorrect, DialogueHolds, PTL
  DEF Spec, RemovedClosed
=============================================================================
