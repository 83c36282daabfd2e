------------------------- MODULE ClientLoggerProofs -------------------------
(***************************************************************************)
(* Theorems about ClientLogger: types and the limit of the queue, that no  *)
(* run writes the messages of another, which file pointer is closed, and   *)
(* that the messages kept are printed in the order they were accepted.     *)
(***************************************************************************)
EXTENDS ClientLogger, SequenceTheorems, TLAPS

\* A step of the logger, by its parts.
LEMMA NextSplit ==
  ASSUME [Next]_vars
  PROVE  \/ Opened \/ Flush \/ Loop \/ Wake \/ Receive \/ Drained \/ disposeLogger
         \/ Signal \/ (\E text \in {buffered, <<>>} : Ended(text)) \/ Restart
         \/ (\E m \in Message : Error(m))
         \/ UNCHANGED vars
BY DEF Next, InitLogger, Exit, Kill

LEMMA Empty ==
  /\ <<>> \in Seq(Message) /\ <<>> \in Seq([line : Message, run : 1 .. MaxRuns])
  /\ Len(<<>>) = 0 /\ DOMAIN <<>> = {}
OBVIOUS

LEMMA Element ==
  ASSUME NEW S, NEW s \in Seq(S), NEW i \in DOMAIN s PROVE s[i] \in S
OBVIOUS

LEMMA Queues ==
  ASSUME TypeOK
  PROVE  /\ queue \in Seq(Message) /\ Len(queue) <= MaxMsg
         /\ buffered \in Seq(Message) /\ accepted \in Seq(Message)
BY DEF TypeOK

\* What a batch adds to the file are its messages, with the run.
LEMMA Written ==
  ASSUME TypeOK, NEW text \in Seq(Message),
         NEW after, after = app_log \o [i \in DOMAIN text |->
                                         [line |-> text[i], run |-> run]]
  PROVE  /\ after \in Seq([line : Message, run : 1 .. MaxRuns])
         /\ \A i \in DOMAIN after :
              \/ i \in DOMAIN app_log /\ after[i] = app_log[i]
              \/ \E j \in DOMAIN text : after[i] = [line |-> text[j], run |-> run]
<1> DEFINE lines == [i \in DOMAIN text |-> [line |-> text[i], run |-> run]]
<1>1. /\ lines \in Seq([line : Message, run : 1 .. MaxRuns])
      /\ Len(lines) = Len(text)
  <2>1. lines \in [1 .. Len(text) -> [line : Message, run : 1 .. MaxRuns]]
    BY DEF TypeOK
  <2> QED
    BY <2>1
<1>2. app_log \in Seq([line : Message, run : 1 .. MaxRuns])
  BY DEF TypeOK
<1>3. after \in Seq([line : Message, run : 1 .. MaxRuns])
  BY <1>1, <1>2
<1>4. ASSUME NEW i \in DOMAIN after
      PROVE  \/ i \in DOMAIN app_log /\ after[i] = app_log[i]
             \/ \E j \in DOMAIN text : after[i] = [line |-> text[j], run |-> run]
  <2>1. after = app_log \o lines
    OBVIOUS
  <2>2. i \in 1 .. Len(app_log) + Len(lines)
    BY <1>1, <1>2, <2>1
  <2>3. CASE i <= Len(app_log)
    BY <1>1, <1>2, <2>1, <2>2, <2>3
  <2>4. CASE i > Len(app_log)
    <3>1. after[i] = lines[i - Len(app_log)]
      BY <1>1, <1>2, <2>1, <2>2, <2>4
    <3>2. i - Len(app_log) \in DOMAIN text
      BY <1>1, <1>2, <2>2, <2>4
    <3> QED
      BY <3>1, <3>2
  <2> QED
    BY <1>2, <2>2, <2>3, <2>4
<1> QED
  BY <1>3, <1>4

-----------------------------------------------------------------------------
\* Types and the limit of the queue.

LEMMA TypeInit == Init => TypeOK
<1> SUFFICES ASSUME Init PROVE TypeOK
  OBVIOUS
<1>1. /\ queue \in Seq(Message) /\ Len(queue) <= MaxMsg
      /\ buffered \in Seq(Message) /\ accepted \in Seq(Message)
      /\ app_log \in Seq([line : Message, run : 1 .. MaxRuns])
  BY LoggerAssumption, Empty DEF Init
<1>2. said \in [Message -> 0 .. MaxRuns] /\ run \in 1 .. MaxRuns
  BY LoggerAssumption DEF Init
<1> QED
  BY <1>1, <1>2 DEF Init, TypeOK

LEMMA TypeStep == TypeOK /\ [Next]_vars => TypeOK'
<1> SUFFICES ASSUME TypeOK, [Next]_vars PROVE TypeOK'
  OBVIOUS
<1> USE LoggerAssumption
<1>1. CASE Opened
  BY <1>1 DEF Opened, TypeOK, fileVars
<1>2. CASE Flush
  <2>1. queue' \in Seq(Message) /\ Len(queue') <= MaxMsg
    BY <1>2, Queues DEF Flush
  <2>2. accepted' \in Seq(Message)
    BY <1>2, Empty DEF Flush, TypeOK
  <2> QED
    BY <1>2, <2>1, <2>2 DEF Flush, TypeOK, fileVars, Live
<1>3. CASE Loop
  BY <1>3 DEF Loop, TypeOK, fileVars, Live
<1>4. CASE Wake
  BY <1>4 DEF Wake, TypeOK, Live
<1>5. CASE Receive
  <2>1. /\ queue' \in Seq(Message) /\ Len(queue') <= MaxMsg
    BY <1>5 DEF Receive, TypeOK
  <2>2. Head(queue) \in Message
    BY <1>5 DEF Receive, TypeOK
  <2>3. buffered' \in Seq(Message) /\ missed' \subseteq Message
    <3>1. Append(buffered, Head(queue)) \in Seq(Message)
      BY <2>2, Queues
    <3>2. missed \cup {Head(queue)} \subseteq Message /\ missed \subseteq Message
      BY <2>2 DEF TypeOK
    <3>3. /\ buffered' = buffered \/ buffered' = Append(buffered, Head(queue))
          /\ missed' = missed \/ missed' = missed \cup {Head(queue)}
      BY <1>5 DEF Receive
    <3> QED
      BY <3>1, <3>2, <3>3, Queues
  <2> QED
    BY <1>5, <2>1, <2>3 DEF Receive, TypeOK, Live
<1>6. CASE Drained
  <2>1. app_log' \in Seq([line : Message, run : 1 .. MaxRuns])
    <3>1. CASE log = "open"
      BY <1>6, <3>1, Written DEF Drained, TypeOK
    <3>2. CASE log # "open"
      BY <1>6, <3>2 DEF Drained, TypeOK
    <3> QED
      BY <3>1, <3>2
  <2>2. buffered' \in Seq(Message)
    BY <1>6, Empty DEF Drained, TypeOK
  <2> QED
    BY <1>6, <2>1, <2>2 DEF Drained, TypeOK, Live, Dead
<1>7. CASE disposeLogger
  BY <1>7 DEF disposeLogger, TypeOK, fileVars
<1>8. CASE Signal
  BY <1>8 DEF Signal, TypeOK, fileVars, Dead
<1>9. ASSUME NEW text \in {buffered, <<>>}, Ended(text) PROVE TypeOK'
  <2>1. text \in Seq(Message)
    BY Empty DEF TypeOK
  <2>2. app_log' \in Seq([line : Message, run : 1 .. MaxRuns])
    BY <1>9, <2>1, Written DEF Ended
  <2> QED
    BY <1>9, <2>2, Empty DEF Ended, TypeOK, Dead
<1>10. CASE Restart
  <2>1. run' \in 1 .. MaxRuns
    BY <1>10 DEF Restart, TypeOK
  <2>2. /\ queue' \in Seq(Message) /\ Len(queue') <= MaxMsg
        /\ buffered' \in Seq(Message) /\ accepted' \in Seq(Message)
    BY <1>10, Empty, Queues DEF Restart
  <2> QED
    BY <1>10, <2>1, <2>2 DEF Restart, TypeOK
<1>11. ASSUME NEW m \in Message, Error(m) PROVE TypeOK'
  <2>1. said' \in [Message -> 0 .. MaxRuns]
    BY <1>11 DEF Error, TypeOK
  <2>2. /\ queue' \in Seq(Message) /\ accepted' \in Seq(Message)
        /\ Len(queue') <= MaxMsg
    <3>1. /\ Append(queue, m) \in Seq(Message)
          /\ Append(accepted, m) \in Seq(Message)
          /\ Len(Append(queue, m)) = Len(queue) + 1
      BY DEF TypeOK
    <3>2. ~ NoRoom => Len(queue) + 1 <= MaxMsg
      BY DEF TypeOK, NoRoom
    <3> QED
      BY <1>11, <3>1, <3>2 DEF Error, TypeOK
  <2> QED
    BY <1>11, <2>1, <2>2 DEF Error, TypeOK, fileVars
<1>12. CASE UNCHANGED vars
  BY <1>12 DEF vars, fileVars, TypeOK
<1> QED
  BY NextSplit, <1>1, <1>2, <1>3, <1>4, <1>5, <1>6, <1>7, <1>8, <1>9, <1>10,
     <1>11, <1>12

\* The queue never holds more than MAX_COUNT_MSG messages, and every variable
\* keeps its type (logger.c:27).
THEOREM TypeOKHolds == Spec => []TypeOK
<1>1. Init => TypeOK
  BY TypeInit
<1>2. TypeOK /\ [Next]_vars => TypeOK'
  BY TypeStep
<1> QED
  BY <1>1, <1>2, PTL DEF Spec

-----------------------------------------------------------------------------
\* No run writes what an earlier one left in the queue.

\* After the flush, all that waits was said in this run; and so was all that is
\* printed.
FreshInv ==
  /\ FreshLog
  /\ \A i \in DOMAIN buffered : said[buffered[i]] = run
  /\ pc \in Live => \A i \in DOMAIN queue : said[queue[i]] = run

\* What was said in some run keeps its run: Error takes new messages only.
LEMMA SaidStays ==
  ASSUME TypeOK, NEW m \in Message, Error(m), NEW n \in Message, said[n] # 0
  PROVE  said'[n] = said[n]
BY DEF Error, TypeOK

\* What Ended and Drained write is of this run.
LEMMA WritesFresh ==
  ASSUME TypeOK, FreshInv, said' = said,
         NEW text \in Seq(Message), \A i \in DOMAIN text : said[text[i]] = run,
         app_log' = app_log \o [i \in DOMAIN text |-> [line |-> text[i], run |-> run]]
  PROVE  FreshLog'
<1> SUFFICES ASSUME NEW i \in DOMAIN app_log'
             PROVE  said[app_log'[i].line] = app_log'[i].run
  BY DEF FreshLog
<1>1. CASE i \in DOMAIN app_log /\ app_log'[i] = app_log[i]
  BY <1>1 DEF FreshInv, FreshLog
<1>2. CASE \E j \in DOMAIN text : app_log'[i] = [line |-> text[j], run |-> run]
  BY <1>2
<1> QED
  <2>1. \/ i \in DOMAIN app_log /\ app_log'[i] = app_log[i]
        \/ \E j \in DOMAIN text : app_log'[i] = [line |-> text[j], run |-> run]
    BY Written
  <2> QED
    BY <1>1, <1>2, <2>1

LEMMA FreshInit == Init => FreshInv
BY DEF Init, FreshInv, FreshLog, Live

LEMMA FreshStep == TypeOK /\ FreshInv /\ [Next]_vars => FreshInv'
<1> SUFFICES ASSUME TypeOK, FreshInv, [Next]_vars PROVE FreshInv'
  OBVIOUS
<1> USE LoggerAssumption
<1>1. CASE Opened
  BY <1>1 DEF Opened, FreshInv, FreshLog, fileVars, Live
<1>2. CASE Flush
  BY <1>2 DEF Flush, FreshInv, FreshLog, fileVars, Live
<1>3. CASE Loop
  BY <1>3 DEF Loop, FreshInv, FreshLog, fileVars, Live
<1>4. CASE Wake
  BY <1>4 DEF Wake, FreshInv, FreshLog, Live
<1>5. CASE Receive
  <2>1. queue \in Seq(Message) /\ buffered \in Seq(Message)
    BY DEF TypeOK
  <2>2. \A i \in DOMAIN queue : said[queue[i]] = run
    BY <1>5 DEF Receive, FreshInv, Live
  <2>3. \A i \in DOMAIN queue' : said[queue'[i]] = run
    BY <1>5, <2>1, <2>2 DEF Receive
  <2>4. said[Head(queue)] = run
    BY <1>5, <2>1, <2>2 DEF Receive
  <2>5. \A i \in DOMAIN buffered' : said[buffered'[i]] = run
    <3>1. Append(buffered, Head(queue)) \in Seq(Message)
      BY <1>5, <2>1 DEF Receive
    <3>2. \A i \in DOMAIN buffered : said[buffered[i]] = run
      BY DEF FreshInv
    <3>3. \A i \in DOMAIN Append(buffered, Head(queue)) :
            said[Append(buffered, Head(queue))[i]] = run
      BY <2>1, <2>4, <3>1, <3>2
    <3> QED
      BY <1>5, <3>2, <3>3 DEF Receive
  <2> QED
    BY <1>5, <2>3, <2>5 DEF Receive, FreshInv, FreshLog
<1>6. CASE Drained
  <2>1. buffered \in Seq(Message)
    BY DEF TypeOK
  <2>2. FreshLog'
    <3>1. CASE log = "open"
      BY <1>6, <2>1, <3>1, WritesFresh DEF Drained, FreshInv
    <3>2. CASE log # "open"
      BY <1>6, <3>2 DEF Drained, FreshInv, FreshLog
    <3> QED
      BY <3>1, <3>2
  <2>3. /\ \A i \in DOMAIN buffered' : said'[buffered'[i]] = run'
        /\ \A i \in DOMAIN queue' : said'[queue'[i]] = run'
    BY <1>6 DEF Drained, FreshInv, Live
  <2> QED
    BY <2>2, <2>3 DEF FreshInv
<1>7. CASE disposeLogger
  BY <1>7 DEF disposeLogger, FreshInv, FreshLog, fileVars
<1>8. CASE Signal
  BY <1>8 DEF Signal, FreshInv, FreshLog, fileVars, Live
<1>9. ASSUME NEW text \in {buffered, <<>>}, Ended(text) PROVE FreshInv'
  <2>1. text \in Seq(Message) /\ \A i \in DOMAIN text : said[text[i]] = run
    BY Empty DEF TypeOK, FreshInv
  <2>2. FreshLog'
    BY <1>9, <2>1, WritesFresh DEF Ended
  <2> QED
    BY <1>9, <2>2, Empty DEF Ended, FreshInv, Live
<1>10. CASE Restart
  BY <1>10 DEF Restart, FreshInv, FreshLog, Live
<1>11. ASSUME NEW m \in Message, Error(m) PROVE FreshInv'
  <2>1. FreshLog'
    <3> SUFFICES ASSUME NEW i \in DOMAIN app_log
                 PROVE  said'[app_log[i].line] = app_log[i].run
      BY <1>11 DEF FreshLog, Error, fileVars
    <3>1. app_log[i] \in [line : Message, run : 1 .. MaxRuns]
      <4>1. app_log \in Seq([line : Message, run : 1 .. MaxRuns])
        BY DEF TypeOK
      <4> QED
        BY <4>1, Element
    <3>2. said[app_log[i].line] = app_log[i].run
      BY DEF FreshInv, FreshLog
    <3> QED
      BY <1>11, <3>1, <3>2, SaidStays
  <2>2. run' = run /\ run # 0
    BY <1>11 DEF Error, TypeOK
  <2>3. \A i \in DOMAIN buffered' : said'[buffered'[i]] = run'
    BY <1>11, <2>2, SaidStays DEF Error, fileVars, FreshInv, TypeOK
  <2>4. ASSUME pc \in Live, NEW i \in DOMAIN queue' PROVE said'[queue'[i]] = run'
    <3>1. CASE i \in DOMAIN queue /\ queue'[i] = queue[i]
      <4>1. queue[i] \in Message
        BY <3>1, Queues
      <4>2. said[queue[i]] = run
        BY <2>4, <3>1 DEF FreshInv
      <4> QED
        BY <1>11, <2>2, <3>1, <4>1, <4>2, SaidStays
    <3>2. CASE queue'[i] = m
      BY <1>11, <2>2, <3>2 DEF Error, TypeOK
    <3>3. queue' \in {queue, Append(queue, m)}
      BY <1>11 DEF Error
    <3>4. CASE queue' = Append(queue, m)
      <4>1. i \in 1 .. Len(queue) + 1
        BY <3>4, Queues
      <4>2. CASE i = Len(queue) + 1
        BY <3>2, <3>4, <4>2, Queues
      <4>3. CASE i # Len(queue) + 1
        BY <3>1, <3>4, <4>1, <4>3, Queues
      <4> QED
        BY <4>2, <4>3
    <3> QED
      BY <3>1, <3>3, <3>4
  <2> QED
    BY <1>11, <2>1, <2>3, <2>4 DEF FreshInv, Error
<1>12. CASE UNCHANGED vars
  BY <1>12 DEF vars, fileVars, FreshInv, FreshLog
<1> QED
  BY NextSplit, <1>1, <1>2, <1>3, <1>4, <1>5, <1>6, <1>7, <1>8, <1>9, <1>10,
     <1>11, <1>12

\* Every line of the file was said in the run that wrote it: the flush before
\* the loop takes out all that an earlier run left in the queue, in whatever
\* way it ended (logger.c:29-34, 107-113).
THEOREM FreshLogHolds == Spec => []FreshLog
<1>1. Init => TypeOK /\ FreshInv
  BY TypeInit, FreshInit
<1>2. TypeOK /\ FreshInv /\ [Next]_vars => (TypeOK /\ FreshInv)'
  BY TypeStep, FreshStep
<1>3. FreshInv => FreshLog
  BY DEF FreshInv
<1> QED
  BY <1>1, <1>2, <1>3, PTL DEF Spec

-----------------------------------------------------------------------------
\* The file pointer at the end of a batch.

\* A batch that has not opened the file yet has a message to come, or was
\* started by a signal alone, or could not open the file.
FileInv ==
  /\ pc = "draining" =>
       /\ opened => log = "open"
       /\ log \in {"open", "null"} \/ woken \/ queue # <<>>
  /\ pc = "crashed" => woken \/ log = "null"

LEMMA FileStep == TypeOK /\ FileInv /\ [Next]_vars => FileInv'
<1> SUFFICES ASSUME TypeOK, FileInv, [Next]_vars PROVE FileInv'
  OBVIOUS
<1>1. CASE Opened
  BY <1>1 DEF Opened, FileInv
<1>2. CASE Flush
  BY <1>2 DEF Flush, FileInv
<1>3. CASE Loop
  BY <1>3 DEF Loop, FileInv
<1>4. CASE Wake
  BY <1>4 DEF Wake, FileInv
<1>5. CASE Receive
  <2>1. \/ opened /\ log' = log /\ opened' = opened
        \/ log' = "open"
        \/ ~ opened /\ log' = "null" /\ opened' = opened
    BY <1>5 DEF Receive
  <2> QED
    BY <1>5, <2>1 DEF Receive, FileInv
<1>6. CASE Drained
  BY <1>6 DEF Drained, FileInv
<1>7. CASE disposeLogger
  BY <1>7 DEF disposeLogger, FileInv
<1>8. CASE Signal
  BY <1>8 DEF Signal, FileInv, fileVars
<1>9. ASSUME NEW text \in {buffered, <<>>}, Ended(text) PROVE FileInv'
  BY <1>9 DEF Ended, FileInv
<1>10. CASE Restart
  BY <1>10 DEF Restart, FileInv
<1>11. ASSUME NEW m \in Message, Error(m) PROVE FileInv'
  <2>1. queue # <<>> => queue' # <<>>
    BY <1>11 DEF Error, TypeOK
  <2> QED
    BY <1>11, <2>1 DEF Error, fileVars, FileInv
<1>12. CASE UNCHANGED vars
  BY <1>12 DEF vars, fileVars, FileInv
<1> QED
  BY NextSplit, <1>1, <1>2, <1>3, <1>4, <1>5, <1>6, <1>7, <1>8, <1>9, <1>10,
     <1>11, <1>12

\* A stale FILE is closed only after a signal that brought no message, or when
\* the file could not be opened (logger.c:61-84).
THEOREM NoStaleFileHolds == Spec => []NoStaleFile
<1>1. Init => TypeOK /\ FileInv
  BY TypeInit DEF Init, FileInv
<1>2. TypeOK /\ FileInv /\ [Next]_vars => (TypeOK /\ FileInv)'
  BY TypeStep, FileStep
<1>3. FileInv => NoStaleFile
  BY DEF FileInv, NoStaleFile
<1> QED
  BY <1>1, <1>2, <1>3, PTL DEF Spec

-----------------------------------------------------------------------------
\* What the queue accepted is kept, in order.

Entry == [line : Message, run : 1 .. MaxRuns]

KeptOf(a, b, q) == Lines(a) \o b \o q
Mine(a, r, n) == {i \in 1 .. n : i > Len(a) \/ a[i].run = r}
BeforeIn(s, m, n) == \E i, j \in DOMAIN s : i < j /\ s[i] = m /\ s[j] = n
Holds(s) == {s[i] : i \in DOMAIN s}
Ordered(k, mine, s, gone) ==
  /\ {k[i] : i \in mine} = Holds(s) \ gone
  /\ \A i, j \in mine : i < j => BeforeIn(s, k[i], k[j])
Once(s) == \A i, j \in DOMAIN s : s[i] = s[j] => i = j

LEMMA Places ==
  ASSUME NEW S, NEW s \in Seq(S)
  PROVE  /\ DOMAIN s = 1 .. Len(s) /\ Len(s) \in Nat
         /\ \A i \in DOMAIN s : i \in Nat /\ s[i] \in S
BY LenProperties, ElementOfSeq

\* The three parts of what is kept, element by element.
LEMMA KeptParts ==
  ASSUME NEW a \in Seq(Entry), NEW b \in Seq(Message), NEW q \in Seq(Message)
  PROVE  /\ KeptOf(a, b, q) \in Seq(Message)
         /\ Len(KeptOf(a, b, q)) = Len(a) + Len(b) + Len(q)
         /\ DOMAIN KeptOf(a, b, q) = 1 .. Len(a) + Len(b) + Len(q)
         /\ \A i \in 1 .. Len(a) + Len(b) + Len(q) :
              KeptOf(a, b, q)[i] =
                IF i <= Len(a) THEN a[i].line
                ELSE IF i <= Len(a) + Len(b) THEN b[i - Len(a)]
                     ELSE q[i - (Len(a) + Len(b))]
<1> DEFINE x == Lines(a)
           xb == x \o b
           k == xb \o q
<1>1. /\ x \in Seq(Message) /\ Len(x) = Len(a)
      /\ \A i \in 1 .. Len(a) : x[i] = a[i].line
  <2>1. DOMAIN a = 1 .. Len(a) /\ Len(a) \in Nat /\ \A i \in DOMAIN a : a[i] \in Entry
    BY Places
  <2>2. x \in [1 .. Len(a) -> Message]
    BY <2>1 DEF Entry, Lines
  <2>3. x \in Seq(Message)
    BY <2>1, <2>2, IsASeq
  <2> QED
    BY <2>1, <2>2, <2>3 DEF Lines
<1> HIDE DEF x
<1>2. /\ xb \in Seq(Message) /\ Len(xb) = Len(a) + Len(b)
      /\ \A i \in 1 .. Len(a) + Len(b) : xb[i] = IF i <= Len(a) THEN x[i] ELSE b[i - Len(a)]
  <2>1. /\ xb \in Seq(Message) /\ Len(xb) = Len(x) + Len(b)
        /\ \A i \in 1 .. Len(x) + Len(b) : xb[i] = IF i <= Len(x) THEN x[i] ELSE b[i - Len(x)]
    BY <1>1, ConcatProperties
  <2> HIDE DEF xb
  <2> QED
    BY <1>1, <2>1
<1> HIDE DEF xb
<1>3. /\ k \in Seq(Message) /\ Len(k) = Len(a) + Len(b) + Len(q)
      /\ \A i \in 1 .. Len(a) + Len(b) + Len(q) :
           k[i] = IF i <= Len(a) + Len(b) THEN xb[i] ELSE q[i - (Len(a) + Len(b))]
  <2>0. xb \in Seq(Message)
    BY <1>2
  <2>1. /\ k \in Seq(Message) /\ Len(k) = Len(xb) + Len(q)
        /\ \A i \in 1 .. Len(xb) + Len(q) : k[i] = IF i <= Len(xb) THEN xb[i] ELSE q[i - Len(xb)]
    BY <2>0, ConcatProperties
  <2> HIDE DEF k
  <2> QED
    BY <1>2, <2>1
<1>4. k = KeptOf(a, b, q)
  BY DEF KeptOf, x, xb
<1> HIDE DEF k
<1>5. Len(a) \in Nat /\ Len(b) \in Nat /\ Len(q) \in Nat /\ DOMAIN k = 1 .. Len(k)
  BY <1>3, Places
<1>6. ASSUME NEW i \in 1 .. Len(a) + Len(b) + Len(q)
      PROVE  k[i] = IF i <= Len(a) THEN a[i].line
                    ELSE IF i <= Len(a) + Len(b) THEN b[i - Len(a)]
                         ELSE q[i - (Len(a) + Len(b))]
  <2>1. CASE i <= Len(a)
    <3>1. i \in 1 .. Len(a) /\ i \in 1 .. Len(a) + Len(b) /\ i <= Len(a) + Len(b)
      BY <1>5, <2>1
    <3> QED
      BY <1>1, <1>2, <1>3, <2>1, <3>1
  <2>2. CASE ~ (i <= Len(a)) /\ i <= Len(a) + Len(b)
    <3>1. i \in 1 .. Len(a) + Len(b)
      BY <1>5, <2>2
    <3> QED
      BY <1>2, <1>3, <2>2, <3>1
  <2>3. CASE ~ (i <= Len(a)) /\ ~ (i <= Len(a) + Len(b))
    BY <1>3, <2>3
  <2> QED
    BY <2>1, <2>2, <2>3, <1>5
<1> QED
  BY <1>3, <1>4, <1>5, <1>6

\* Heads and tails of the queue.
LEMMA Taken ==
  ASSUME NEW q \in Seq(Message), q # <<>>
  PROVE  /\ Head(q) \in Message /\ Tail(q) \in Seq(Message)
         /\ Len(q) \in Nat /\ Len(q) > 0 /\ Len(Tail(q)) = Len(q) - 1
         /\ q[1] = Head(q) /\ \A i \in 1 .. Len(q) - 1 : Tail(q)[i] = q[i + 1]
<1>1. Len(q) \in Nat /\ Len(q) > 0
  BY EmptySeq, LenProperties
<1> QED
  BY <1>1, HeadTailProperties

\* A message that is printed stays where it was in what is kept.
LEMMA PrintedStays ==
  ASSUME NEW a \in Seq(Entry), NEW b \in Seq(Message), NEW q \in Seq(Message), q # <<>>
  PROVE  KeptOf(a, Append(b, Head(q)), Tail(q)) = KeptOf(a, b, q)
<1> DEFINE b2 == Append(b, Head(q))
           q2 == Tail(q)
<1>1. /\ q2 \in Seq(Message) /\ Len(q) \in Nat /\ Len(q) > 0 /\ Len(q2) = Len(q) - 1
      /\ q[1] = Head(q) /\ \A i \in 1 .. Len(q) - 1 : q2[i] = q[i + 1]
      /\ Head(q) \in Message
  BY Taken
<1>2. /\ b2 \in Seq(Message) /\ Len(b2) = Len(b) + 1
      /\ \A i \in 1 .. Len(b) : b2[i] = b[i]
      /\ b2[Len(b) + 1] = q[1]
  BY <1>1, AppendProperties
<1>3. Len(a) \in Nat /\ Len(b) \in Nat
  BY Places
<1> DEFINE k == KeptOf(a, b, q)
           k2 == KeptOf(a, b2, q2)
           n == Len(a) + Len(b) + Len(q)
<1> HIDE DEF b2, q2
<1>4. /\ k \in Seq(Message) /\ Len(k) = n
      /\ \A i \in 1 .. n : k[i] = IF i <= Len(a) THEN a[i].line
                                  ELSE IF i <= Len(a) + Len(b) THEN b[i - Len(a)]
                                       ELSE q[i - (Len(a) + Len(b))]
  BY KeptParts
<1>5. /\ k2 \in Seq(Message) /\ Len(k2) = n
      /\ \A i \in 1 .. n : k2[i] = IF i <= Len(a) THEN a[i].line
                                   ELSE IF i <= Len(a) + Len(b) + 1 THEN b2[i - Len(a)]
                                        ELSE q2[i - (Len(a) + Len(b) + 1)]
  <2>1. Len(a) + Len(b2) = Len(a) + Len(b) + 1 /\ Len(a) + Len(b2) + Len(q2) = n
    BY <1>1, <1>2, <1>3
  <2>2. /\ k2 \in Seq(Message) /\ Len(k2) = Len(a) + Len(b2) + Len(q2)
        /\ \A i \in 1 .. Len(a) + Len(b2) + Len(q2) :
             k2[i] = IF i <= Len(a) THEN a[i].line
                     ELSE IF i <= Len(a) + Len(b2) THEN b2[i - Len(a)]
                          ELSE q2[i - (Len(a) + Len(b2))]
    BY <1>1, <1>2, KeptParts
  <2> HIDE DEF k2, n
  <2> QED
    BY <2>1, <2>2
<1> HIDE DEF k, k2
<1>6. ASSUME NEW i \in 1 .. n PROVE k2[i] = k[i]
  <2>0. i \in Int
    BY <1>6
  <2>1. CASE i <= Len(a)
    BY <1>4, <1>5, <2>1
  <2>2. CASE ~ (i <= Len(a)) /\ i <= Len(a) + Len(b)
    <3>1. i - Len(a) \in 1 .. Len(b) /\ i <= Len(a) + Len(b) + 1
      BY <1>3, <2>0, <2>2
    <3> QED
      BY <1>2, <1>4, <1>5, <2>2, <3>1
  <2>3. CASE i = Len(a) + Len(b) + 1
    <3>1. /\ ~ (i <= Len(a)) /\ ~ (i <= Len(a) + Len(b)) /\ i <= Len(a) + Len(b) + 1
          /\ i - Len(a) = Len(b) + 1 /\ i - (Len(a) + Len(b)) = 1
      BY <1>3, <2>3
    <3> QED
      BY <1>2, <1>4, <1>5, <3>1
  <2>4. CASE i > Len(a) + Len(b) + 1
    <3>1. /\ ~ (i <= Len(a)) /\ ~ (i <= Len(a) + Len(b)) /\ ~ (i <= Len(a) + Len(b) + 1)
          /\ i - (Len(a) + Len(b) + 1) \in 1 .. Len(q) - 1
          /\ (i - (Len(a) + Len(b) + 1)) + 1 = i - (Len(a) + Len(b))
      BY <1>1, <1>3, <2>0, <2>4
    <3> QED
      BY <1>1, <1>4, <1>5, <3>1
  <2> QED
    BY <1>3, <2>0, <2>1, <2>2, <2>3, <2>4
<1>7. k2 = k
  BY <1>4, <1>5, <1>6, SeqEqual
<1> QED
  BY <1>7 DEF k, k2, b2, q2

\* A batch that is written stays there too, and is of the run that writes it.
LEMMA BatchStays ==
  ASSUME NEW a \in Seq(Entry), NEW b \in Seq(Message), NEW q \in Seq(Message),
         NEW r \in 1 .. MaxRuns
  PROVE  LET a2 == a \o [i \in DOMAIN b |-> [line |-> b[i], run |-> r]]
         IN  /\ KeptOf(a2, <<>>, q) = KeptOf(a, b, q)
             /\ \A n \in Nat : n >= Len(a) + Len(b) => Mine(a2, r, n) = Mine(a, r, n)
<1> DEFINE e == [i \in DOMAIN b |-> [line |-> b[i], run |-> r]]
           a2 == a \o e
<1>1. Len(a) \in Nat /\ Len(b) \in Nat /\ Len(q) \in Nat
  BY Places
<1>2. /\ e \in Seq(Entry) /\ Len(e) = Len(b)
      /\ \A i \in 1 .. Len(b) : e[i] = [line |-> b[i], run |-> r]
  <2>1. DOMAIN b = 1 .. Len(b) /\ \A i \in DOMAIN b : b[i] \in Message
    BY Places
  <2>2. e \in [1 .. Len(b) -> Entry]
    BY <2>1 DEF Entry
  <2>3. e \in Seq(Entry)
    BY <1>1, <2>2, IsASeq
  <2> QED
    BY <1>1, <2>1, <2>2, <2>3
<1> HIDE DEF e
<1>3. /\ a2 \in Seq(Entry) /\ Len(a2) = Len(a) + Len(b)
      /\ \A i \in 1 .. Len(a) + Len(b) : a2[i] = IF i <= Len(a) THEN a[i] ELSE e[i - Len(a)]
  <2>0. e \in Seq(Entry)
    BY <1>2
  <2>1. /\ a2 \in Seq(Entry) /\ Len(a2) = Len(a) + Len(e)
        /\ \A i \in 1 .. Len(a) + Len(e) : a2[i] = IF i <= Len(a) THEN a[i] ELSE e[i - Len(a)]
    BY <2>0, ConcatProperties
  <2> HIDE DEF a2
  <2> QED
    BY <1>2, <2>1
<1> HIDE DEF a2
<1>4. \A i \in 1 .. Len(a) + Len(b) :
        \/ i <= Len(a) /\ a2[i] = a[i]
        \/ i > Len(a) /\ a2[i].line = b[i - Len(a)] /\ a2[i].run = r
  <2>1. SUFFICES ASSUME NEW i \in 1 .. Len(a) + Len(b), ~ (i <= Len(a))
                 PROVE  i > Len(a) /\ a2[i].line = b[i - Len(a)] /\ a2[i].run = r
    BY <1>3
  <2>2. i - Len(a) \in 1 .. Len(b) /\ i > Len(a)
    BY <1>1, <2>1
  <2>3. a2[i] = [line |-> b[i - Len(a)], run |-> r]
    BY <1>2, <1>3, <2>1, <2>2
  <2> QED
    BY <2>2, <2>3
<1> DEFINE k == KeptOf(a, b, q)
           k2 == KeptOf(a2, <<>>, q)
           l == Len(a) + Len(b) + Len(q)
<1>5. /\ k \in Seq(Message) /\ Len(k) = l
      /\ \A i \in 1 .. l : k[i] = IF i <= Len(a) THEN a[i].line
                                  ELSE IF i <= Len(a) + Len(b) THEN b[i - Len(a)]
                                       ELSE q[i - (Len(a) + Len(b))]
  BY KeptParts
<1>6. /\ k2 \in Seq(Message) /\ Len(k2) = l
      /\ \A i \in 1 .. l : k2[i] = IF i <= Len(a) + Len(b) THEN a2[i].line
                                   ELSE q[i - (Len(a) + Len(b))]
  <2> DEFINE none == <<>>
  <2>1. none \in Seq(Message) /\ Len(none) = 0
    BY Empty
  <2> HIDE DEF none
  <2> DEFINE m == Len(a2)
             k3 == KeptOf(a2, none, q)
  <2>2. /\ k3 \in Seq(Message) /\ Len(k3) = m + Len(none) + Len(q)
        /\ \A i \in 1 .. m + Len(none) + Len(q) :
             k3[i] = IF i <= m THEN a2[i].line
                     ELSE IF i <= m + Len(none) THEN none[i - m]
                          ELSE q[i - (m + Len(none))]
    BY <1>3, <2>1, KeptParts
  <2>3. m = Len(a) + Len(b) /\ m + Len(none) = m /\ m + Len(none) + Len(q) = l
    BY <1>1, <1>3, <2>1
  <2> HIDE DEF m, k3, l
  <2>4. /\ k3 \in Seq(Message) /\ Len(k3) = l
        /\ \A i \in 1 .. l : k3[i] = IF i <= m THEN a2[i].line ELSE q[i - m]
    BY <2>2, <2>3
  <2> QED
    BY <2>3, <2>4 DEF k3, none
<1> HIDE DEF k, k2
<1>7. ASSUME NEW i \in 1 .. l PROVE k2[i] = k[i]
  <2>1. CASE i <= Len(a) + Len(b)
    <3>1. i \in 1 .. Len(a) + Len(b)
      BY <1>1, <2>1
    <3>2. k2[i] = a2[i].line
      BY <1>6, <2>1
    <3>3. CASE i <= Len(a)
      <4>1. ~ (i > Len(a))
        BY <1>1, <3>3
      <4>2. a2[i] = a[i]
        BY <1>4, <3>1, <4>1
      <4>3. k[i] = a[i].line
        BY <1>5, <3>3
      <4> QED
        BY <3>2, <4>2, <4>3
    <3>4. CASE ~ (i <= Len(a))
      BY <1>4, <1>5, <2>1, <3>1, <3>2, <3>4
    <3> QED
      BY <3>3, <3>4
  <2>2. CASE ~ (i <= Len(a) + Len(b))
    <3>1. ~ (i <= Len(a))
      BY <1>1, <2>2
    <3> QED
      BY <1>5, <1>6, <2>2, <3>1
  <2> QED
    BY <2>1, <2>2
<1>8. k2 = k
  BY <1>5, <1>6, <1>7, SeqEqual
<1>9. ASSUME NEW n \in Nat, n >= Len(a) + Len(b) PROVE Mine(a2, r, n) = Mine(a, r, n)
  <2>1. ASSUME NEW i \in 1 .. n
        PROVE  (i > Len(a2) \/ a2[i].run = r) <=> (i > Len(a) \/ a[i].run = r)
    <3>1. CASE i <= Len(a)
      <4>1. i \in 1 .. Len(a) + Len(b) /\ ~ (i > Len(a)) /\ ~ (i > Len(a) + Len(b))
        BY <1>1, <3>1
      <4> QED
        BY <1>3, <1>4, <4>1
    <3>2. CASE i > Len(a) /\ i <= Len(a) + Len(b)
      <4>1. i \in 1 .. Len(a) + Len(b) /\ ~ (i <= Len(a))
        BY <1>1, <3>2
      <4> QED
        BY <1>4, <3>2, <4>1
    <3>3. CASE i > Len(a) + Len(b)
      BY <1>1, <1>3, <3>3
    <3> QED
      BY <1>1, <3>1, <3>2, <3>3
  <2> QED
    BY <2>1 DEF Mine
<1> QED
  BY <1>8, <1>9 DEF k, k2, a2, e

\* A message that enters the queue is the last one kept.
LEMMA AcceptedLast ==
  ASSUME NEW a \in Seq(Entry), NEW b \in Seq(Message), NEW q \in Seq(Message),
         NEW m \in Message
  PROVE  LET k  == KeptOf(a, b, q)
             k2 == KeptOf(a, b, Append(q, m))
         IN  /\ Len(k2) = Len(k) + 1 /\ k2[Len(k) + 1] = m
             /\ \A i \in 1 .. Len(k) : k2[i] = k[i]
<1> DEFINE q2 == Append(q, m)
           k == KeptOf(a, b, q)
           k2 == KeptOf(a, b, q2)
           l == Len(a) + Len(b)
<1>1. Len(a) \in Nat /\ Len(b) \in Nat /\ Len(q) \in Nat
  BY Places
<1>2. /\ q2 \in Seq(Message) /\ Len(q2) = Len(q) + 1
      /\ \A i \in 1 .. Len(q) : q2[i] = q[i]
      /\ q2[Len(q) + 1] = m
  BY AppendProperties
<1> HIDE DEF q2
<1>3. /\ Len(k) = l + Len(q)
      /\ \A i \in 1 .. l + Len(q) : k[i] = IF i <= Len(a) THEN a[i].line
                                           ELSE IF i <= l THEN b[i - Len(a)] ELSE q[i - l]
  BY KeptParts
<1>4. /\ Len(k2) = l + Len(q2)
      /\ \A i \in 1 .. l + Len(q2) : k2[i] = IF i <= Len(a) THEN a[i].line
                                             ELSE IF i <= l THEN b[i - Len(a)] ELSE q2[i - l]
  BY <1>2, KeptParts
<1>5. l \in Nat /\ l >= Len(a) /\ l + Len(q2) = l + Len(q) + 1
  BY <1>1, <1>2
<1> HIDE DEF k, k2, l
<1>6. ASSUME NEW i \in 1 .. l + Len(q) PROVE k2[i] = k[i]
  <2>1. i \in 1 .. l + Len(q2)
    BY <1>1, <1>5, <1>6
  <2>2. CASE i <= l
    BY <1>3, <1>4, <2>1, <2>2
  <2>3. CASE ~ (i <= l)
    <3>1. i - l \in 1 .. Len(q) /\ ~ (i <= Len(a))
      BY <1>1, <1>5, <2>3
    <3> QED
      BY <1>2, <1>3, <1>4, <2>1, <2>3, <3>1
  <2> QED
    BY <2>2, <2>3
<1>7. k2[l + Len(q) + 1] = m
  <2> DEFINE i == l + Len(q) + 1
  <2>1. /\ i \in 1 .. l + Len(q2) /\ ~ (i <= Len(a)) /\ ~ (i <= l)
        /\ i - l = Len(q) + 1
    BY <1>1, <1>5
  <2> HIDE DEF i
  <2>2. k2[i] = m
    BY <1>2, <1>4, <2>1
  <2> QED
    BY <2>2 DEF i
<1> QED
  BY <1>2, <1>3, <1>4, <1>5, <1>6, <1>7 DEF k, k2, q2

\* A message that is missed is the first after what is printed.
LEMMA MissedGone ==
  ASSUME NEW a \in Seq(Entry), NEW b \in Seq(Message), NEW q \in Seq(Message), q # <<>>
  PROVE  LET k  == KeptOf(a, b, q)
             k2 == KeptOf(a, b, Tail(q))
             p  == Len(a) + Len(b) + 1
         IN  /\ Len(k2) = Len(k) - 1 /\ p \in 1 .. Len(k) /\ k[p] = Head(q)
             /\ \A i \in 1 .. Len(k) - 1 : k2[i] = k[IF i < p THEN i ELSE i + 1]
<1> DEFINE q2 == Tail(q)
           k == KeptOf(a, b, q)
           k2 == KeptOf(a, b, q2)
           l == Len(a) + Len(b)
<1>1. Len(a) \in Nat /\ Len(b) \in Nat
  BY Places
<1>2. /\ q2 \in Seq(Message) /\ Len(q) \in Nat /\ Len(q) > 0 /\ Len(q2) = Len(q) - 1
      /\ q[1] = Head(q) /\ \A i \in 1 .. Len(q) - 1 : q2[i] = q[i + 1]
  BY Taken
<1> HIDE DEF q2
<1>3. /\ Len(k) = l + Len(q)
      /\ \A i \in 1 .. l + Len(q) : k[i] = IF i <= Len(a) THEN a[i].line
                                           ELSE IF i <= l THEN b[i - Len(a)] ELSE q[i - l]
  BY KeptParts
<1>4. /\ Len(k2) = l + Len(q2)
      /\ \A i \in 1 .. l + Len(q2) : k2[i] = IF i <= Len(a) THEN a[i].line
                                             ELSE IF i <= l THEN b[i - Len(a)] ELSE q2[i - l]
  BY <1>2, KeptParts
<1>5. l \in Nat /\ l >= Len(a) /\ l + Len(q2) = (l + Len(q)) - 1
  BY <1>1, <1>2
<1> HIDE DEF k, k2
<1>6. /\ l + 1 \in 1 .. l + Len(q) /\ k[l + 1] = Head(q)
  <2>1. l + 1 \in 1 .. l + Len(q) /\ ~ (l + 1 <= Len(a)) /\ ~ (l + 1 <= l) /\ (l + 1) - l = 1
    BY <1>1, <1>2
  <2> HIDE DEF l
  <2> QED
    BY <1>2, <1>3, <2>1
<1> HIDE DEF l
<1>7. ASSUME NEW i \in 1 .. (l + Len(q)) - 1
      PROVE  k2[i] = k[IF i < l + 1 THEN i ELSE i + 1]
  <2>1. i \in Nat /\ i >= 1 /\ i \in 1 .. l + Len(q2) /\ i \in 1 .. l + Len(q)
        /\ i + 1 \in 1 .. l + Len(q)
    BY <1>2, <1>5, <1>7
  <2>2. CASE i <= l
    <3>1. i < l + 1
      BY <1>5, <2>1, <2>2
    <3> QED
      BY <1>3, <1>4, <2>1, <2>2, <3>1
  <2>3. CASE ~ (i <= l)
    <3>1. /\ ~ (i < l + 1) /\ ~ (i <= Len(a)) /\ ~ (i + 1 <= Len(a)) /\ ~ (i + 1 <= l)
          /\ i - l \in 1 .. Len(q) - 1 /\ (i + 1) - l = (i - l) + 1
      BY <1>1, <1>2, <1>5, <2>1, <2>3, <1>7
    <3>2. k2[i] = q2[i - l] /\ k[i + 1] = q[(i + 1) - l]
      BY <1>3, <1>4, <2>1, <2>3, <3>1
    <3> QED
      BY <1>2, <3>1, <3>2
  <2> QED
    BY <2>2, <2>3
<1> QED
  BY <1>2, <1>3, <1>4, <1>5, <1>6, <1>7 DEF k, k2, q2, l

LEMMA OrderedGrows ==
  ASSUME NEW s \in Seq(Message), NEW m \in Message, NEW gone, m \notin gone,
         NEW a \in Seq(Entry), NEW r, NEW n \in Nat, n >= Len(a),
         NEW k, NEW k2, k2[n + 1] = m, \A i \in 1 .. n : k2[i] = k[i],
         Ordered(k, Mine(a, r, n), s, gone)
  PROVE  Ordered(k2, Mine(a, r, n + 1), Append(s, m), gone)
<1> DEFINE t == Append(s, m)
           mine == Mine(a, r, n)
           mine2 == Mine(a, r, n + 1)
<1>1. /\ t \in Seq(Message) /\ Len(t) = Len(s) + 1
      /\ \A i \in 1 .. Len(s) : t[i] = s[i]
      /\ t[Len(s) + 1] = m
  BY AppendProperties
<1>2. /\ DOMAIN t = 1 .. Len(s) + 1 /\ DOMAIN s = 1 .. Len(s) /\ Len(s) \in Nat
      /\ Len(a) \in Nat
  BY <1>1, Places
<1> HIDE DEF t
<1>3. /\ \A i : i \in mine2 <=> i \in mine \/ i = n + 1
      /\ \A i \in mine : i \in 1 .. n
      /\ \A i \in mine : k2[i] = k[i]
  <2>1. \A i \in mine : i \in 1 .. n
    BY DEF Mine
  <2>2. n + 1 \in mine2 /\ \A i \in mine : i \in mine2
    BY <1>2 DEF Mine
  <2>3. \A i \in mine2 : i \in mine \/ i = n + 1
    BY <1>2 DEF Mine
  <2> QED
    BY <2>1, <2>2, <2>3
<1> HIDE DEF mine, mine2
<1>4. /\ {k[i] : i \in mine} = Holds(s) \ gone
      /\ \A i, j \in mine : i < j => BeforeIn(s, k[i], k[j])
  BY DEF Ordered, mine
<1>5. Holds(t) = Holds(s) \cup {m}
  <2>1. \A i \in DOMAIN t : t[i] \in Holds(s) \cup {m}
    BY <1>1, <1>2 DEF Holds
  <2>2. \A i \in DOMAIN s : i \in DOMAIN t /\ t[i] = s[i]
    BY <1>1, <1>2
  <2>3. Len(s) + 1 \in DOMAIN t
    BY <1>2
  <2> QED
    BY <1>1, <2>1, <2>2, <2>3 DEF Holds
<1>6. {k2[i] : i \in mine2} = Holds(t) \ gone
  <2>1. {k2[i] : i \in mine2} = {k[i] : i \in mine} \cup {m}
    BY <1>3
  <2> QED
    BY <1>4, <1>5, <2>1
<1>7. ASSUME NEW i \in mine2, NEW j \in mine2, i < j
      PROVE  BeforeIn(t, k2[i], k2[j])
  <2>1. i \in mine /\ (j \in mine \/ j = n + 1)
    BY <1>3, <1>7
  <2>2. CASE j \in mine
    <3>1. BeforeIn(s, k2[i], k2[j])
      BY <1>3, <1>4, <1>7, <2>1, <2>2
    <3> QED
      BY <1>1, <1>2, <3>1 DEF BeforeIn
  <2>3. CASE j = n + 1
    <3>1. k2[j] = m /\ k2[i] \in Holds(s)
      BY <1>3, <1>4, <2>1, <2>3
    <3>2. PICK x \in DOMAIN s : s[x] = k2[i]
      BY <3>1 DEF Holds
    <3>3. x \in DOMAIN t /\ Len(s) + 1 \in DOMAIN t /\ x < Len(s) + 1
          /\ t[x] = k2[i] /\ t[Len(s) + 1] = k2[j]
      BY <1>1, <1>2, <3>1, <3>2
    <3> QED
      BY <3>3 DEF BeforeIn
  <2> QED
    BY <2>1, <2>2, <2>3
<1> QED
  BY <1>6, <1>7 DEF Ordered, t, mine2

LEMMA OrderedShrinks ==
  ASSUME NEW s \in Seq(Message), Once(s), NEW gone,
         NEW a \in Seq(Entry), NEW r, NEW n \in Nat,
         NEW p \in 1 .. n, p > Len(a), NEW k, NEW k2,
         \A i \in 1 .. n - 1 : k2[i] = k[IF i < p THEN i ELSE i + 1],
         Ordered(k, Mine(a, r, n), s, gone)
  PROVE  Ordered(k2, Mine(a, r, n - 1), s, gone \cup {k[p]})
<1> DEFINE from(i) == IF i < p THEN i ELSE i + 1
           mine == Mine(a, r, n)
           mine2 == Mine(a, r, n - 1)
<1>1. Len(a) \in Nat /\ DOMAIN s = 1 .. Len(s) /\ Len(s) \in Nat
  BY Places
<1>2. ASSUME NEW i \in mine2
      PROVE  from(i) \in mine /\ from(i) # p /\ k2[i] = k[from(i)] /\ i \in Int
  <2>1. i \in 1 .. n - 1 /\ (i > Len(a) \/ a[i].run = r)
    BY <1>2 DEF Mine
  <2>2. CASE i < p
    BY <1>1, <2>1, <2>2 DEF Mine
  <2>3. CASE ~ (i < p)
    BY <1>1, <2>1, <2>3 DEF Mine
  <2> QED
    BY <2>2, <2>3
<1>3. ASSUME NEW j \in mine, j # p
      PROVE  \E i \in mine2 : from(i) = j
  <2>1. j \in 1 .. n /\ (j > Len(a) \/ a[j].run = r)
    BY <1>3 DEF Mine
  <2>2. CASE j < p
    BY <1>1, <2>1, <2>2 DEF Mine
  <2>3. CASE ~ (j < p)
    <3>1. j - 1 \in mine2 /\ from(j - 1) = j
      BY <1>1, <1>3, <2>1, <2>3 DEF Mine
    <3> QED
      BY <3>1
  <2> QED
    BY <2>2, <2>3
<1>4. p \in mine /\ \A i \in mine : i \in Int
  BY <1>1 DEF Mine
<1>5. \A i, j \in mine2 : i < j => from(i) < from(j)
  BY <1>2
<1> HIDE DEF mine, mine2
<1>6. /\ {k[i] : i \in mine} = Holds(s) \ gone
      /\ \A i, j \in mine : i < j => BeforeIn(s, k[i], k[j])
  BY DEF Ordered, mine
<1>7. ASSUME NEW j \in mine, j # p PROVE k[j] # k[p]
  <2>1. j \in Int /\ p \in Int /\ (j < p \/ p < j)
    BY <1>4, <1>7
  <2>2. BeforeIn(s, k[j], k[p]) \/ BeforeIn(s, k[p], k[j])
    BY <1>4, <1>6, <2>1
  <2> QED
    BY <1>1, <2>2 DEF BeforeIn, Once
<1> HIDE DEF from
<1>8. {k2[i] : i \in mine2} = {k[j] : j \in mine} \ {k[p]}
  <2>1. \A i \in mine2 : k2[i] \in {k[j] : j \in mine} \ {k[p]}
    BY <1>2, <1>7
  <2>2. ASSUME NEW j \in mine, k[j] # k[p] PROVE k[j] \in {k2[i] : i \in mine2}
    BY <1>2, <1>3, <2>2
  <2> QED
    BY <2>1, <2>2
<1>9. {k2[i] : i \in mine2} = Holds(s) \ (gone \cup {k[p]})
  BY <1>6, <1>8
<1>10. \A i, j \in mine2 : i < j => BeforeIn(s, k2[i], k2[j])
  BY <1>2, <1>5, <1>6
<1> QED
  BY <1>9, <1>10 DEF Ordered, mine2

\* A message enters the queue once; no line is of a later run, and before the
\* loop of the logger none is of this one.
PastInv ==
  /\ Once(accepted)
  /\ \A i \in DOMAIN accepted : said[accepted[i]] # 0
  /\ \A m \in missed : said[m] # 0
  /\ \A i \in DOMAIN app_log : app_log[i].run <= run
  /\ pc \in {"opening", "flushing"} =>
       buffered = <<>> /\ \A i \in DOMAIN app_log : app_log[i].run < run

KeptNow == KeptOf(app_log, buffered, queue)
OrderInv ==
  pc \in Live =>
    Ordered(KeptNow, Mine(app_log, run, Len(KeptNow)), accepted, missed)

LEMMA Sequences ==
  ASSUME TypeOK
  PROVE  /\ app_log \in Seq(Entry) /\ run \in 1 .. MaxRuns /\ run \in Nat /\ run # 0
         /\ queue \in Seq(Message) /\ buffered \in Seq(Message)
         /\ accepted \in Seq(Message) /\ missed \subseteq Message
BY DEF TypeOK, Entry

LEMMA KeptSame ==
  ASSUME TypeOK, OrderInv
  PROVE  KeptInOrder
<1>1. /\ KeptNow = Kept /\ DOMAIN Kept = 1 .. Len(Kept)
  BY Sequences, KeptParts, Places DEF KeptNow, KeptOf, Kept
<1>2. Mine(app_log, run, Len(KeptNow)) = OfThisRun
  BY <1>1 DEF Mine, OfThisRun
<1>3. \A m, n : BeforeIn(accepted, m, n) <=> Before(m, n)
  BY DEF BeforeIn, Before
<1> QED
  BY <1>1, <1>2, <1>3 DEF OrderInv, Ordered, Holds, KeptInOrder

LEMMA PastStep == TypeOK /\ FreshInv /\ PastInv /\ [Next]_vars => PastInv'
<1> SUFFICES ASSUME TypeOK, FreshInv, PastInv, [Next]_vars PROVE PastInv'
  OBVIOUS
<1>1. CASE Opened
  BY <1>1 DEF Opened, PastInv, fileVars
<1>2. CASE Flush
  <2>1. /\ said' = said /\ missed' = missed /\ app_log' = app_log /\ run' = run
        /\ buffered' = buffered /\ pc = "flushing" /\ pc' \in {"flushing", "looping"}
        /\ accepted' = accepted \/ accepted' = <<>>
    BY <1>2 DEF Flush, fileVars
  <2>2. Once(<<>>) /\ DOMAIN <<>> = {}
    BY Empty DEF Once
  <2> QED
    BY <2>1, <2>2 DEF PastInv
<1>3. CASE Loop
  BY <1>3 DEF Loop, PastInv, fileVars
<1>4. CASE Wake
  BY <1>4 DEF Wake, PastInv
<1>5. CASE disposeLogger
  BY <1>5 DEF disposeLogger, PastInv, fileVars
<1>6. CASE Signal
  BY <1>6 DEF Signal, PastInv, fileVars
<1>7. CASE UNCHANGED vars
  BY <1>7 DEF vars, fileVars, PastInv
<1>8. ASSUME said' = said, accepted' = accepted, missed' = missed, run' = run,
             pc' \notin {"opening", "flushing"},
             NEW text \in Seq(Message),
             app_log' = app_log \o [i \in DOMAIN text |-> [line |-> text[i], run |-> run]]
      PROVE  PastInv'
  <2>1. run \in Nat
    BY Sequences
  <2>2. ASSUME NEW i \in DOMAIN app_log' PROVE app_log'[i].run <= run
    <3>1. \/ i \in DOMAIN app_log /\ app_log'[i] = app_log[i]
          \/ \E j \in DOMAIN text : app_log'[i] = [line |-> text[j], run |-> run]
      BY <1>8, Written
    <3>2. CASE i \in DOMAIN app_log /\ app_log'[i] = app_log[i]
      BY <3>2 DEF PastInv
    <3>3. CASE \E j \in DOMAIN text : app_log'[i] = [line |-> text[j], run |-> run]
      BY <2>1, <3>3
    <3> QED
      BY <3>1, <3>2, <3>3
  <2> QED
    BY <1>8, <2>2 DEF PastInv
<1>9. CASE Receive
  <2>1. /\ said' = said /\ accepted' = accepted /\ app_log' = app_log /\ run' = run
        /\ pc = "draining" /\ pc' = pc /\ queue # <<>>
        /\ missed' \in {missed, missed \cup {Head(queue)}}
    BY <1>9 DEF Receive
  <2>2. said[Head(queue)] # 0
    <3>1. queue[1] = Head(queue) /\ 1 \in DOMAIN queue
      BY <2>1, Sequences, Taken, Places
    <3> QED
      BY <2>1, <3>1, Sequences DEF FreshInv, Live
  <2>3. \A m \in missed' : said[m] # 0
    BY <2>1, <2>2 DEF PastInv
  <2> QED
    BY <2>1, <2>3 DEF PastInv
<1>10. CASE Drained
  <2>1. /\ said' = said /\ accepted' = accepted /\ missed' = missed /\ run' = run
        /\ pc' \notin {"opening", "flushing"}
    BY <1>10 DEF Drained
  <2>2. CASE log = "open"
    BY <1>8, <1>10, <2>1, <2>2, Sequences DEF Drained
  <2>3. CASE log # "open"
    BY <1>10, <2>1, <2>3 DEF Drained, PastInv
  <2> QED
    BY <2>2, <2>3
<1>11. ASSUME NEW text \in {buffered, <<>>}, Ended(text) PROVE PastInv'
  <2>1. text \in Seq(Message)
    BY Empty, Sequences
  <2>2. /\ said' = said /\ accepted' = accepted /\ missed' = missed /\ run' = run
        /\ pc' \notin {"opening", "flushing"}
        /\ app_log' = app_log \o [i \in DOMAIN text |-> [line |-> text[i], run |-> run]]
    BY <1>11 DEF Ended
  <2> QED
    BY <1>8, <2>1, <2>2
<1>12. CASE Restart
  <2>1. app_log \in Seq(Entry) /\ run \in Nat
    BY Sequences
  <2>2. \A i \in DOMAIN app_log : app_log[i].run \in Nat
    <3>1. \A i \in DOMAIN app_log : app_log[i] \in Entry
      BY <2>1, Places
    <3> QED
      BY <3>1 DEF Entry
  <2> QED
    BY <1>12, <2>1, <2>2 DEF Restart, PastInv
<1>13. ASSUME NEW m \in Message, Error(m) PROVE PastInv'
  <2>1. /\ said[m] = 0 /\ run' = run /\ missed' = missed /\ app_log' = app_log
        /\ buffered' = buffered /\ pc' = pc /\ said' = [said EXCEPT ![m] = run]
        /\ accepted' \in {accepted, Append(accepted, m)}
    BY <1>13 DEF Error, fileVars
  <2>2. \A n \in Message : said[n] # 0 => said'[n] # 0
    BY <1>13, SaidStays
  <2>3. said'[m] # 0
    BY <2>1, Sequences DEF TypeOK
  <2>4. \A n \in missed : said'[n] # 0
    BY <2>2, Sequences DEF PastInv
  <2>5. \A i \in DOMAIN accepted : accepted[i] \in Message /\ said[accepted[i]] # 0
    BY Sequences, Places DEF PastInv
  <2>6. Once(accepted') /\ \A i \in DOMAIN accepted' : said'[accepted'[i]] # 0
    <3>1. CASE accepted' = accepted
      BY <2>2, <2>5, <3>1 DEF PastInv
    <3>2. CASE accepted' = Append(accepted, m)
      <4> DEFINE t == Append(accepted, m)
      <4>0. accepted \in Seq(Message)
        BY Sequences
      <4>1. /\ t \in Seq(Message) /\ Len(t) = Len(accepted) + 1
            /\ \A i \in 1 .. Len(accepted) : t[i] = accepted[i]
            /\ t[Len(accepted) + 1] = m
        BY <4>0, AppendProperties
      <4>2. /\ DOMAIN t = 1 .. Len(accepted) + 1
            /\ DOMAIN accepted = 1 .. Len(accepted) /\ Len(accepted) \in Nat
        BY <4>0, <4>1, Places
      <4>3. accepted' = t
        BY <3>2
      <4> HIDE DEF t
      <4>4. \A i \in DOMAIN t : \/ i \in DOMAIN accepted /\ t[i] = accepted[i]
                                \/ i = Len(accepted) + 1 /\ t[i] = m
        BY <4>1, <4>2
      <4>5. \A i \in DOMAIN accepted : accepted[i] # m
        BY <2>1, <2>5
      <4>6. Once(t)
        BY <4>4, <4>5 DEF Once, PastInv
      <4>7. \A i \in DOMAIN t : said'[t[i]] # 0
        BY <2>2, <2>3, <2>5, <4>4
      <4> QED
        BY <4>3, <4>6, <4>7
    <3> QED
      BY <2>1, <3>1, <3>2
  <2> QED
    BY <2>1, <2>4, <2>6 DEF PastInv
<1> QED
  BY NextSplit, <1>1, <1>2, <1>3, <1>4, <1>5, <1>6, <1>7, <1>9, <1>10, <1>11,
     <1>12, <1>13

LEMMA OrderStep ==
  TypeOK /\ PastInv /\ OrderInv /\ [Next]_vars => OrderInv'
<1> SUFFICES ASSUME TypeOK, PastInv, OrderInv, [Next]_vars, pc' \in Live
             PROVE  Ordered(KeptNow', Mine(app_log', run', Len(KeptNow')),
                            accepted', missed')
  BY DEF OrderInv
<1> DEFINE a == app_log
           b == buffered
           q == queue
           k == KeptNow
<1>1. /\ a \in Seq(Entry) /\ b \in Seq(Message) /\ q \in Seq(Message)
      /\ accepted \in Seq(Message) /\ run \in 1 .. MaxRuns
  BY Sequences
<1>2. /\ k = KeptOf(a, b, q) /\ Len(k) = Len(a) + Len(b) + Len(q)
      /\ Len(a) \in Nat /\ Len(b) \in Nat /\ Len(q) \in Nat /\ Len(k) \in Nat
  <2>1. Len(a) \in Nat /\ Len(b) \in Nat /\ Len(q) \in Nat
    BY <1>1, Places
  <2>2. Len(KeptOf(a, b, q)) = Len(a) + Len(b) + Len(q)
    BY <1>1, KeptParts
  <2> QED
    BY <2>1, <2>2 DEF KeptNow
<1>3. pc \in Live => Ordered(k, Mine(a, run, Len(k)), accepted, missed)
  BY DEF OrderInv
<1>4. KeptNow' = KeptOf(app_log', buffered', queue')
  BY DEF KeptNow
\* Steps that keep what is kept.
<1>5. ASSUME pc \in Live, KeptOf(app_log', buffered', queue') = k, run' = run,
             Mine(app_log', run, Len(k)) = Mine(a, run, Len(k)),
             accepted' = accepted, missed' = missed
      PROVE  Ordered(KeptNow', Mine(app_log', run', Len(KeptNow')), accepted', missed')
  BY <1>3, <1>4, <1>5
<1>6. CASE Loop \/ Wake \/ Signal \/ UNCHANGED vars
  <2>1. /\ app_log' = a /\ buffered' = b /\ queue' = q /\ run' = run
        /\ accepted' = accepted /\ missed' = missed
    BY <1>6, Zenon DEF Loop, Wake, Signal, vars, fileVars
  <2>2. pc \in Live
    BY <1>6 DEF Loop, Wake, Signal, vars, Live, Dead
  <2> QED
    BY <1>2, <1>5, <2>1, <2>2
<1>7. CASE Opened \/ disposeLogger \/ Restart \/ \E text \in {b, <<>>} : Ended(text)
  BY <1>7 DEF Opened, disposeLogger, Restart, Ended, Live
<1>8. CASE Flush
  <2>1. /\ pc = "flushing" /\ queue = <<>> /\ queue' = queue /\ accepted' = <<>>
        /\ app_log' = a /\ buffered' = b /\ run' = run /\ missed' = missed
    BY <1>8 DEF Flush, Live, fileVars
  <2>2. b = <<>> /\ \A i \in DOMAIN a : a[i].run < run
    BY <2>1 DEF PastInv
  <2>3. KeptNow' = k /\ Len(k) = Len(a)
    BY <1>2, <1>4, <2>1, <2>2, Empty
  <2>4. Mine(a, run, Len(a)) = {}
    <3>1. SUFFICES ASSUME NEW i \in Mine(a, run, Len(a)) PROVE FALSE
      OBVIOUS
    <3>2. i \in 1 .. Len(a) /\ (i > Len(a) \/ a[i].run = run)
      BY <3>1 DEF Mine
    <3>3. i \in DOMAIN a /\ a[i].run = run /\ run \in Int
      BY <1>1, <1>2, <3>2, Places
    <3> QED
      BY <2>2, <3>3
  <2>5. Holds(<<>>) = {}
    BY Empty DEF Holds
  <2> QED
    BY <2>1, <2>3, <2>4, <2>5 DEF Ordered
<1>9. CASE Receive
  <2>1. /\ pc \in Live /\ q # <<>> /\ queue' = Tail(q) /\ app_log' = a /\ run' = run
        /\ accepted' = accepted
        /\ \/ buffered' = Append(b, Head(q)) /\ missed' = missed
           \/ buffered' = b /\ missed' = missed \cup {Head(q)}
    BY <1>9 DEF Receive, Live
  <2>2. CASE buffered' = Append(b, Head(q)) /\ missed' = missed
    <3>1. KeptOf(a, Append(b, Head(q)), Tail(q)) = k
      BY <1>1, <1>2, <2>1, PrintedStays
    <3> QED
      BY <1>5, <2>1, <2>2, <3>1
  <2>3. CASE buffered' = b /\ missed' = missed \cup {Head(q)}
    <3> DEFINE n == Len(k)
               p == Len(a) + Len(b) + 1
               k2 == KeptOf(a, b, Tail(q))
    <3>1. /\ Len(k2) = n - 1 /\ p \in 1 .. n /\ k[p] = Head(q)
          /\ \A i \in 1 .. n - 1 : k2[i] = k[IF i < p THEN i ELSE i + 1]
      BY <1>1, <1>2, <2>1, MissedGone
    <3>2. n \in Nat /\ p > Len(a)
      BY <1>2
    <3>3. Ordered(k, Mine(a, run, n), accepted, missed) /\ Once(accepted)
      BY <1>3, <2>1 DEF PastInv
    <3>4. KeptNow' = k2
      BY <1>4, <2>1, <2>3
    <3> HIDE DEF a, b, q, k, n, p, k2
    <3>5. Ordered(k2, Mine(a, run, n - 1), accepted, missed \cup {k[p]})
      BY <1>1, <3>1, <3>2, <3>3, OrderedShrinks
    <3> QED
      BY <2>1, <2>3, <3>1, <3>4, <3>5
  <2> QED
    BY <2>1, <2>2, <2>3
<1>10. CASE Drained
  <2>1. /\ pc \in Live /\ queue' = q /\ run' = run
        /\ accepted' = accepted /\ missed' = missed
    BY <1>10 DEF Drained, Live
  <2>2. CASE log = "open"
    <3>1. /\ app_log' = a \o [i \in DOMAIN b |-> [line |-> b[i], run |-> run]]
          /\ buffered' = <<>>
      BY <1>10, <2>2 DEF Drained
    <3>2. Len(k) >= Len(a) + Len(b)
      BY <1>2
    <3>3. /\ KeptOf(app_log', <<>>, q) = KeptOf(a, b, q)
          /\ Mine(app_log', run, Len(k)) = Mine(a, run, Len(k))
      BY <1>1, <1>2, <3>1, <3>2, BatchStays
    <3> QED
      BY <1>2, <1>5, <2>1, <3>1, <3>3
  <2>3. CASE log # "open"
    <3>1. app_log' = a /\ buffered' = b
      BY <1>10, <2>3 DEF Drained
    <3> QED
      BY <1>2, <1>5, <2>1, <3>1
  <2> QED
    BY <2>2, <2>3
<1>11. ASSUME NEW m \in Message, Error(m)
       PROVE  Ordered(KeptNow', Mine(app_log', run', Len(KeptNow')), accepted', missed')
  <2>1. /\ said[m] = 0 /\ run' = run /\ missed' = missed /\ app_log' = a
        /\ buffered' = b /\ pc \in Live
        /\ \/ queue' = q /\ accepted' = accepted
           \/ queue' = Append(q, m) /\ accepted' = Append(accepted, m)
    BY <1>11 DEF Error, fileVars
  <2>2. CASE queue' = q /\ accepted' = accepted
    BY <1>2, <1>5, <2>1, <2>2
  <2>3. CASE queue' = Append(q, m) /\ accepted' = Append(accepted, m)
    <3> DEFINE n == Len(k)
               k2 == KeptOf(a, b, Append(q, m))
    <3>1. Len(k2) = n + 1 /\ k2[n + 1] = m /\ \A i \in 1 .. n : k2[i] = k[i]
      <4> DEFINE k1 == KeptOf(a, b, q)
      <4>1. /\ Len(k2) = Len(k1) + 1 /\ k2[Len(k1) + 1] = m
            /\ \A i \in 1 .. Len(k1) : k2[i] = k1[i]
        BY <1>1, AcceptedLast
      <4>2. k1 = k
        BY <1>2
      <4> HIDE DEF k, k1, k2
      <4> QED
        BY <4>1, <4>2
    <3>2. n \in Nat /\ n >= Len(a) /\ m \notin missed
      BY <1>2, <2>1 DEF PastInv
    <3>3. Ordered(k, Mine(a, run, n), accepted, missed)
      BY <1>3, <2>1
    <3>4. KeptNow' = k2
      BY <1>4, <2>1, <2>3
    <3> HIDE DEF a, b, q, k, n, k2
    <3>5. Ordered(k2, Mine(a, run, n + 1), Append(accepted, m), missed)
      BY <1>1, <3>1, <3>2, <3>3, OrderedGrows
    <3> QED
      BY <2>1, <2>3, <3>1, <3>4, <3>5
  <2> QED
    BY <2>1, <2>2, <2>3
<1> QED
  BY NextSplit, <1>6, <1>7, <1>8, <1>9, <1>10, <1>11, Zenon

LEMMA OrderInit == Init => PastInv /\ OrderInv
<1> SUFFICES ASSUME Init PROVE PastInv /\ OrderInv
  OBVIOUS
<1>1. DOMAIN <<>> = {}
  BY Empty
<1> QED
  BY <1>1 DEF Init, PastInv, Once, OrderInv, Live

\* What the queue accepted reaches the file once and in order, in however many
\* batches and after however many runs, except for the messages received while
\* the file could not be opened (logger.c:61-84).
THEOREM KeptInOrderHolds == Spec => []KeptInOrder
<1> DEFINE Inv == TypeOK /\ FreshInv /\ PastInv /\ OrderInv
<1>1. Init => Inv
  BY TypeInit, FreshInit, OrderInit
<1>2. Inv /\ [Next]_vars => Inv'
  BY TypeStep, FreshStep, PastStep, OrderStep
<1>3. Inv => KeptInOrder
  BY KeptSame
<1> HIDE DEF Inv
<1> QED
  BY <1>1, <1>2, <1>3, PTL DEF Spec
=============================================================================
