-------------------------- MODULE MailClientProofs --------------------------
(***************************************************************************)
(* Theorems about MailClient, for any number of workers, domains and       *)
(* letters: a domain never has two records, the types, that a worker which *)
(* sleeps waits for all of its sockets, and that no letter ever has two    *)
(* tasks.                                                                  *)
(***************************************************************************)
EXTENDS MailClient, SequenceTheorems, FiniteSetTheorems, WellFoundedInduction, TLAPS

-----------------------------------------------------------------------------
\* Numbers and sequences.

LEMMA Least ==
  ASSUME NEW S, S \subseteq Nat, S # {}
  PROVE  \E i \in S : \A j \in S : i <= j
<1> DEFINE R == {pair \in Nat \X Nat : pair[1] < pair[2]}
<1>1. IsWellFoundedOn(R, Nat)
  BY NatLessThanWellFounded, Zenon DEF OpToRel
<1>2. PICK i \in S : \A j \in S : ~ (<<j, i>> \in R)
  BY <1>1, WFMin, Zenon
<1>3. ASSUME NEW j \in S PROVE ~ (j < i)
  BY <1>2
<1> QED
  BY <1>3

\* A sequence without its i-th element.
Without(s, i) == SubSeq(s, 1, i - 1) \o SubSeq(s, i + 1, Len(s))

LEMMA Cut ==
  ASSUME NEW S, NEW s \in Seq(S), NEW i \in DOMAIN s
  PROVE  /\ Without(s, i) \in Seq(S) /\ Len(Without(s, i)) = Len(s) - 1
         /\ \A k \in DOMAIN Without(s, i) :
              Without(s, i)[k] = s[IF k < i THEN k ELSE k + 1]
<1> DEFINE t == Without(s, i)
           left == SubSeq(s, 1, i - 1)
           right == SubSeq(s, i + 1, Len(s))
<1>1. Len(s) \in Nat /\ i \in 1 .. Len(s) /\ \A k \in 1 .. Len(s) : s[k] \in S
  BY LenProperties, ElementOfSeq
<1>2. /\ left \in Seq(S) /\ Len(left) = i - 1
      /\ \A k \in 1 .. i - 1 : left[k] = s[k]
  <2>1. \A k \in 1 .. i - 1 : s[k] \in S
    BY <1>1
  <2>2. /\ left \in Seq(S)
        /\ Len(left) = IF 1 <= i - 1 THEN (i - 1) - 1 + 1 ELSE 0
        /\ \A k \in 1 .. (i - 1) - 1 + 1 : left[k] = s[1 + k - 1]
    BY <1>1, <2>1, SubSeqProperties
  <2> QED
    BY <1>1, <2>2
<1>3. /\ right \in Seq(S) /\ Len(right) = Len(s) - i
      /\ \A k \in 1 .. Len(s) - i : right[k] = s[k + i]
  <2>1. \A k \in i + 1 .. Len(s) : s[k] \in S
    BY <1>1
  <2>2. /\ right \in Seq(S)
        /\ Len(right) = IF i + 1 <= Len(s) THEN Len(s) - (i + 1) + 1 ELSE 0
        /\ \A k \in 1 .. Len(s) - (i + 1) + 1 : right[k] = s[(i + 1) + k - 1]
    BY <1>1, <2>1, SubSeqProperties
  <2> QED
    BY <1>1, <2>2
<1> HIDE DEF t, left, right
<1>4. /\ left \o right \in Seq(S)
      /\ Len(left \o right) = Len(left) + Len(right)
      /\ \A k \in 1 .. Len(left) + Len(right) :
           (left \o right)[k] = IF k <= Len(left) THEN left[k] ELSE right[k - Len(left)]
  BY <1>2, <1>3, ConcatProperties
<1>5. t = left \o right
  BY DEF t, left, right, Without
<1>5a. /\ i \in Int /\ Len(s) \in Int /\ 1 <= i /\ i <= Len(s)
      /\ Len(left) = i - 1 /\ Len(right) = Len(s) - i
  BY <1>1, <1>2, <1>3
<1>5b. Len(left) + Len(right) = Len(s) - 1
  BY <1>5a
<1>6. t \in Seq(S) /\ Len(t) = Len(s) - 1 /\ DOMAIN t = 1 .. Len(s) - 1
  <2>1. t \in Seq(S) /\ Len(t) = Len(s) - 1
    BY <1>4, <1>5, <1>5b
  <2> QED
    BY <2>1, LenProperties
<1>6a. \A k \in 1 .. Len(s) - 1 :
        t[k] = IF k <= i - 1 THEN left[k] ELSE right[k - (i - 1)]
  BY <1>4, <1>5, <1>5a, <1>5b
<1>7. ASSUME NEW k \in 1 .. Len(s) - 1
      PROVE  t[k] = s[IF k < i THEN k ELSE k + 1]
  <2>1. k \in Int /\ 1 <= k /\ k <= Len(s) - 1
    BY <1>5a, <1>7
  <2>2. CASE k < i
    <3>1. k \in 1 .. i - 1 /\ k <= i - 1
      BY <1>5a, <2>1, <2>2
    <3> QED
      BY <1>2, <1>6a, <2>2, <3>1
  <2>3. CASE ~ (k < i)
    <3>1. ~ (k <= i - 1)
      BY <1>5a, <2>1, <2>3
    <3>2. k - (i - 1) \in 1 .. Len(s) - i
      BY <1>5a, <2>1, <2>3
    <3>3. (k - (i - 1)) + i = k + 1
      BY <1>5a, <2>1
    <3>4. t[k] = right[k - (i - 1)]
      BY <1>6a, <3>1
    <3>5. right[k - (i - 1)] = s[(k - (i - 1)) + i]
      BY <1>3, <3>2
    <3> QED
      BY <2>3, <3>3, <3>4, <3>5
  <2> QED
    BY <2>2, <2>3
<1> QED
  BY <1>6, <1>7 DEF t

-----------------------------------------------------------------------------
\* The invariant.  At "adding" the letter in hand belongs to a domain without
\* a record, and stays so: the workers only remove records.  After a negative
\* result the main thread comes back there because the record is gone.

Hand == main.at \in {"adding", "added"} => \E l \in Letter : main.letter = {l}

Adding == main.at = "adding" => \A l \in main.letter : Records(DomainOf[l]) = {}

Added == main.at = "added" => main.worker >= 0 /\ main.worker \in Nat

MainShape ==
  main = [at |-> main.at, letter |-> main.letter, worker |-> main.worker,
          tryes |-> main.tryes]

MainOK ==
  MainShape /\ count_task \in [Worker -> Nat] /\ Hand /\ Added

RecordsInv ==
  /\ \E S : Dictionary \in Seq(S)
  /\ NoDuplicateRecords /\ MainOK /\ Adding

\* Some worker has the fewest letters, and MostFreeWorker is one of the pool.
LEMMA MostFree ==
  ASSUME count_task \in [Worker -> Nat]
  PROVE  MostFreeWorker \in Worker /\ MostFreeWorker \in Nat /\ MostFreeWorker >= 0
<1> USE ClientAssumption DEF Worker
<1> DEFINE Loads == {count_task[v] : v \in Worker}
<1>1. Loads \subseteq Nat /\ Loads # {}
  <2>1. 0 \in Worker
    OBVIOUS
  <2> QED
    BY <2>1
<1> HIDE DEF Loads
<1>2. PICK m \in Loads : \A n \in Loads : m <= n
  BY <1>1, Least
<1> DEFINE Free == {w \in Worker : count_task[w] = m}
<1>3. Free \subseteq Nat /\ Free # {}
  BY DEF Loads
<1> HIDE DEF Free
<1>4. PICK w \in Free : \A v \in Free : w <= v
  BY <1>3, Least
<1>5. w \in Worker /\ count_task[w] = m
  BY DEF Free
<1>6. ASSUME NEW v \in Worker
      PROVE  count_task[w] < count_task[v] \/ (count_task[w] = count_task[v] /\ w <= v)
  <2>1. m <= count_task[v] /\ m \in Nat /\ count_task[v] \in Nat
    BY <1>1, <1>2 DEF Loads
  <2>2. CASE count_task[v] = m
    BY <1>4, <1>5, <2>2 DEF Free
  <2>3. CASE count_task[v] # m
    BY <1>5, <2>1, <2>3
  <2> QED
    BY <2>2, <2>3
<1>7. MostFreeWorker \in Worker
  BY <1>5, <1>6, Zenon DEF MostFreeWorker
<1> QED
  BY <1>7

\* RemoveDomainRecordFromDictionary keeps the records apart and adds none.
LEMMA RemovedKeeps ==
  ASSUME NEW S, Dictionary \in Seq(S), NoDuplicateRecords, NEW d,
         NEW t, t = Removed(d)
  PROVE  /\ t \in Seq(S)
         /\ \A i, j \in DOMAIN t : t[i].domain = t[j].domain => i = j
         /\ \A k \in DOMAIN t : \E i \in DOMAIN Dictionary :
              t[k].domain = Dictionary[i].domain
<1>1. CASE Records(d) = {}
  BY <1>1 DEF Removed, NoDuplicateRecords
<1>2. CASE Records(d) # {}
  <2>1. DOMAIN Dictionary = 1 .. Len(Dictionary) /\ Len(Dictionary) \in Nat
    BY LenProperties
  <2>2. Records(d) \subseteq Nat
    BY <2>1 DEF Records
  <2>3. \E i \in Records(d) : \A j \in Records(d) : i <= j
    BY <1>2, <2>2, Least
  <2>4. First(d) \in Records(d)
    BY <2>3, Zenon DEF First
  <2>5. First(d) \in DOMAIN Dictionary
    BY <2>4 DEF Records
  <2>6. t = SubSeq(Dictionary, 1, First(d) - 1)
            \o SubSeq(Dictionary, First(d) + 1, Len(Dictionary))
    BY <1>2 DEF Removed
  <2> DEFINE From(k) == IF k < First(d) THEN k ELSE k + 1
  <2>7. /\ t \in Seq(S) /\ Len(t) = Len(Dictionary) - 1
        /\ \A k \in DOMAIN t : t[k] = Dictionary[From(k)]
    <3>1. t = Without(Dictionary, First(d))
      BY <2>6 DEF Without
    <3>2. /\ Without(Dictionary, First(d)) \in Seq(S)
          /\ Len(Without(Dictionary, First(d))) = Len(Dictionary) - 1
          /\ \A k \in DOMAIN Without(Dictionary, First(d)) :
               Without(Dictionary, First(d))[k] = Dictionary[From(k)]
      BY <2>5, Cut
    <3> QED
      BY <3>1, <3>2
  <2>8. DOMAIN t = 1 .. Len(Dictionary) - 1
    BY <2>7, LenProperties
  <2>9. First(d) \in Int
    BY <2>1, <2>5
  <2>10. \A k \in DOMAIN t : From(k) \in DOMAIN Dictionary
    BY <2>1, <2>8, <2>9
  <2>11. \A i, j \in DOMAIN t : From(i) = From(j) => i = j
    BY <2>1, <2>8, <2>9
  <2> HIDE DEF From
  <2>12. ASSUME NEW i \in DOMAIN t, NEW j \in DOMAIN t, t[i].domain = t[j].domain
         PROVE  i = j
    <3>1. Dictionary[From(i)].domain = Dictionary[From(j)].domain
      BY <2>7, <2>12
    <3>2. From(i) = From(j)
      BY <2>10, <3>1 DEF NoDuplicateRecords
    <3> QED
      BY <2>11, <3>2
  <2> QED
    BY <2>7, <2>10, <2>12
<1> QED
  BY <1>1, <1>2

\* The steps of a worker at a socket that goes on, or is to be closed.
Dialogue(w) ==
  \/ Greeted(w) \/ LetterSent(w) \/ LetterDropped(w) \/ QuitNotSent(w)
  \/ ResetSent(w) \/ ResetDone(w) \/ GiveBackAll(w)

Stages == {"opening", "open", "resetting", "reset", "quitting", "disposing"}

\* What they leave of the letters of the socket, and where the others go.
Leaves(w, left) ==
  \/ left = Pool(w) /\ place' = place
  \/ /\ Pool(w) # <<>> /\ left = Tail(Pool(w))
     /\ \E folder \in {"new", "current"} : place' = Moved({Head(Pool(w))}, folder)
  \/ left = <<>> /\ place' = Moved(Listed(Pool(w)), "new")

LEMMA DialogueDoes ==
  ASSUME NEW w, Dialogue(w)
  PROVE  /\ pc[w] = "serving" /\ pc' = pc /\ main' = main /\ ServingOn(w)
         /\ Dictionary' \in {Dictionary, Removed(Current(w))}
         /\ \E left, stage : /\ SetSocket(w, Current(w), left, stage)
                             /\ stage \in Stages /\ Leaves(w, left)
<1>1. /\ pc[w] = "serving" /\ pc' = pc /\ main' = main /\ ServingOn(w)
  BY Zenon DEF Dialogue, Greeted, LetterSent, LetterDropped, QuitNotSent, ResetSent,
               ResetDone, GiveBackAll, Serving
<1>2. Dictionary' \in {Dictionary, Removed(Current(w))}
  BY DEF Dialogue, Greeted, LetterSent, LetterDropped, QuitNotSent, ResetSent,
         ResetDone, GiveBackAll
<1>3. \E left, stage : /\ SetSocket(w, Current(w), left, stage)
                       /\ stage \in Stages /\ Leaves(w, left)
  <2>1. CASE Greeted(w)
    <3>1. SetSocket(w, Current(w), Pool(w), "open") /\ Leaves(w, Pool(w)) /\ "open" \in Stages
      BY <2>1 DEF Greeted, Leaves, Stages
    <3> QED
      BY <3>1
  <2>2. CASE QuitNotSent(w) \/ ResetSent(w)
    <3>1. /\ \/ SetSocket(w, Current(w), Pool(w), "resetting")
             \/ SetSocket(w, Current(w), Pool(w), "reset")
          /\ Leaves(w, Pool(w)) /\ "resetting" \in Stages /\ "reset" \in Stages
      BY <2>2 DEF QuitNotSent, ResetSent, Leaves, Stages
    <3> QED
      BY <3>1
  <2>3. CASE LetterSent(w)
    <3> DEFINE next == IF Tail(Pool(w)) = <<>> THEN "quitting" ELSE "open"
    <3>1. SetSocket(w, Current(w), Tail(Pool(w)), next)
      BY <2>3 DEF LetterSent
    <3>2. Leaves(w, Tail(Pool(w))) /\ next \in Stages
      BY <2>3 DEF LetterSent, Leaves, Stages
    <3> HIDE DEF next
    <3> QED
      BY <3>1, <3>2
  <2>4. CASE LetterDropped(w)
    <3>1. SetSocket(w, Current(w), Tail(Pool(w)), "resetting")
      BY <2>4 DEF LetterDropped
    <3>2. Leaves(w, Tail(Pool(w))) /\ "resetting" \in Stages
      BY <2>4 DEF LetterDropped, Leaves, Stages
    <3> QED
      BY <3>1, <3>2
  <2>5. CASE ResetDone(w)
    <3>1. \/ SetSocket(w, Current(w), Pool(w), "open")
          \/ Pool(w) = <<>> /\ SetSocket(w, Current(w), <<>>, "disposing")
      BY <2>5 DEF ResetDone
    <3>2. Leaves(w, Pool(w)) /\ "open" \in Stages /\ "disposing" \in Stages
      BY <2>5 DEF ResetDone, Leaves, Stages
    <3> QED
      BY <3>1, <3>2
  <2>6. CASE GiveBackAll(w)
    <3>1. SetSocket(w, Current(w), <<>>, "disposing")
      BY <2>6 DEF GiveBackAll
    <3>2. Leaves(w, <<>>) /\ "disposing" \in Stages
      BY <2>6 DEF GiveBackAll, Leaves, Stages
    <3> QED
      BY <3>1, <3>2
  <2> QED
    BY <2>1, <2>2, <2>3, <2>4, <2>5, <2>6, Zenon DEF Dialogue
<1> QED
  BY <1>1, <1>2, <1>3

\* The steps of the workers, by what they do to the dictionary.
LEMMA WorkerEffect ==
  ASSUME NEW w \in Worker, WorkerStep(w)
  PROVE  /\ Dictionary' = Dictionary \/ \E d : Dictionary' = Removed(d)
         /\ count_task' = count_task
         /\ main' = main \/ main' = [main EXCEPT !.at = "crashed"]
<1> USE DEF mainVars
<1>1. CASE Loop(w) \/ Select(w) \/ EndClosing(w) \/ EndTaking(w)
  BY <1>1, Zenon DEF Loop, Select, EndClosing, EndTaking
<1>2. CASE TakeTask(w)
  BY <1>2, Zenon DEF TakeTask, TakeToSocket, TakeToNewSocket, TakeInVain
<1>3. ASSUME NEW d \in Domain, CloseConnection(w, d)
      PROVE  Dictionary' = Removed(d) /\ count_task' = count_task /\ main' = main
  BY <1>3, Zenon DEF CloseConnection
<1>4. CASE StartServing(w) \/ Block(w)
  BY <1>4, Zenon DEF StartServing, Block
<1>5. CASE NullPool(w) \/ Spin(w)
  BY <1>5, Zenon DEF NullPool, Spin, ServingOn
<1>6. CASE Dialogue(w)
  <2>1. /\ Dictionary' \in {Dictionary, Removed(Current(w))}
        /\ main' = main /\ ServingOn(w)
    BY <1>6, DialogueDoes
  <2> QED
    BY <2>1 DEF ServingOn
<1>7. CASE Remove(w)
  <2>1. Dictionary' \in {Dictionary, Removed(Current(w))} /\ count_task' = count_task
    BY <1>7, Zenon DEF Remove, Unlist
  <2>2. main' = main \/ main' = [main EXCEPT !.at = "crashed"]
    BY <1>7, Zenon DEF Remove
  <2> QED
    BY <2>1, <2>2
<1> QED
  BY <1>1, <1>2, <1>3, <1>4, <1>5, <1>6, <1>7, Zenon DEF WorkerStep, Dialogue

LEMMA WorkerKeeps ==
  ASSUME RecordsInv, NEW w \in Worker, WorkerStep(w)
  PROVE  RecordsInv'
<1>1. /\ Dictionary' = Dictionary \/ \E d : Dictionary' = Removed(d)
      /\ count_task' = count_task
      /\ main' = main \/ main' = [main EXCEPT !.at = "crashed"]
  BY WorkerEffect
<1>2. PICK S : Dictionary \in Seq(S)
  BY DEF RecordsInv
<1> DEFINE Apart == \A i, j \in DOMAIN Dictionary' :
                       Dictionary'[i].domain = Dictionary'[j].domain => i = j
           Within == \A k \in DOMAIN Dictionary' : \E i \in DOMAIN Dictionary :
                       Dictionary'[k].domain = Dictionary[i].domain
<1>3. Dictionary' \in Seq(S) /\ Apart /\ Within
  <2>1. CASE Dictionary' = Dictionary
    BY <1>2, <2>1 DEF RecordsInv, NoDuplicateRecords
  <2>2. ASSUME NEW d, Dictionary' = Removed(d)
        PROVE  Dictionary' \in Seq(S) /\ Apart /\ Within
    BY <1>2, <2>2, RemovedKeeps DEF RecordsInv
  <2> QED
    BY <1>1, <2>1, <2>2
<1>4. main' = main \/ main'.at = "crashed"
  BY <1>1 DEF RecordsInv, MainOK, MainShape
<1>5. MainOK'
  BY <1>1 DEF RecordsInv, MainOK, MainShape, Hand, Added
<1>6. Adding'
  <2>1. SUFFICES ASSUME main'.at = "adding", NEW l \in main'.letter,
                        NEW k \in Records(DomainOf[l])'
                 PROVE  FALSE
    BY DEF Adding
  <2>2. main.at = "adding" /\ l \in main.letter
    BY <1>4, <2>1
  <2>3. k \in DOMAIN Dictionary' /\ Dictionary'[k].domain = DomainOf[l]
    BY DEF Records
  <2>4. PICK i \in DOMAIN Dictionary : Dictionary'[k].domain = Dictionary[i].domain
    BY <1>3, <2>3
  <2> QED
    BY <2>2, <2>3, <2>4 DEF RecordsInv, Adding, Records
<1> QED
  BY <1>3, <1>5, <1>6 DEF RecordsInv, NoDuplicateRecords

\* The letter in hand is the only one of the set.
LEMMA Held ==
  ASSUME NEW l \in Letter, main.letter = {l}
  PROVE  InHand = l
BY DEF InHand

LEMMA AddRecordKeeps == RecordsInv /\ AddRecord => RecordsInv'
<1> SUFFICES ASSUME RecordsInv, AddRecord PROVE RecordsInv'
  OBVIOUS
<1>1. PICK S : Dictionary \in Seq(S)
  BY DEF RecordsInv
<1>2. main.at = "adding" /\ count_task' = count_task
  BY DEF AddRecord
<1>3. PICK l \in Letter : main.letter = {l}
  BY <1>2 DEF RecordsInv, MainOK, Hand
<1>4. InHand = l
  BY <1>3, Held
<1>5. Records(DomainOf[l]) = {}
  BY <1>2, <1>3 DEF RecordsInv, Adding
<1> DEFINE new == [domain |-> DomainOf[l], workerId |-> MostFreeWorker]
           T == S \cup {new}
<1>6. Dictionary' = Append(Dictionary, new)
  BY <1>4 DEF AddRecord
<1>7. new.domain = DomainOf[l]
  OBVIOUS
<1> HIDE DEF new
<1>8. Dictionary \in Seq(T) /\ new \in T
  <2>1. S \subseteq T /\ new \in T
    OBVIOUS
  <2> HIDE DEF T
  <2> QED
    BY <1>1, <2>1, SeqMonotonic
<1> HIDE DEF T
<1>9. /\ Dictionary' \in Seq(T)
      /\ Len(Dictionary') = Len(Dictionary) + 1
      /\ \A i \in 1 .. Len(Dictionary) : Dictionary'[i] = Dictionary[i]
      /\ Dictionary'[Len(Dictionary) + 1] = new
  BY <1>6, <1>8, AppendProperties
<1>10. /\ DOMAIN Dictionary = 1 .. Len(Dictionary) /\ Len(Dictionary) \in Nat
       /\ DOMAIN Dictionary' = 1 .. Len(Dictionary) + 1
  BY <1>8, <1>9, LenProperties
<1>11. \A i \in 1 .. Len(Dictionary) : Dictionary[i].domain # DomainOf[l]
  BY <1>5, <1>10 DEF Records
<1>12. NoDuplicateRecords'
  <2>1. SUFFICES ASSUME NEW i \in DOMAIN Dictionary', NEW j \in DOMAIN Dictionary',
                        Dictionary'[i].domain = Dictionary'[j].domain
                 PROVE  i = j
    BY DEF NoDuplicateRecords
  <2>2. \A k \in DOMAIN Dictionary' : k \in 1 .. Len(Dictionary) \/ k = Len(Dictionary) + 1
    BY <1>10
  <2>3. CASE i \in 1 .. Len(Dictionary) /\ j \in 1 .. Len(Dictionary)
    BY <1>9, <1>10, <2>1, <2>3 DEF RecordsInv, NoDuplicateRecords
  <2>4. CASE i \in 1 .. Len(Dictionary) /\ j = Len(Dictionary) + 1
    BY <1>7, <1>9, <1>11, <2>1, <2>4
  <2>5. CASE j \in 1 .. Len(Dictionary) /\ i = Len(Dictionary) + 1
    BY <1>7, <1>9, <1>11, <2>1, <2>5
  <2>6. CASE i = Len(Dictionary) + 1 /\ j = Len(Dictionary) + 1
    BY <2>6
  <2> QED
    BY <2>2, <2>3, <2>4, <2>5, <2>6
<1>13. MostFreeWorker \in Nat /\ MostFreeWorker >= 0
  BY MostFree DEF RecordsInv, MainOK
<1>14. MainShape' /\ main'.at = "added" /\ main'.letter = main.letter
       /\ main'.worker = MostFreeWorker
  BY DEF AddRecord, RecordsInv, MainOK, MainShape
<1>15. MainOK' /\ Adding'
  BY <1>2, <1>3, <1>13, <1>14 DEF RecordsInv, MainOK, Hand, Added, Adding
<1> QED
  BY <1>9, <1>12, <1>15 DEF RecordsInv

LEMMA FindKeeps ==
  ASSUME RecordsInv, NEW l \in Letter, FindLetter(l)
  PROVE  RecordsInv'
<1>1. Dictionary' = Dictionary /\ count_task' = count_task
  BY DEF FindLetter
<1>2. /\ MainShape' /\ main'.letter = {l}
      /\ \/ main'.at = "delegating"
         \/ main'.at = "adding" /\ Records(DomainOf[l]) = {}
  <2>1. CASE Records(DomainOf[l]) = {}
    <3>1. main' = [main EXCEPT !.at = "adding", !.letter = {l}]
      BY <2>1 DEF FindLetter, Found
    <3> QED
      BY <2>1, <3>1 DEF RecordsInv, MainOK, MainShape
  <2>2. CASE Records(DomainOf[l]) # {}
    <3> DEFINE id == Dictionary[First(DomainOf[l])].workerId
    <3>1. main' = [main EXCEPT !.at = "delegating", !.letter = {l}, !.worker = id]
      BY <2>2 DEF FindLetter, Found
    <3> HIDE DEF id
    <3> QED
      BY <3>1 DEF RecordsInv, MainOK, MainShape
  <2> QED
    BY <2>1, <2>2
<1>3. MainOK'
  BY <1>1, <1>2 DEF RecordsInv, MainOK, Hand, Added
<1>4. Adding' /\ NoDuplicateRecords'
  BY <1>1, <1>2 DEF RecordsInv, Adding, Records, NoDuplicateRecords
<1> QED
  BY <1>1, <1>3, <1>4 DEF RecordsInv

LEMMA ReadKeeps == RecordsInv /\ ReadAdded => RecordsInv'
<1> SUFFICES ASSUME RecordsInv, ReadAdded PROVE RecordsInv'
  OBVIOUS
<1>1. Dictionary' = Dictionary /\ count_task' = count_task /\ main.at = "added"
  BY DEF ReadAdded
<1>2. PICK l \in Letter : main.letter = {l}
  BY <1>1 DEF RecordsInv, MainOK, Hand
<1>3. InHand = l
  BY <1>2, Held
<1>4. PICK id \in {main.worker} \cup
                   (IF Records(DomainOf[l]) = {} THEN StaleId ELSE {}) :
        IF id >= 0
        THEN main' = [main EXCEPT !.at = "delegating", !.worker = id]
        ELSE IF main.tryes < 3 THEN main' = [main EXCEPT !.at = "adding"]
             ELSE Watch
  BY <1>3 DEF ReadAdded
<1>5. /\ MainShape'
      /\ \/ main'.at \in {"delegating", "watching"}
         \/ main'.at = "adding" /\ main'.letter = {l} /\ Records(DomainOf[l]) = {}
  <2>1. CASE id >= 0
    <3>1. main' = [main EXCEPT !.at = "delegating", !.worker = id]
      BY <1>4, <2>1
    <3> QED
      BY <3>1 DEF RecordsInv, MainOK, MainShape
  <2>2. CASE ~ (id >= 0) /\ main.tryes < 3
    <3>1. main' = [main EXCEPT !.at = "adding"]
      BY <1>4, <2>2
    <3>2. Records(DomainOf[l]) = {}
      BY <1>1, <1>4, <2>2 DEF RecordsInv, MainOK, Added
    <3> QED
      BY <1>2, <3>1, <3>2 DEF RecordsInv, MainOK, MainShape
  <2>3. CASE ~ (id >= 0) /\ ~ (main.tryes < 3)
    <3>1. Watch
      BY <1>4, <2>3
    <3> QED
      BY <3>1 DEF Watch, RecordsInv, MainOK, MainShape
  <2> QED
    BY <2>1, <2>2, <2>3
<1>6. MainOK'
  BY <1>1, <1>2, <1>5 DEF RecordsInv, MainOK, Hand, Added
<1>7. Adding' /\ NoDuplicateRecords'
  BY <1>1, <1>5 DEF RecordsInv, Adding, Records, NoDuplicateRecords
<1> QED
  BY <1>1, <1>6, <1>7 DEF RecordsInv

\* The other steps of the main thread add no record and leave the letter.
LEMMA RestKeeps ==
  RecordsInv /\ (Delegate \/ DelegateNowhere \/ Dispose \/ Join) => RecordsInv'
<1> SUFFICES ASSUME RecordsInv, Delegate \/ DelegateNowhere \/ Dispose \/ Join
             PROVE  RecordsInv'
  OBVIOUS
<1>1. Dictionary' = Dictionary
  BY Zenon DEF Delegate, DelegateNowhere, Dispose, Join
<1>2. count_task' \in [Worker -> Nat]
  <2>1. CASE Delegate
    BY <2>1 DEF Delegate, RecordsInv, MainOK
  <2>2. CASE DelegateNowhere \/ Dispose \/ Join
    BY <2>2 DEF DelegateNowhere, Dispose, Join, RecordsInv, MainOK
  <2> QED
    BY <2>1, <2>2
<1>3. MainShape' /\ main'.at \in {"watching", "crashed", "joining", "ended"}
  <2>1. CASE Delegate
    BY <2>1 DEF Delegate, Watch, RecordsInv, MainOK, MainShape
  <2>2. CASE DelegateNowhere
    BY <2>2 DEF DelegateNowhere, Watch, RecordsInv, MainOK, MainShape
  <2>3. CASE Dispose
    BY <2>3 DEF Dispose, RecordsInv, MainOK, MainShape
  <2>4. CASE Join
    BY <2>4 DEF Join, RecordsInv, MainOK, MainShape
  <2> QED
    BY <2>1, <2>2, <2>3, <2>4
<1>4. MainOK' /\ Adding'
  BY <1>2, <1>3 DEF MainOK, Hand, Added, Adding
<1> QED
  BY <1>1, <1>4 DEF RecordsInv, NoDuplicateRecords

LEMMA RecordsInit == Init => RecordsInv
<1> SUFFICES ASSUME Init PROVE RecordsInv
  OBVIOUS
<1>1. Dictionary \in Seq({}) /\ DOMAIN Dictionary = {}
  BY EmptySeq DEF Init
<1>2. MainOK /\ Adding
  BY DEF Init, MainOK, MainShape, Hand, Added, Adding
<1> QED
  BY <1>1, <1>2 DEF RecordsInv, NoDuplicateRecords

LEMMA RecordsStep == RecordsInv /\ [Next]_vars => RecordsInv'
<1> SUFFICES ASSUME RecordsInv, [Next]_vars PROVE RecordsInv'
  OBVIOUS
<1>1. ASSUME NEW l \in Letter, FindLetter(l) PROVE RecordsInv'
  BY <1>1, FindKeeps
<1>2. CASE AddRecord
  BY <1>2, AddRecordKeeps
<1>3. CASE ReadAdded
  BY <1>3, ReadKeeps
<1>4. CASE Delegate \/ DelegateNowhere \/ Dispose \/ Join
  BY <1>4, RestKeeps
<1>5. ASSUME NEW w \in Worker, WorkerStep(w) PROVE RecordsInv'
  BY <1>5, WorkerKeeps
<1>6. CASE UNCHANGED vars
  BY <1>6 DEF vars, mainVars, RecordsInv, NoDuplicateRecords, MainOK, MainShape,
              Hand, Added, Adding, Records
<1> QED
  BY <1>1, <1>2, <1>3, <1>4, <1>5, <1>6, Zenon DEF Next, Main

\* A domain never has two records, however the additions of the main thread
\* and the removals of the workers interleave (dictionary.c:19-121).
THEOREM NoDuplicateRecordsHolds == Spec => []NoDuplicateRecords
<1>1. RecordsInv => NoDuplicateRecords
  BY DEF RecordsInv
<1> QED
  BY RecordsInit, RecordsStep, <1>1, PTL DEF Spec

-----------------------------------------------------------------------------
\* The list of sockets of a worker, as a sequence of its own.

Doms(s) == {s[i].domain : i \in DOMAIN s}
OncePerDomain(s) == \A i, j \in DOMAIN s : s[i].domain = s[j].domain => i = j

\* findSocketByDomain, and the next socket of a turn.
AtIn(s, d) == CHOOSE i \in DOMAIN s :
  s[i].domain = d /\ \A j \in 1 .. i - 1 : s[j].domain # d
CurrentIn(s, turn) ==
  CHOOSE d \in turn : \A e \in turn : AtIn(s, d) <= AtIn(s, e)

LEMMA AtIs == \A w, d : At(w, d) = AtIn(socket_list[w], d)
BY Zenon DEF At, AtIn

LEMMA CurrentIs == \A w : Current(w) = CurrentIn(socket_list[w], todo[w])
BY Zenon DEF At, AtIn, Current, CurrentIn

LEMMA DomainsAre == \A w : Domains(w) = Doms(socket_list[w])
BY DEF Domains, Doms, Listed

\* A sequence, its indices and its elements.
LEMMA Indices ==
  ASSUME NEW S, NEW s \in Seq(S)
  PROVE  /\ DOMAIN s = 1 .. Len(s) /\ Len(s) \in Nat
         /\ \A i \in DOMAIN s : i \in Nat /\ s[i] \in S
BY LenProperties, ElementOfSeq

\* The search finds the socket of a domain that has one.
LEMMA AtFinds ==
  ASSUME NEW S, NEW s \in Seq(S), NEW d \in Doms(s)
  PROVE  AtIn(s, d) \in DOMAIN s /\ s[AtIn(s, d)].domain = d
<1> DEFINE all == {i \in DOMAIN s : s[i].domain = d}
<1>1. all \subseteq Nat /\ all # {}
  BY Indices DEF Doms
<1> HIDE DEF all
<1>2. PICK i \in all : \A j \in all : i <= j
  BY <1>1, Least
<1>3. i \in DOMAIN s /\ s[i].domain = d
  BY DEF all
<1>4. \A j \in 1 .. i - 1 : s[j].domain # d
  <2>1. SUFFICES ASSUME NEW j \in 1 .. i - 1, s[j].domain = d PROVE FALSE
    OBVIOUS
  <2>2. j \in DOMAIN s /\ j < i /\ i \in Nat /\ j \in Nat
    BY <1>3, Indices
  <2>3. j \in all
    BY <2>1, <2>2 DEF all
  <2> QED
    BY <1>2, <2>2, <2>3
<1> QED
  BY <1>3, <1>4, Zenon DEF AtIn

\* A turn that is not over has a current socket, one of the turn.
LEMMA CurrentLeast ==
  ASSUME NEW S, NEW s \in Seq(S), NEW turn, turn \subseteq Doms(s), turn # {}
  PROVE  /\ CurrentIn(s, turn) \in turn
         /\ \A e \in turn : AtIn(s, CurrentIn(s, turn)) <= AtIn(s, e)
<1> DEFINE places == {AtIn(s, d) : d \in turn}
<1>1. places \subseteq Nat /\ places # {}
  BY AtFinds, Indices
<1> HIDE DEF places
<1>2. PICK i \in places : \A j \in places : i <= j
  BY <1>1, Least
<1>3. PICK d \in turn : i = AtIn(s, d)
  BY DEF places
<1>4. \A e \in turn : AtIn(s, d) <= AtIn(s, e)
  BY <1>2, <1>3 DEF places
<1> QED
  BY <1>3, <1>4, Zenon DEF CurrentIn

\* Changing what is known of one socket changes no domain.
LEMMA Replaced ==
  ASSUME NEW S, NEW s \in Seq(S), NEW i \in DOMAIN s, NEW c \in S,
         c.domain = s[i].domain,
         NEW t, t = [s EXCEPT ![i] = c]
  PROVE  /\ t \in Seq(S) /\ DOMAIN t = DOMAIN s
         /\ \A k \in DOMAIN s : t[k] = IF k = i THEN c ELSE s[k]
         /\ \A k \in DOMAIN s : t[k].domain = s[k].domain
         /\ Doms(t) = Doms(s)
         /\ OncePerDomain(s) => OncePerDomain(t)
<1>1. /\ t \in Seq(S) /\ Len(t) = Len(s)
      /\ \A k \in 1 .. Len(s) : t[k] = IF k = i THEN c ELSE s[k]
  BY Indices, ExceptSeq
<1>2. DOMAIN t = DOMAIN s
  BY <1>1, Indices
<1>3. \A k \in DOMAIN s : t[k] = IF k = i THEN c ELSE s[k]
  BY <1>1, Indices
<1>4. \A k \in DOMAIN s : t[k].domain = s[k].domain
  BY <1>3
<1> QED
  BY <1>1, <1>2, <1>3, <1>4 DEF Doms, OncePerDomain

\* ... and the search still finds the sockets where they were.
LEMMA AtStays ==
  ASSUME NEW S, NEW s \in Seq(S), NEW t \in Seq(S), DOMAIN t = DOMAIN s,
         \A k \in DOMAIN s : t[k].domain = s[k].domain,
         OncePerDomain(s), NEW d \in Doms(s)
  PROVE  AtIn(t, d) = AtIn(s, d)
<1>1. d \in Doms(t)
  BY DEF Doms
<1>2. AtIn(s, d) \in DOMAIN s /\ s[AtIn(s, d)].domain = d
  BY AtFinds
<1>3. AtIn(t, d) \in DOMAIN t /\ t[AtIn(t, d)].domain = d
  BY <1>1, AtFinds
<1> QED
  BY <1>2, <1>3 DEF OncePerDomain

LEMMA CurrentStays ==
  ASSUME NEW S, NEW s \in Seq(S), NEW t \in Seq(S), DOMAIN t = DOMAIN s,
         \A k \in DOMAIN s : t[k].domain = s[k].domain,
         OncePerDomain(s), NEW turn, turn \subseteq Doms(s), turn # {}
  PROVE  CurrentIn(t, turn) = CurrentIn(s, turn)
<1>1. \A d \in turn : AtIn(t, d) = AtIn(s, d)
  BY AtStays
<1>2. \A d \in turn : AtIn(s, d) \in DOMAIN s /\ s[AtIn(s, d)].domain = d
                      /\ AtIn(s, d) \in Nat
  BY AtFinds, Indices
<1>3. turn \subseteq Doms(t)
  BY DEF Doms
<1> DEFINE first(d) == d \in turn /\ \A e \in turn : AtIn(s, d) <= AtIn(s, e)
<1>4. first(CurrentIn(s, turn))
  BY CurrentLeast
<1>5. first(CurrentIn(t, turn))
  <2>1. /\ CurrentIn(t, turn) \in turn
        /\ \A e \in turn : AtIn(t, CurrentIn(t, turn)) <= AtIn(t, e)
    BY <1>3, CurrentLeast
  <2> QED
    BY <1>1, <2>1
<1>6. \A d, e : first(d) /\ first(e) => d = e
  <2>1. SUFFICES ASSUME NEW d, NEW e, first(d), first(e) PROVE d = e
    OBVIOUS
  <2>2. AtIn(s, d) = AtIn(s, e)
    BY <1>2, <2>1
  <2> QED
    BY <1>2, <2>1, <2>2
<1> HIDE DEF first
<1> QED
  BY <1>4, <1>5, <1>6

\* A socket that is freed takes its domain with it.
LEMMA Freed ==
  ASSUME NEW S, NEW s \in Seq(S), NEW i \in DOMAIN s, OncePerDomain(s)
  PROVE  /\ Without(s, i) \in Seq(S)
         /\ OncePerDomain(Without(s, i))
         /\ Doms(Without(s, i)) = Doms(s) \ {s[i].domain}
         /\ \A k \in DOMAIN Without(s, i) : \E j \in DOMAIN s :
              j # i /\ Without(s, i)[k] = s[j]
<1> DEFINE t == Without(s, i)
           from(k) == IF k < i THEN k ELSE k + 1
<1>1. /\ t \in Seq(S) /\ Len(t) = Len(s) - 1
      /\ \A k \in DOMAIN t : t[k] = s[from(k)]
  BY Cut
<1>2. DOMAIN t = 1 .. Len(s) - 1 /\ DOMAIN s = 1 .. Len(s) /\ Len(s) \in Nat /\ i \in Int
  BY <1>1, Indices
<1> HIDE DEF t
<1>3. \A k \in DOMAIN t : from(k) \in DOMAIN s /\ from(k) # i
  BY <1>2
<1>4. \A j, k \in DOMAIN t : from(j) = from(k) => j = k
  BY <1>2
<1>5. \A j \in DOMAIN s : j # i => \E k \in DOMAIN t : from(k) = j
  <2>1. SUFFICES ASSUME NEW j \in DOMAIN s, j # i
                 PROVE  \E k \in DOMAIN t : from(k) = j
    OBVIOUS
  <2>2. CASE j < i
    BY <1>2, <2>1, <2>2
  <2>3. CASE ~ (j < i)
    <3>1. j - 1 \in DOMAIN t /\ from(j - 1) = j
      BY <1>2, <2>1, <2>3
    <3> QED
      BY <3>1
  <2> QED
    BY <2>2, <2>3
<1> HIDE DEF from
<1>6. OncePerDomain(t)
  BY <1>1, <1>3, <1>4 DEF OncePerDomain
<1>7. Doms(t) = Doms(s) \ {s[i].domain}
  <2>1. \A k \in DOMAIN t : t[k].domain \in Doms(s) \ {s[i].domain}
    BY <1>1, <1>3 DEF OncePerDomain, Doms
  <2>2. \A j \in DOMAIN s : s[j].domain # s[i].domain => s[j].domain \in Doms(t)
    <3>1. SUFFICES ASSUME NEW j \in DOMAIN s, j # i PROVE s[j].domain \in Doms(t)
      OBVIOUS
    <3>2. PICK k \in DOMAIN t : from(k) = j
      BY <1>5, <3>1
    <3> QED
      BY <1>1, <3>2 DEF Doms
  <2> QED
    BY <2>1, <2>2 DEF Doms
<1>8. \A k \in DOMAIN t : \E j \in DOMAIN s : j # i /\ t[k] = s[j]
  BY <1>1, <1>3
<1> QED
  BY <1>1, <1>6, <1>7, <1>8 DEF t

\* A new socket at the end of the list.
LEMMA Opened ==
  ASSUME NEW S, NEW s \in Seq(S), NEW c \in S, c.domain \notin Doms(s),
         OncePerDomain(s)
  PROVE  /\ Append(s, c) \in Seq(S)
         /\ OncePerDomain(Append(s, c))
         /\ Doms(Append(s, c)) = Doms(s) \cup {c.domain}
         /\ \A k \in DOMAIN Append(s, c) :
              \/ k \in DOMAIN s /\ Append(s, c)[k] = s[k]
              \/ k \notin DOMAIN s /\ Append(s, c)[k] = c
<1> DEFINE t == Append(s, c)
<1>1. /\ t \in Seq(S) /\ Len(t) = Len(s) + 1
      /\ \A i \in 1 .. Len(s) : t[i] = s[i]
      /\ t[Len(s) + 1] = c
  BY AppendProperties
<1>2. DOMAIN t = 1 .. Len(s) + 1 /\ DOMAIN s = 1 .. Len(s) /\ Len(s) \in Nat
  BY <1>1, Indices
<1> HIDE DEF t
<1>3. \A k \in DOMAIN t : \/ k \in DOMAIN s /\ t[k] = s[k]
                          \/ k = Len(s) + 1 /\ k \notin DOMAIN s /\ t[k] = c
  BY <1>1, <1>2
<1>4. Len(s) + 1 \in DOMAIN t /\ \A k \in DOMAIN s : k \in DOMAIN t /\ t[k] = s[k]
  BY <1>1, <1>2
<1>5. OncePerDomain(t)
  BY <1>3 DEF OncePerDomain, Doms
<1>6. Doms(t) = Doms(s) \cup {c.domain}
  BY <1>1, <1>3, <1>4 DEF Doms
<1> QED
  BY <1>1, <1>3, <1>5, <1>6 DEF t

-----------------------------------------------------------------------------
\* Type correctness, with the order the turns of a worker keep: outside of a
\* turn at a socket all its sockets are awaited, and during one all the others;
\* todo holds no socket that is gone.  Each is awaited in one set, and nothing
\* else is, as long as the worker was not misled.

AtSocket == {"serving", "spinning"}

SockOf(s, r, wr, turn, at, mainAt, lost) ==
  /\ OncePerDomain(s)
  /\ at \notin AtSocket => Doms(s) \subseteq r \cup wr /\ turn \subseteq Doms(s)
  /\ at = "walking" => turn # {}
  /\ at \in AtSocket /\ mainAt # "crashed" =>
       /\ turn \subseteq Doms(s) /\ turn # {}
       /\ Doms(s) \ {CurrentIn(s, turn)} \subseteq r \cup wr
  /\ ~ lost => /\ r \cap wr = {}
               /\ at \notin AtSocket => r \cup wr = Doms(s)
               /\ at \in AtSocket /\ mainAt # "crashed" =>
                    r \cup wr = Doms(s) \ {CurrentIn(s, turn)}

Sock(w) ==
  SockOf(socket_list[w], readers[w], writers[w], todo[w], pc[w], main.at, misled[w])

\* The letter in hand leaves room for one delegation, and the counter of the
\* additions starts anew with each letter.
Hands ==
  /\ main.at \in {"adding", "added", "delegating"} =>
       /\ \E l \in Letter : main.letter = {l}
       /\ \A w \in Worker : count_task[w] < MaxDelegations
  /\ main.at = "adding" => main.tryes < 3
  /\ main.at = "watching" => main.tryes = 0

TypeInv == TypeOK /\ Hands /\ \A w \in Worker : Sock(w)

Record == [domain : Domain, workerId : Worker]

\* What a step of worker w is held to: the types, the other workers left alone,
\* and its own sockets in order.
Typed ==
  /\ place' \in [Letter -> {"new", "tmp", "current"}]
  /\ tasks' \in [Worker -> Seq(Letter)]
  /\ worked' = worked
  /\ socket_list' \in [Worker -> Seq(Connection)]
  /\ readers' \in [Worker -> SUBSET Descriptor]
  /\ writers' \in [Worker -> SUBSET Descriptor]
  /\ misled' \in [Worker -> BOOLEAN]
  /\ todo' \in [Worker -> SUBSET Domain]
  /\ closing' \in [Worker -> BOOLEAN]
  /\ pc' \in [Worker -> {"looping", "select", "closing", "taking", "walking",
                         "serving", "spinning", "ended"}]

Alone(w) ==
  \A v \in Worker \ {w} :
    /\ socket_list'[v] = socket_list[v] /\ readers'[v] = readers[v]
    /\ writers'[v] = writers[v] /\ misled'[v] = misled[v]
    /\ todo'[v] = todo[v] /\ pc'[v] = pc[v] /\ tasks'[v] = tasks[v]

Turn(w) == Typed /\ Alone(w) /\ Sock(w)'

LEMMA MovedTyped ==
  ASSUME place \in [Letter -> {"new", "tmp", "current"}], NEW L,
         NEW folder \in {"new", "tmp", "current"}
  PROVE  /\ Moved(L, folder) \in [Letter -> {"new", "tmp", "current"}]
         /\ \A l \in Letter : Moved(L, folder)[l] =
              IF l \in L THEN folder ELSE place[l]
BY DEF Moved

\* A list with what is known of one socket changed.
With(s, i, c) == [s EXCEPT ![i] = c]

\* Two ways to change a socket of a list, as one.
Change(w, d, c) ==
  socket_list' = [socket_list EXCEPT ![w] =
                   [socket_list[w] EXCEPT ![AtIn(socket_list[w], d)] = c]]

LEMMA SocketKnown ==
  ASSUME TypeOK, NEW w \in Worker, NEW d \in Doms(socket_list[w])
  PROVE  /\ Socket(w, d) \in Connection /\ Socket(w, d).domain = d /\ d \in Domain
         /\ At(w, d) \in DOMAIN socket_list[w]
         /\ Socket(w, d) = socket_list[w][AtIn(socket_list[w], d)]
<1>1. socket_list[w] \in Seq(Connection)
  BY DEF TypeOK
<1>2. /\ AtIn(socket_list[w], d) \in DOMAIN socket_list[w]
      /\ socket_list[w][AtIn(socket_list[w], d)].domain = d
  BY <1>1, AtFinds
<1>3. socket_list[w][AtIn(socket_list[w], d)] \in Connection
  BY <1>1, <1>2, Indices
<1> QED
  BY <1>2, <1>3, AtIs DEF Socket, Connection

LEMMA PoolPut ==
  ASSUME TypeOK, NEW w \in Worker, NEW d \in Doms(socket_list[w]),
         NEW pool \in Seq(Letter), SetPool(w, d, pool)
  PROVE  \E c \in Connection : c.domain = d /\ c.task_pool = pool /\ Change(w, d, c)
<1> DEFINE c == [Socket(w, d) EXCEPT !.task_pool = pool]
<1>1. socket_list' = [socket_list EXCEPT ![w] = [socket_list[w] EXCEPT ![At(w, d)] = c]]
  BY DEF SetPool, Socket
<1>2. Change(w, d, c)
  BY <1>1, AtIs DEF Change
<1>3. c \in Connection /\ c.domain = d /\ c.task_pool = pool
  BY SocketKnown DEF Connection
<1> HIDE DEF c
<1> QED
  BY <1>2, <1>3

LEMMA SocketPut ==
  ASSUME TypeOK, NEW w \in Worker, NEW d \in Doms(socket_list[w]),
         NEW pool \in Seq(Letter),
         NEW stage \in Stages,
         SetSocket(w, d, pool, stage)
  PROVE  \E c \in Connection : c.domain = d /\ c.task_pool = pool /\ Change(w, d, c)
<1> DEFINE c == [domain |-> d, task_pool |-> pool, stage |-> stage]
<1>1. socket_list' = [socket_list EXCEPT ![w] = [socket_list[w] EXCEPT ![At(w, d)] = c]]
  BY DEF SetSocket
<1>2. Change(w, d, c)
  BY <1>1, AtIs DEF Change
<1>3. c \in Connection /\ c.domain = d /\ c.task_pool = pool
  BY SocketKnown DEF Connection, Stages
<1> HIDE DEF c
<1> QED
  BY <1>2, <1>3

LEMMA PutKeeps ==
  ASSUME TypeOK, NEW w \in Worker, NEW d \in Doms(socket_list[w]),
         OncePerDomain(socket_list[w]),
         NEW c \in Connection, c.domain = d, Change(w, d, c)
  PROVE  /\ socket_list' \in [Worker -> Seq(Connection)]
         /\ \A v \in Worker \ {w} : socket_list'[v] = socket_list[v]
         /\ socket_list'[w] = With(socket_list[w], AtIn(socket_list[w], d), c)
         /\ OncePerDomain(socket_list'[w])
         /\ Doms(socket_list'[w]) = Doms(socket_list[w])
         /\ \A turn : turn \subseteq Doms(socket_list[w]) /\ turn # {} =>
              CurrentIn(socket_list'[w], turn) = CurrentIn(socket_list[w], turn)
<1>1. socket_list \in [Worker -> Seq(Connection)]
  BY DEF TypeOK
<1> DEFINE s == socket_list[w]
           i == AtIn(s, d)
           t == [s EXCEPT ![i] = c]
<1>2. s \in Seq(Connection)
  BY <1>1
<1>3. i \in DOMAIN s /\ s[i].domain = d
  BY <1>2, AtFinds
<1>4. /\ t \in Seq(Connection) /\ DOMAIN t = DOMAIN s
      /\ \A k \in DOMAIN s : t[k].domain = s[k].domain
      /\ Doms(t) = Doms(s)
      /\ OncePerDomain(s) => OncePerDomain(t)
  <2> HIDE DEF s, i
  <2> QED
    BY <1>2, <1>3, Replaced
<1>5. socket_list' = [socket_list EXCEPT ![w] = t]
  BY DEF Change
<1> HIDE DEF t
<1>6. /\ socket_list' \in [Worker -> Seq(Connection)] /\ socket_list'[w] = t
      /\ \A v \in Worker \ {w} : socket_list'[v] = socket_list[v]
  BY <1>1, <1>4, <1>5
<1>7. ASSUME NEW turn, turn \subseteq Doms(s), turn # {}
      PROVE  CurrentIn(t, turn) = CurrentIn(s, turn)
  <2> HIDE DEF s
  <2>1. OncePerDomain(s)
    BY DEF s
  <2> QED
    BY <1>2, <1>4, <1>7, <2>1, CurrentStays
<1>8. t = With(s, i, c)
  BY DEF t, With
<1> QED
  BY <1>4, <1>6, <1>7, <1>8 DEF t

\* A turn is looked at from its worker: the current socket and the sets.
LEMMA CurrentKnown ==
  ASSUME TypeInv, NEW w \in Worker,
         pc[w] = "walking" \/ (pc[w] = "serving" /\ main.at # "crashed")
  PROVE  /\ Current(w) = CurrentIn(socket_list[w], todo[w])
         /\ Current(w) \in todo[w] /\ Current(w) \in Doms(socket_list[w])
         /\ Current(w) \in Domain
         /\ OncePerDomain(socket_list[w])
<1>1. /\ socket_list[w] \in Seq(Connection)
      /\ todo[w] \subseteq Doms(socket_list[w]) /\ todo[w] # {}
      /\ OncePerDomain(socket_list[w]) /\ todo[w] \subseteq Domain
  BY DEF TypeInv, TypeOK, Sock, SockOf, AtSocket
<1>2. CurrentIn(socket_list[w], todo[w]) \in todo[w]
  BY <1>1, CurrentLeast
<1> QED
  BY <1>1, <1>2, CurrentIs

LEMMA LoopTurn ==
  ASSUME TypeInv, NEW w \in Worker, Loop(w) \/ EndTaking(w)
  PROVE  Turn(w) /\ main' = main
<1>1. /\ place' = place /\ main' = main /\ tasks' = tasks /\ worked' = worked
      /\ socket_list' = socket_list /\ readers' = readers /\ writers' = writers
      /\ misled' = misled /\ todo' = todo /\ closing' = closing
  BY Zenon DEF Loop, EndTaking, mainVars, listVars
<1>2. /\ pc[w] \in {"looping", "taking"}
      /\ \/ pc' = [pc EXCEPT ![w] = "select"] \/ pc' = [pc EXCEPT ![w] = "ended"]
         \/ pc' = [pc EXCEPT ![w] = "looping"]
         \/ pc' = [pc EXCEPT ![w] = "walking"] /\ todo[w] # {}
  BY DEF Loop, EndTaking, Goto
<1>3. /\ pc' \in [Worker -> {"looping", "select", "closing", "taking", "walking",
                             "serving", "spinning", "ended"}]
      /\ \A v \in Worker \ {w} : pc'[v] = pc[v]
      /\ pc'[w] \in {"select", "ended", "looping", "walking"}
      /\ pc'[w] = "walking" => todo[w] # {}
  BY <1>2 DEF TypeInv, TypeOK
<1>4. Typed
  BY <1>1, <1>3 DEF TypeInv, TypeOK, Typed
<1>5. Alone(w)
  BY <1>1, <1>3 DEF Alone
<1>6. Sock(w)'
  BY <1>1, <1>2, <1>3 DEF TypeInv, Sock, SockOf, AtSocket
<1> QED
  BY <1>1, <1>4, <1>5, <1>6 DEF Turn

LEMMA SelectTurn ==
  ASSUME TypeInv, NEW w \in Worker, Select(w) \/ EndClosing(w)
  PROVE  Turn(w) /\ main' = main
<1>1. /\ place' = place /\ main' = main /\ tasks' = tasks /\ worked' = worked
      /\ socket_list' = socket_list /\ readers' = readers /\ writers' = writers
      /\ misled' = misled
  BY Zenon DEF Select, EndClosing, mainVars, listVars
<1>2. pc[w] \in {"select", "closing"} /\ Domains(w) = Doms(socket_list[w])
  BY DomainsAre DEF Select, EndClosing
<1>3. Awaited(w) \subseteq Doms(socket_list[w]) /\ Doms(socket_list[w]) \subseteq Domain
  <2>1. socket_list[w] \in Seq(Connection)
    BY DEF TypeInv, TypeOK
  <2>2. \A i \in DOMAIN socket_list[w] : socket_list[w][i] \in Connection
    BY <2>1, Indices
  <2> QED
    BY <1>2, <2>2 DEF Awaited, Doms, Connection
<1>4. /\ closing' \in [Worker -> BOOLEAN]
      /\ \E turn, label : /\ turn \subseteq Doms(socket_list[w])
                          /\ todo' = [todo EXCEPT ![w] = turn]
                          /\ label \in {"looping", "taking", "closing"}
                          /\ pc' = [pc EXCEPT ![w] = label]
  <2>1. CASE EndClosing(w)
    <3>1. /\ closing' = closing /\ todo' = [todo EXCEPT ![w] = Awaited(w)]
          /\ pc' = [pc EXCEPT ![w] = AfterSelect(w, Awaited(w))]
      BY <2>1 DEF EndClosing, Goto
    <3>2. AfterSelect(w, Awaited(w)) \in {"looping", "taking", "closing"}
      BY DEF AfterSelect
    <3> QED
      BY <1>3, <3>1, <3>2 DEF TypeInv, TypeOK
  <2>2. CASE Select(w)
    <3>1. PICK ready \in SUBSET Awaited(w) :
            IF worked[w] \/ closing[w]
            THEN LET polled == IF closing[w] THEN Awaited(w) ELSE ready IN
                 /\ todo' = [todo EXCEPT ![w] = polled]
                 /\ Goto(w, AfterSelect(w, polled))
                 /\ UNCHANGED closing
            ELSE /\ todo' = [todo EXCEPT ![w] = Domains(w)]
                 /\ Goto(w, "closing")
                 /\ closing' = [closing EXCEPT ![w] = TRUE]
      BY <2>2, Zenon DEF Select
    <3>2. CASE worked[w] \/ closing[w]
      <4> DEFINE polled == IF closing[w] THEN Awaited(w) ELSE ready
      <4>1. /\ todo' = [todo EXCEPT ![w] = polled] /\ closing' = closing
            /\ pc' = [pc EXCEPT ![w] = AfterSelect(w, polled)]
        BY <3>1, <3>2, Zenon DEF Goto
      <4>2. polled \subseteq Doms(socket_list[w])
        BY <1>3, <3>1
      <4>3. AfterSelect(w, polled) \in {"looping", "taking", "closing"}
        BY DEF AfterSelect
      <4> HIDE DEF polled
      <4> QED
        BY <4>1, <4>2, <4>3 DEF TypeInv, TypeOK
    <3>3. CASE ~ (worked[w] \/ closing[w])
      <4>1. /\ todo' = [todo EXCEPT ![w] = Domains(w)] /\ pc' = [pc EXCEPT ![w] = "closing"]
            /\ closing' = [closing EXCEPT ![w] = TRUE]
        BY <3>1, <3>3, Zenon DEF Goto
      <4>2. closing' \in [Worker -> BOOLEAN]
        BY <4>1 DEF TypeInv, TypeOK
      <4>3. Domains(w) \subseteq Doms(socket_list[w])
        BY <1>2
      <4> QED
        BY <4>1, <4>2, <4>3
    <3> QED
      BY <3>2, <3>3
  <2> QED
    BY <2>1, <2>2
<1>5. PICK turn, label : /\ turn \subseteq Doms(socket_list[w])
                         /\ todo' = [todo EXCEPT ![w] = turn]
                         /\ label \in {"looping", "taking", "closing"}
                         /\ pc' = [pc EXCEPT ![w] = label]
  BY <1>4
<1>6. /\ pc' \in [Worker -> {"looping", "select", "closing", "taking", "walking",
                             "serving", "spinning", "ended"}]
      /\ \A v \in Worker \ {w} : pc'[v] = pc[v] /\ todo'[v] = todo[v]
      /\ pc'[w] = label /\ todo'[w] = turn
      /\ todo' \in [Worker -> SUBSET Domain]
  <2>1. turn \in SUBSET Domain
    BY <1>3, <1>5
  <2> QED
    BY <1>5, <2>1 DEF TypeInv, TypeOK
<1>7. Typed
  BY <1>1, <1>4, <1>6 DEF TypeInv, TypeOK, Typed
<1>8. Alone(w)
  BY <1>1, <1>6 DEF Alone
<1>9. Sock(w)'
  BY <1>1, <1>2, <1>5, <1>6 DEF TypeInv, Sock, SockOf, AtSocket
<1> QED
  BY <1>1, <1>7, <1>8, <1>9 DEF Turn

\* The steps that only change the pool or the stage of a socket.
LEMMA PoolTurn ==
  ASSUME TypeInv, NEW w \in Worker, main.at # "crashed",
         NEW d \in Doms(socket_list[w]), NEW c \in Connection, c.domain = d, Change(w, d, c),
         main' = main, worked' = worked, closing' = closing, pc' = pc,
         writers' = writers, readers' = readers, misled' = misled,
         place' \in [Letter -> {"new", "tmp", "current"}],
         tasks' \in [Worker -> Seq(Letter)], \A v \in Worker \ {w} : tasks'[v] = tasks[v],
         NEW turn, turn \subseteq todo[w], todo' = [todo EXCEPT ![w] = turn],
         turn = todo[w] \/ pc[w] = "closing"
  PROVE  Turn(w)
<1>1. OncePerDomain(socket_list[w]) /\ TypeOK
  BY DEF TypeInv, Sock, SockOf
<1>2. /\ socket_list' \in [Worker -> Seq(Connection)]
      /\ \A v \in Worker \ {w} : socket_list'[v] = socket_list[v]
      /\ OncePerDomain(socket_list'[w])
      /\ Doms(socket_list'[w]) = Doms(socket_list[w])
      /\ \A set : set \subseteq Doms(socket_list[w]) /\ set # {} =>
           CurrentIn(socket_list'[w], set) = CurrentIn(socket_list[w], set)
  BY <1>1, PutKeeps
<1>3. /\ todo' \in [Worker -> SUBSET Domain] /\ todo'[w] = turn
      /\ \A v \in Worker \ {w} : todo'[v] = todo[v]
  <2>1. turn \in SUBSET Domain
    BY <1>1 DEF TypeOK
  <2> QED
    BY <1>1, <2>1 DEF TypeOK
<1>4. Typed
  BY <1>1, <1>2, <1>3 DEF TypeOK, Typed
<1>5. Alone(w)
  BY <1>2, <1>3 DEF Alone
<1>6. Sock(w)'
  BY <1>2, <1>3 DEF TypeInv, Sock, SockOf, AtSocket
<1> QED
  BY <1>4, <1>5, <1>6 DEF Turn

\* The list of letters a socket keeps, and what is taken from its head.
LEMMA TailKnown ==
  ASSUME NEW S, NEW s \in Seq(S), s # <<>>
  PROVE  /\ Head(s) \in S /\ Tail(s) \in Seq(S)
         /\ DOMAIN Tail(s) = 1 .. Len(s) - 1
         /\ \A i \in DOMAIN Tail(s) : i + 1 \in DOMAIN s /\ Tail(s)[i] = s[i + 1]
         /\ 1 \in DOMAIN s /\ s[1] = Head(s)
<1>1. /\ Len(s) \in Nat /\ Len(s) > 0 /\ DOMAIN s = 1 .. Len(s)
  BY EmptySeq, LenProperties
<1>2. Head(s) \in S /\ Tail(s) \in Seq(S)
  BY HeadTailProperties
<1>3. /\ Len(Tail(s)) = Len(s) - 1
      /\ \A i \in 1 .. Len(Tail(s)) : Tail(s)[i] = s[i + 1]
  BY HeadTailProperties
<1>4. DOMAIN Tail(s) = 1 .. Len(s) - 1
  BY <1>2, <1>3, LenProperties
<1> QED
  BY <1>1, <1>2, <1>3, <1>4

LEMMA KeptTyped ==
  ASSUME NEW c \in Connection
  PROVE  Kept(c) \in Seq(Letter)
<1>1. c.task_pool \in Seq(Letter)
  BY DEF Connection
<1>2. CASE c.task_pool = <<>> \/ c.stage = "opening"
  BY <1>2 DEF Kept
<1>3. CASE ~ (c.task_pool = <<>> \/ c.stage = "opening")
  <2>1. Head(c.task_pool) \in Letter
    BY <1>1, <1>3, TailKnown
  <2>2. Kept(c) = <<Head(c.task_pool)>>
    BY <1>3 DEF Kept
  <2> QED
    BY <2>1, <2>2
<1> QED
  BY <1>2, <1>3

LEMMA CloseTurn ==
  ASSUME TypeInv, main.at # "crashed", NEW w \in Worker, NEW d \in Domain,
         CloseConnection(w, d)
  PROVE  Turn(w) /\ main' = main
<1>1. /\ pc[w] = "closing" /\ d \in todo[w] /\ main' = main /\ tasks' = tasks
      /\ worked' = worked /\ closing' = closing /\ pc' = pc
      /\ writers' = writers /\ readers' = readers /\ misled' = misled
      /\ todo' = [todo EXCEPT ![w] = todo[w] \ {d}]
  BY DEF CloseConnection, mainVars
<1>2. TypeOK /\ d \in Doms(socket_list[w])
  BY <1>1 DEF TypeInv, Sock, SockOf, AtSocket
<1> DEFINE c == Socket(w, d)
           gone == IF c.task_pool = <<>> \/ c.stage = "opening"
                   THEN Listed(c.task_pool) ELSE Listed(Tail(c.task_pool))
<1>3. SetPool(w, d, Kept(c)) /\ place' = Moved(gone, "new")
  BY DEF CloseConnection
<1>4. Kept(c) \in Seq(Letter)
  BY <1>2, SocketKnown, KeptTyped
<1> HIDE DEF c, gone
<1>5. PICK e \in Connection : e.domain = d /\ Change(w, d, e)
  BY <1>2, <1>3, <1>4, PoolPut
<1>6. place' \in [Letter -> {"new", "tmp", "current"}]
  BY <1>2, <1>3, MovedTyped DEF TypeOK
<1>7. /\ tasks' \in [Worker -> Seq(Letter)]
      /\ \A v \in Worker \ {w} : tasks'[v] = tasks[v]
  BY <1>1, <1>2 DEF TypeOK
<1>8. todo[w] \ {d} \subseteq todo[w] /\ pc[w] = "closing"
  BY <1>1
<1> QED
  BY <1>1, <1>2, <1>5, <1>6, <1>7, <1>8, PoolTurn

\* What a dialogue leaves is what it had, and what it moves it does not leave.
LEMMA LeavesTyped ==
  ASSUME TypeOK, NEW w, NEW left, Pool(w) \in Seq(Letter), Leaves(w, left)
  PROVE  left \in Seq(Letter) /\ place' \in [Letter -> {"new", "tmp", "current"}]
<1>1. CASE left = Pool(w) /\ place' = place
  BY <1>1 DEF TypeOK
<1>2. CASE /\ Pool(w) # <<>> /\ left = Tail(Pool(w))
           /\ \E folder \in {"new", "current"} : place' = Moved({Head(Pool(w))}, folder)
  <2>1. left \in Seq(Letter)
    BY <1>2, TailKnown
  <2>2. place' \in [Letter -> {"new", "tmp", "current"}]
    BY <1>2, MovedTyped DEF TypeOK
  <2> QED
    BY <2>1, <2>2
<1>3. CASE left = <<>> /\ place' = Moved(Listed(Pool(w)), "new")
  <2>1. place' \in [Letter -> {"new", "tmp", "current"}]
    BY <1>3, MovedTyped DEF TypeOK
  <2> QED
    BY <1>3, <2>1
<1> QED
  BY <1>1, <1>2, <1>3 DEF Leaves

LEMMA ServeTurn ==
  ASSUME TypeInv, main.at # "crashed", NEW w \in Worker, Dialogue(w)
  PROVE  Turn(w) /\ main' = main
<1>1. /\ pc[w] = "serving" /\ main' = main /\ tasks' = tasks
      /\ worked' = worked /\ closing' = closing /\ pc' = pc /\ todo' = todo
      /\ writers' = writers /\ readers' = readers /\ misled' = misled
  BY DialogueDoes DEF ServingOn
<1>2. TypeOK /\ Current(w) \in Doms(socket_list[w])
  BY <1>1, CurrentKnown DEF TypeInv
<1>3. Pool(w) \in Seq(Letter)
  BY <1>2, SocketKnown DEF Pool, Connection
<1>4. PICK left, stage : /\ SetSocket(w, Current(w), left, stage)
                         /\ stage \in Stages /\ Leaves(w, left)
  BY DialogueDoes
<1>5. left \in Seq(Letter) /\ place' \in [Letter -> {"new", "tmp", "current"}]
  BY <1>2, <1>3, <1>4, LeavesTyped
<1>6. PICK c \in Connection : c.domain = Current(w) /\ Change(w, Current(w), c)
  BY <1>2, <1>4, <1>5, SocketPut
<1>7. /\ tasks' \in [Worker -> Seq(Letter)]
      /\ \A v \in Worker \ {w} : tasks'[v] = tasks[v]
  BY <1>1, <1>2 DEF TypeOK
<1>8. todo' = [todo EXCEPT ![w] = todo[w]]
  BY <1>1, <1>2 DEF TypeOK
<1> QED
  BY <1>1, <1>2, <1>5, <1>6, <1>7, <1>8, PoolTurn

\* The steps at a socket that change no list and no set.
LEMMA StuckTurn ==
  ASSUME TypeInv, main.at # "crashed", NEW w \in Worker, NullPool(w) \/ Spin(w)
  PROVE  Turn(w) /\ (main' = main \/ main'.at = "crashed")
<1>1. /\ pc[w] = "serving" /\ place' = place /\ socket_list' = socket_list /\ tasks' = tasks
      /\ worked' = worked /\ closing' = closing /\ todo' = todo
      /\ writers' = writers /\ readers' = readers /\ misled' = misled
      /\ main' = main \/ main' = [main EXCEPT !.at = "crashed"]
      /\ pc' = pc \/ pc' = [pc EXCEPT ![w] = "spinning"]
  BY Zenon DEF NullPool, Spin, Serving, ServingOn, Goto
<1>2. main' = main \/ main'.at = "crashed"
  BY <1>1 DEF TypeInv, TypeOK
<1>3. /\ pc' \in [Worker -> {"looping", "select", "closing", "taking", "walking",
                             "serving", "spinning", "ended"}]
      /\ pc'[w] \in AtSocket
      /\ \A v \in Worker \ {w} : pc'[v] = pc[v]
  <2>1. CASE pc' = pc
    BY <1>1, <2>1 DEF TypeInv, TypeOK, AtSocket
  <2>2. CASE pc' = [pc EXCEPT ![w] = "spinning"]
    BY <2>2 DEF TypeInv, TypeOK, AtSocket
  <2> QED
    BY <1>1, <2>1, <2>2
<1>4. Typed /\ Alone(w)
  BY <1>1, <1>3 DEF TypeInv, TypeOK, Typed, Alone
<1>5. Sock(w)'
  <2>1. /\ Sock(w) /\ pc[w] \in AtSocket /\ pc'[w] # "walking"
    BY <1>1, <1>3 DEF TypeInv, AtSocket
  <2> QED
    BY <1>1, <1>2, <1>3, <2>1 DEF Sock, SockOf
<1> QED
  BY <1>2, <1>4, <1>5 DEF Turn

\* The letter at the head of the tasks.
LEMMA TaskKnown ==
  ASSUME TypeOK, NEW w \in Worker, tasks[w] # <<>>
  PROVE  /\ tasks[w] \in Seq(Letter) /\ Head(tasks[w]) \in Letter
         /\ DomainOf[Head(tasks[w])] \in Domain
         /\ Tail(tasks[w]) \in Seq(Letter)
<1>1. tasks[w] \in Seq(Letter)
  BY DEF TypeOK
<1> QED
  BY <1>1, TailKnown, ClientAssumption

\* A socket is opened for the letter.
LEMMA OpenTurn ==
  ASSUME TypeInv, NEW w \in Worker, NEW d \in Domain, d \notin Doms(socket_list[w]),
         NEW l \in Letter, pc[w] = "taking", pc' = pc,
         socket_list' = [socket_list EXCEPT ![w] =
           Append(@, [domain |-> d, task_pool |-> <<l>>, stage |-> "opening"])],
         readers' = Put(readers, w, d),
         writers' = writers \/ (Stray \in writers[w] /\ writers' = Put(writers, w, d)),
         misled' = misled, todo' = todo
  PROVE  /\ socket_list' \in [Worker -> Seq(Connection)]
         /\ readers' \in [Worker -> SUBSET Descriptor]
         /\ writers' \in [Worker -> SUBSET Descriptor]
         /\ \A v \in Worker \ {w} : /\ socket_list'[v] = socket_list[v]
                                    /\ readers'[v] = readers[v] /\ writers'[v] = writers[v]
         /\ Sock(w)'
<1> DEFINE c == [domain |-> d, task_pool |-> <<l>>, stage |-> "opening"]
           s == socket_list[w]
<1>1. c \in Connection /\ c.domain = d
  <2>1. <<l>> \in Seq(Letter)
    OBVIOUS
  <2> QED
    BY <2>1 DEF Connection
<1>2. s \in Seq(Connection) /\ OncePerDomain(s)
  BY DEF TypeInv, TypeOK, Sock, SockOf
<1>3. socket_list' = [socket_list EXCEPT ![w] = Append(s, c)]
  OBVIOUS
<1>4. s = socket_list[w]
  OBVIOUS
<1> HIDE DEF c, s
<1>5. /\ Append(s, c) \in Seq(Connection) /\ OncePerDomain(Append(s, c))
      /\ Doms(Append(s, c)) = Doms(s) \cup {d}
  BY <1>1, <1>2, <1>4, Opened
<1>6. /\ socket_list' \in [Worker -> Seq(Connection)] /\ socket_list'[w] = Append(s, c)
      /\ \A v \in Worker \ {w} : socket_list'[v] = socket_list[v]
  BY <1>3, <1>5 DEF TypeInv, TypeOK
<1>7. /\ readers' \in [Worker -> SUBSET Descriptor] /\ readers'[w] = readers[w] \cup {d}
      /\ \A v \in Worker \ {w} : readers'[v] = readers[v]
  BY DEF TypeInv, TypeOK, Put, Descriptor
<1>8. /\ writers' \in [Worker -> SUBSET Descriptor]
      /\ writers'[w] = writers[w] \/ (Stray \in writers[w] /\ writers'[w] = writers[w] \cup {d})
      /\ \A v \in Worker \ {w} : writers'[v] = writers[v]
  <2>1. CASE writers' = writers
    BY <2>1 DEF TypeInv, TypeOK
  <2>2. CASE Stray \in writers[w] /\ writers' = Put(writers, w, d)
    BY <2>2 DEF TypeInv, TypeOK, Put, Descriptor
  <2> QED
    BY <2>1, <2>2
<1>9. Sock(w)'
  <2>1. /\ Doms(s) \subseteq readers[w] \cup writers[w] /\ todo[w] \subseteq Doms(s)
        /\ ~ misled[w] => /\ readers[w] \cap writers[w] = {}
                          /\ readers[w] \cup writers[w] = Doms(s)
    BY <1>4 DEF TypeInv, Sock, SockOf, AtSocket
  <2>2. misled'[w] = misled[w] /\ todo'[w] = todo[w] /\ pc'[w] = "taking" /\ d \notin Doms(s)
    BY <1>4
  <2>3. Doms(s) \subseteq Domain
    <3>1. \A k \in DOMAIN s : s[k] \in Connection
      BY <1>2, Indices
    <3> QED
      BY <3>1 DEF Doms, Connection
  <2>4. /\ Doms(s) \cup {d} \subseteq readers'[w] \cup writers'[w]
        /\ todo'[w] \subseteq Doms(s) \cup {d}
    BY <1>7, <1>8, <2>1, <2>2
  <2>5. ASSUME ~ misled'[w]
        PROVE  /\ readers'[w] \cap writers'[w] = {}
               /\ readers'[w] \cup writers'[w] = Doms(s) \cup {d}
    <3>1. Stray \notin writers[w]
      BY <2>1, <2>2, <2>3, <2>5, ClientAssumption
    <3> QED
      BY <1>7, <1>8, <2>1, <2>2, <2>5, <3>1
  <2> QED
    BY <1>5, <1>6, <2>2, <2>4, <2>5 DEF Sock, SockOf, AtSocket
<1> QED
  BY <1>6, <1>7, <1>8, <1>9

\* No socket is opened, and the worker may take none for one.
LEMMA VainTurn ==
  ASSUME TypeInv, NEW w \in Worker, NEW l \in Letter, pc[w] = "taking", pc' = pc,
         todo' = todo, TakeInVain(w, l)
  PROVE  /\ place' \in [Letter -> {"new", "tmp", "current"}]
         /\ socket_list' = socket_list /\ writers' = writers
         /\ readers' \in [Worker -> SUBSET Descriptor] /\ misled' \in [Worker -> BOOLEAN]
         /\ \A v \in Worker \ {w} : readers'[v] = readers[v] /\ misled'[v] = misled[v]
         /\ main' = main \/ main'.at = "crashed"
         /\ Sock(w)'
<1>1. TypeOK /\ socket_list' = socket_list /\ writers' = writers
  BY Zenon DEF TypeInv, TakeInVain
<1>2. /\ \/ place' = Moved({l}, "new") /\ readers' = readers /\ misled' = misled
         \/ /\ place' = place /\ misled' = [misled EXCEPT ![w] = TRUE]
            /\ \E d \in Domains(w) \cup {Stray} : readers' = Put(readers, w, d)
         \/ place' = place /\ readers' = readers /\ misled' = misled
      /\ main' = main \/ main' = [main EXCEPT !.at = "crashed"]
  BY Zenon DEF TakeInVain
<1>3. place' \in [Letter -> {"new", "tmp", "current"}]
  BY <1>1, <1>2, MovedTyped DEF TypeOK
<1>4. Domains(w) \subseteq Domain
  <2>1. \A i \in DOMAIN socket_list[w] : socket_list[w][i] \in Connection
    BY <1>1, Indices DEF TypeOK
  <2> QED
    BY <2>1, DomainsAre DEF Doms, Connection
<1>5. /\ readers' \in [Worker -> SUBSET Descriptor] /\ misled' \in [Worker -> BOOLEAN]
      /\ readers[w] \subseteq readers'[w]
      /\ ~ misled'[w] => ~ misled[w] /\ readers'[w] = readers[w]
      /\ \A v \in Worker \ {w} : readers'[v] = readers[v] /\ misled'[v] = misled[v]
  <2>1. CASE readers' = readers /\ misled' = misled
    BY <1>1, <2>1 DEF TypeOK
  <2>2. ASSUME NEW d \in Domains(w) \cup {Stray}, readers' = Put(readers, w, d),
               misled' = [misled EXCEPT ![w] = TRUE]
        PROVE  /\ readers' \in [Worker -> SUBSET Descriptor] /\ misled' \in [Worker -> BOOLEAN]
               /\ readers[w] \subseteq readers'[w] /\ misled'[w]
               /\ \A v \in Worker \ {w} : readers'[v] = readers[v] /\ misled'[v] = misled[v]
    <3>1. d \in Descriptor
      BY <1>4, <2>2 DEF Descriptor
    <3> QED
      BY <1>1, <2>2, <3>1 DEF TypeOK, Put
  <2> QED
    BY <1>2, <2>1, <2>2
<1>6. main' = main \/ main'.at = "crashed"
  BY <1>1, <1>2 DEF TypeOK
<1>7. Sock(w)'
  <2>1. /\ Sock(w) /\ pc'[w] = "taking" /\ pc[w] = "taking" /\ todo'[w] = todo[w]
        /\ socket_list'[w] = socket_list[w] /\ writers'[w] = writers[w]
    BY <1>1 DEF TypeInv
  <2> QED
    BY <1>5, <2>1 DEF Sock, SockOf, AtSocket
<1> QED
  BY <1>1, <1>3, <1>5, <1>6, <1>7

LEMMA TakeTurn ==
  ASSUME TypeInv, main.at # "crashed", NEW w \in Worker, TakeTask(w)
  PROVE  Turn(w) /\ (main' = main \/ main'.at = "crashed")
<1> DEFINE l == Head(tasks[w])
           d == DomainOf[l]
<1>1. /\ pc[w] = "taking" /\ tasks[w] # <<>>
      /\ tasks' = [tasks EXCEPT ![w] = Tail(tasks[w])]
      /\ worked' = worked /\ closing' = closing /\ pc' = pc /\ todo' = todo
  BY DEF TakeTask
<1>2. TypeOK
  BY DEF TypeInv
<1>3. l \in Letter /\ d \in Domain /\ Tail(tasks[w]) \in Seq(Letter)
  BY <1>1, <1>2, TaskKnown
<1>4. /\ tasks' \in [Worker -> Seq(Letter)]
      /\ \A v \in Worker \ {w} : tasks'[v] = tasks[v]
  BY <1>1, <1>2, <1>3 DEF TypeOK
<1>5. HasSocket(w, d) <=> d \in Doms(socket_list[w])
  BY DomainsAre DEF HasSocket
<1>6. TakeToSocket(w, l) \/ TakeToNewSocket(w, l) \/ TakeInVain(w, l)
  BY DEF TakeTask
<1>6a. d = DomainOf[l]
  OBVIOUS
<1> HIDE DEF l, d
<1>7. CASE TakeToSocket(w, l)
  <2>1. /\ HasSocket(w, d) /\ SetPool(w, d, Append(Socket(w, d).task_pool, l))
        /\ place' = place /\ main' = main /\ readers' = readers /\ writers' = writers
        /\ misled' = misled
    BY <1>6a, <1>7 DEF TakeToSocket
  <2>2. d \in Doms(socket_list[w])
    BY <1>5, <2>1
  <2>3. Append(Socket(w, d).task_pool, l) \in Seq(Letter)
    <3>1. Socket(w, d).task_pool \in Seq(Letter)
      BY <1>2, <2>2, SocketKnown DEF Connection
    <3> QED
      BY <1>3, <3>1
  <2>4. PICK c \in Connection : c.domain = d /\ Change(w, d, c)
    BY <1>2, <2>1, <2>2, <2>3, PoolPut
  <2>5. place' \in [Letter -> {"new", "tmp", "current"}]
    BY <1>2, <2>1 DEF TypeOK
  <2>6. todo' = [todo EXCEPT ![w] = todo[w]]
    BY <1>1, <1>2 DEF TypeOK
  <2> QED
    BY <1>1, <1>4, <2>1, <2>2, <2>4, <2>5, <2>6, PoolTurn
<1>8. CASE TakeToNewSocket(w, l)
  <2>1. /\ ~ HasSocket(w, d)
        /\ socket_list' = [socket_list EXCEPT ![w] =
             Append(@, [domain |-> d, task_pool |-> <<l>>, stage |-> "opening"])]
        /\ readers' = Put(readers, w, d)
        /\ writers' = writers \/ (Stray \in writers[w] /\ writers' = Put(writers, w, d))
        /\ place' = place /\ main' = main /\ misled' = misled
    BY <1>6a, <1>8, Zenon DEF TakeToNewSocket
  <2>2. /\ socket_list' \in [Worker -> Seq(Connection)]
        /\ readers' \in [Worker -> SUBSET Descriptor]
        /\ writers' \in [Worker -> SUBSET Descriptor]
        /\ \A v \in Worker \ {w} : /\ socket_list'[v] = socket_list[v]
                                   /\ readers'[v] = readers[v] /\ writers'[v] = writers[v]
        /\ Sock(w)'
    <3>1. d \notin Doms(socket_list[w])
      BY <1>5, <2>1
    <3> QED
      BY <1>1, <1>3, <2>1, <3>1, OpenTurn
  <2>3. Typed /\ Alone(w)
    BY <1>1, <1>2, <1>4, <2>1, <2>2 DEF TypeOK, Typed, Alone
  <2> QED
    BY <2>1, <2>2, <2>3 DEF Turn
<1>9. CASE TakeInVain(w, l)
  <2>1. /\ place' \in [Letter -> {"new", "tmp", "current"}]
        /\ socket_list' = socket_list /\ writers' = writers
        /\ readers' \in [Worker -> SUBSET Descriptor] /\ misled' \in [Worker -> BOOLEAN]
        /\ \A v \in Worker \ {w} : readers'[v] = readers[v] /\ misled'[v] = misled[v]
        /\ main' = main \/ main'.at = "crashed"
        /\ Sock(w)'
    BY <1>1, <1>3, <1>9, VainTurn
  <2>2. Typed /\ Alone(w)
    BY <1>1, <1>2, <1>4, <2>1 DEF TypeOK, Typed, Alone
  <2> QED
    BY <2>1, <2>2 DEF Turn
<1> QED
  BY <1>6, <1>7, <1>8, <1>9

LEMMA StartTurn ==
  ASSUME TypeInv, main.at # "crashed", NEW w \in Worker, StartServing(w)
  PROVE  Turn(w) /\ main' = main
<1>1. /\ pc[w] = "walking" /\ place' = place /\ main' = main /\ tasks' = tasks
      /\ worked' = worked /\ closing' = closing /\ todo' = todo
      /\ socket_list' = socket_list /\ misled' = misled
      /\ pc' = [pc EXCEPT ![w] = "serving"]
  BY DEF StartServing, mainVars, Goto
<1>2. /\ Current(w) = CurrentIn(socket_list[w], todo[w])
      /\ Current(w) \in Doms(socket_list[w]) /\ TypeOK
  BY <1>1, CurrentKnown DEF TypeInv
<1>3. /\ pc' \in [Worker -> {"looping", "select", "closing", "taking", "walking",
                             "serving", "spinning", "ended"}]
      /\ pc'[w] = "serving" /\ \A v \in Worker \ {w} : pc'[v] = pc[v]
  BY <1>1, <1>2 DEF TypeOK
<1>4. /\ readers' \in [Worker -> SUBSET Descriptor] /\ writers' \in [Worker -> SUBSET Descriptor]
      /\ \/ /\ Current(w) \in readers[w] /\ readers'[w] = readers[w] \ {Current(w)}
            /\ writers'[w] = writers[w]
         \/ /\ Current(w) \in writers[w] /\ writers'[w] = writers[w] \ {Current(w)}
            /\ readers'[w] = readers[w]
      /\ \A v \in Worker \ {w} : readers'[v] = readers[v] /\ writers'[v] = writers[v]
  <2>1. CASE /\ Current(w) \in readers[w]
             /\ readers' = LetGo(readers, w, Current(w)) /\ writers' = writers
    BY <1>2, <2>1 DEF TypeOK, LetGo
  <2>2. CASE /\ Current(w) \in writers[w]
             /\ writers' = LetGo(writers, w, Current(w)) /\ readers' = readers
    BY <1>2, <2>2 DEF TypeOK, LetGo
  <2> QED
    BY <2>1, <2>2, Zenon DEF StartServing
<1>5. Typed /\ Alone(w)
  BY <1>1, <1>2, <1>3, <1>4 DEF TypeOK, Typed, Alone
<1>6. Sock(w)'
  <2>1. /\ OncePerDomain(socket_list[w]) /\ todo[w] # {}
        /\ Doms(socket_list[w]) \subseteq readers[w] \cup writers[w]
        /\ todo[w] \subseteq Doms(socket_list[w])
        /\ ~ misled[w] => /\ readers[w] \cap writers[w] = {}
                          /\ readers[w] \cup writers[w] = Doms(socket_list[w])
    BY <1>1 DEF TypeInv, Sock, SockOf, AtSocket
  <2>2. Doms(socket_list[w]) \ {Current(w)} \subseteq readers'[w] \cup writers'[w]
    BY <1>4, <2>1
  <2>3. ASSUME ~ misled[w]
        PROVE  /\ readers'[w] \cap writers'[w] = {}
               /\ readers'[w] \cup writers'[w] = Doms(socket_list[w]) \ {Current(w)}
    BY <1>4, <2>1, <2>3
  <2> QED
    BY <1>1, <1>2, <1>3, <2>1, <2>2, <2>3 DEF Sock, SockOf, AtSocket
<1> QED
  BY <1>1, <1>5, <1>6 DEF Turn

\* Served, with what it leaves to do.
LEMMA ServedKnown ==
  ASSUME TypeOK, NEW w \in Worker, Served(w)
  PROVE  /\ todo' \in [Worker -> SUBSET Domain] /\ todo'[w] = todo[w] \ {Current(w)}
         /\ pc' \in [Worker -> {"looping", "select", "closing", "taking", "walking",
                                "serving", "spinning", "ended"}]
         /\ \/ pc'[w] = "looping"
            \/ pc'[w] = "walking" /\ todo'[w] # {}
         /\ \A v \in Worker \ {w} : todo'[v] = todo[v] /\ pc'[v] = pc[v]
<1>1. todo' = [todo EXCEPT ![w] = @ \ {Current(w)}]
  BY DEF Served, LetGo
<1>2. /\ todo' \in [Worker -> SUBSET Domain] /\ todo'[w] = todo[w] \ {Current(w)}
      /\ \A v \in Worker \ {w} : todo'[v] = todo[v]
  BY <1>1 DEF TypeOK
<1>3. \/ pc' = [pc EXCEPT ![w] = "looping"]
      \/ pc' = [pc EXCEPT ![w] = "walking"] /\ todo'[w] # {}
  BY DEF Served, Goto
<1>4. /\ pc' \in [Worker -> {"looping", "select", "closing", "taking", "walking",
                             "serving", "spinning", "ended"}]
      /\ pc'[w] = "looping" \/ (pc'[w] = "walking" /\ todo'[w] # {})
      /\ \A v \in Worker \ {w} : pc'[v] = pc[v]
  BY <1>3 DEF TypeOK
<1> QED
  BY <1>2, <1>4

LEMMA BlockTurn ==
  ASSUME TypeInv, main.at # "crashed", NEW w \in Worker, Block(w)
  PROVE  Turn(w) /\ main' = main
<1>1. /\ pc[w] = "serving" /\ place' = place /\ main' = main /\ tasks' = tasks
      /\ worked' = worked /\ closing' = closing /\ misled' = misled
      /\ socket_list' = socket_list /\ Served(w)
  BY DEF Block, Serving, mainVars
<1>2. /\ Current(w) = CurrentIn(socket_list[w], todo[w])
      /\ Current(w) \in Doms(socket_list[w]) /\ Current(w) \in Domain /\ TypeOK
  BY <1>1, CurrentKnown DEF TypeInv
<1>3. /\ todo' \in [Worker -> SUBSET Domain] /\ todo'[w] = todo[w] \ {Current(w)}
      /\ pc' \in [Worker -> {"looping", "select", "closing", "taking", "walking",
                             "serving", "spinning", "ended"}]
      /\ \/ pc'[w] = "looping"
         \/ pc'[w] = "walking" /\ todo'[w] # {}
      /\ \A v \in Worker \ {w} : todo'[v] = todo[v] /\ pc'[v] = pc[v]
  BY <1>1, <1>2, ServedKnown
<1>4. /\ readers' \in [Worker -> SUBSET Descriptor] /\ writers' \in [Worker -> SUBSET Descriptor]
      /\ \A v \in Worker \ {w} : readers'[v] = readers[v] /\ writers'[v] = writers[v]
      /\ \/ readers'[w] = readers[w] \cup {Current(w)} /\ writers'[w] = writers[w]
         \/ readers'[w] = readers[w] /\ writers'[w] = writers[w] \cup {Current(w)}
  <2>1. CASE readers' = Put(readers, w, Current(w)) /\ writers' = writers
    BY <1>2, <2>1 DEF TypeOK, Put, Descriptor
  <2>2. CASE writers' = Put(writers, w, Current(w)) /\ readers' = readers
    BY <1>2, <2>2 DEF TypeOK, Put, Descriptor
  <2> QED
    BY <2>1, <2>2, Zenon DEF Block
<1>5. Typed /\ Alone(w)
  BY <1>1, <1>2, <1>3, <1>4 DEF TypeOK, Typed, Alone
<1>6. Sock(w)'
  <2>1. /\ OncePerDomain(socket_list[w])
        /\ Doms(socket_list[w]) \ {Current(w)} \subseteq readers[w] \cup writers[w]
        /\ todo[w] \subseteq Doms(socket_list[w])
        /\ ~ misled[w] =>
             /\ readers[w] \cap writers[w] = {}
             /\ readers[w] \cup writers[w] = Doms(socket_list[w]) \ {Current(w)}
    BY <1>1, <1>2 DEF TypeInv, Sock, SockOf, AtSocket
  <2>2. Doms(socket_list[w]) \subseteq readers'[w] \cup writers'[w]
    BY <1>2, <1>4, <2>1
  <2>3. ASSUME ~ misled[w]
        PROVE  /\ readers'[w] \cap writers'[w] = {}
               /\ readers'[w] \cup writers'[w] = Doms(socket_list[w])
    BY <1>2, <1>4, <2>1, <2>3
  <2>4. todo'[w] \subseteq Doms(socket_list[w])
    BY <1>3, <2>1
  <2> QED
    BY <1>1, <1>3, <2>1, <2>2, <2>3, <2>4 DEF Sock, SockOf, AtSocket
<1> QED
  BY <1>1, <1>5, <1>6 DEF Turn

LEMMA UnlistKnown ==
  ASSUME TypeInv, main.at # "crashed", NEW w \in Worker, Unlist(w)
  PROVE  /\ socket_list' \in [Worker -> Seq(Connection)]
         /\ socket_list'[w] = Without(socket_list[w], AtIn(socket_list[w], Current(w)))
         /\ OncePerDomain(socket_list'[w])
         /\ Doms(socket_list'[w]) = Doms(socket_list[w]) \ {Current(w)}
         /\ \A v \in Worker \ {w} : socket_list'[v] = socket_list[v]
<1>1. TypeOK /\ pc[w] = "serving"
  BY DEF TypeInv, Unlist
<1>2. Current(w) \in Doms(socket_list[w]) /\ OncePerDomain(socket_list[w])
  BY <1>1, CurrentKnown
<1> DEFINE s == socket_list[w]
           i == AtIn(s, Current(w))
<1>3. s \in Seq(Connection) /\ s = socket_list[w]
  BY <1>1 DEF TypeOK
<1>4. socket_list' = [socket_list EXCEPT ![w] = Without(s, i)]
  BY AtIs DEF Unlist, Without
<1> HIDE DEF s
<1>5. i \in DOMAIN s /\ s[i].domain = Current(w)
  BY <1>2, <1>3, AtFinds
<1>6. /\ Without(s, i) \in Seq(Connection) /\ OncePerDomain(Without(s, i))
      /\ Doms(Without(s, i)) = Doms(s) \ {Current(w)}
  <2> HIDE DEF i
  <2> QED
    BY <1>2, <1>3, <1>5, Freed
<1>7. /\ socket_list' \in [Worker -> Seq(Connection)] /\ socket_list'[w] = Without(s, i)
      /\ \A v \in Worker \ {w} : socket_list'[v] = socket_list[v]
  <2> HIDE DEF i
  <2> QED
    BY <1>1, <1>4, <1>6 DEF TypeOK
<1> QED
  BY <1>3, <1>6, <1>7

\* The number of a removed socket that is still in a set is no socket's any more.
LEMMA StrayedKnown ==
  ASSUME NEW set \in [Worker -> SUBSET Descriptor], NEW w \in Worker, NEW d
  PROVE  /\ Strayed(set, w, d) \in [Worker -> SUBSET Descriptor]
         /\ \A v \in Worker \ {w} : Strayed(set, w, d)[v] = set[v]
         /\ set[w] \ {d} \subseteq Strayed(set, w, d)[w]
         /\ d \notin set[w] => Strayed(set, w, d)[w] = set[w]
BY DEF Strayed, Put, LetGo, Descriptor

LEMMA RemoveTurn ==
  ASSUME TypeInv, main.at # "crashed", NEW w \in Worker, Remove(w)
  PROVE  Turn(w) /\ (main' = main \/ main'.at = "crashed")
<1>1. /\ Unlist(w) /\ pc[w] = "serving" /\ place' = place /\ tasks' = tasks
      /\ worked' = worked /\ closing' = closing /\ misled' = misled
      /\ readers' = Strayed(readers, w, Current(w))
      /\ writers' = Strayed(writers, w, Current(w))
  BY DEF Remove, Unlist
<1>2. /\ Current(w) = CurrentIn(socket_list[w], todo[w])
      /\ Current(w) \in Doms(socket_list[w]) /\ Current(w) \in Domain /\ TypeOK
  BY <1>1, CurrentKnown DEF TypeInv
<1>3. /\ socket_list' \in [Worker -> Seq(Connection)]
      /\ OncePerDomain(socket_list'[w])
      /\ Doms(socket_list'[w]) = Doms(socket_list[w]) \ {Current(w)}
      /\ \A v \in Worker \ {w} : socket_list'[v] = socket_list[v]
  BY <1>1, UnlistKnown
<1>4. /\ todo' \in [Worker -> SUBSET Domain]
      /\ pc' \in [Worker -> {"looping", "select", "closing", "taking", "walking",
                             "serving", "spinning", "ended"}]
      /\ \A v \in Worker \ {w} : todo'[v] = todo[v] /\ pc'[v] = pc[v]
      /\ \/ /\ main' = main
            /\ \/ pc'[w] = "looping" /\ todo'[w] \subseteq todo[w] \ {Current(w)}
               \/ pc'[w] = "walking" /\ todo'[w] = todo[w] \ {Current(w)} /\ todo'[w] # {}
         \/ main'.at = "crashed" /\ pc'[w] = "serving"
  <2>1. CASE Served(w) /\ main' = main
    BY <1>2, <2>1, ServedKnown
  <2>2. CASE todo' = [todo EXCEPT ![w] = {}] /\ Goto(w, "looping") /\ main' = main
    BY <1>2, <2>2 DEF TypeOK, Goto
  <2>3. CASE main' = [main EXCEPT !.at = "crashed"] /\ todo' = todo /\ pc' = pc
    BY <1>1, <1>2, <2>3 DEF TypeOK
  <2> QED
    BY <2>1, <2>2, <2>3, Zenon DEF Remove
<1>4a. /\ readers' \in [Worker -> SUBSET Descriptor]
       /\ writers' \in [Worker -> SUBSET Descriptor]
       /\ \A v \in Worker \ {w} : readers'[v] = readers[v] /\ writers'[v] = writers[v]
       /\ readers[w] \ {Current(w)} \subseteq readers'[w]
       /\ writers[w] \ {Current(w)} \subseteq writers'[w]
       /\ Current(w) \notin readers[w] => readers'[w] = readers[w]
       /\ Current(w) \notin writers[w] => writers'[w] = writers[w]
  <2>1. readers \in [Worker -> SUBSET Descriptor] /\ writers \in [Worker -> SUBSET Descriptor]
    BY <1>2 DEF TypeOK
  <2> DEFINE r == Strayed(readers, w, Current(w))
             wr == Strayed(writers, w, Current(w))
  <2>2. /\ r \in [Worker -> SUBSET Descriptor]
        /\ \A v \in Worker \ {w} : r[v] = readers[v]
        /\ readers[w] \ {Current(w)} \subseteq r[w]
        /\ Current(w) \notin readers[w] => r[w] = readers[w]
    BY <2>1, StrayedKnown
  <2>3. /\ wr \in [Worker -> SUBSET Descriptor]
        /\ \A v \in Worker \ {w} : wr[v] = writers[v]
        /\ writers[w] \ {Current(w)} \subseteq wr[w]
        /\ Current(w) \notin writers[w] => wr[w] = writers[w]
    BY <2>1, StrayedKnown
  <2>4. readers' = r /\ writers' = wr
    BY <1>1
  <2> HIDE DEF r, wr
  <2> QED
    BY <2>2, <2>3, <2>4
<1>5. Typed /\ Alone(w)
  BY <1>1, <1>2, <1>3, <1>4, <1>4a DEF TypeOK, Typed, Alone
<1>6. Sock(w)'
  <2>1. /\ Doms(socket_list[w]) \ {Current(w)} \subseteq readers[w] \cup writers[w]
        /\ todo[w] \subseteq Doms(socket_list[w])
        /\ ~ misled[w] =>
             /\ readers[w] \cap writers[w] = {}
             /\ readers[w] \cup writers[w] = Doms(socket_list[w]) \ {Current(w)}
    BY <1>1, <1>2 DEF TypeInv, Sock, SockOf, AtSocket
  <2>1a. Doms(socket_list'[w]) \subseteq readers'[w] \cup writers'[w]
    BY <1>3, <1>4a, <2>1
  <2>1b. ASSUME ~ misled[w]
         PROVE  /\ readers'[w] \cap writers'[w] = {}
                /\ readers'[w] \cup writers'[w] = Doms(socket_list'[w])
    <3>1. Current(w) \notin readers[w] /\ Current(w) \notin writers[w]
      BY <2>1, <2>1b
    <3> QED
      BY <1>3, <1>4a, <2>1, <2>1b, <3>1
  <2>2. CASE main' = main
    <3>1. todo'[w] \subseteq Doms(socket_list'[w])
      BY <1>1, <1>3, <1>4, <2>1, <2>2
    <3>2. pc'[w] \in {"looping", "walking"} /\ (pc'[w] = "walking" => todo'[w] # {})
      BY <1>4, <2>2
    <3> QED
      BY <1>1, <1>3, <2>1a, <2>1b, <3>1, <3>2 DEF Sock, SockOf, AtSocket
  <2>3. CASE main'.at = "crashed" /\ pc'[w] = "serving"
    BY <1>1, <1>3, <2>1a, <2>1b, <2>3 DEF Sock, SockOf, AtSocket
  <2> QED
    BY <1>4, <2>2, <2>3
<1> QED
  BY <1>4, <1>5, <1>6 DEF Turn

LEMMA WorkerTurn ==
  ASSUME TypeInv, main.at # "crashed", NEW w \in Worker, WorkerStep(w)
  PROVE  Turn(w) /\ (main' = main \/ main'.at = "crashed")
<1>1. CASE Loop(w) \/ EndTaking(w)
  BY <1>1, LoopTurn
<1>2. CASE Select(w) \/ EndClosing(w)
  BY <1>2, SelectTurn
<1>3. CASE TakeTask(w)
  BY <1>3, TakeTurn
<1>4. ASSUME NEW d \in Domain, CloseConnection(w, d)
      PROVE  Turn(w) /\ main' = main
  BY <1>4, CloseTurn
<1>5. CASE StartServing(w)
  BY <1>5, StartTurn
<1>6. CASE Dialogue(w)
  BY <1>6, ServeTurn
<1>7. CASE Block(w)
  BY <1>7, BlockTurn
<1>8. CASE Remove(w)
  BY <1>8, RemoveTurn
<1>9. CASE NullPool(w) \/ Spin(w)
  BY <1>9, StuckTurn
<1> QED
  BY <1>1, <1>2, <1>3, <1>4, <1>5, <1>6, <1>7, <1>8, <1>9, Zenon DEF WorkerStep, Dialogue

LEMMA DictionaryTyped ==
  ASSUME TypeOK, RecordsInv, NEW w \in Worker, WorkerStep(w)
  PROVE  Dictionary' \in Seq(Record)
<1>1. Dictionary \in Seq(Record)
  BY DEF TypeOK, Record
<1>2. Dictionary' = Dictionary \/ \E d : Dictionary' = Removed(d)
  BY WorkerEffect
<1>3. ASSUME NEW d, Dictionary' = Removed(d) PROVE Dictionary' \in Seq(Record)
  BY <1>1, <1>3, RemovedKeeps DEF RecordsInv
<1> QED
  BY <1>1, <1>2, <1>3

LEMMA WorkerTypeStep ==
  ASSUME TypeInv, RecordsInv, main.at # "crashed", NEW w \in Worker, WorkerStep(w)
  PROVE  TypeInv'
<1>1. Turn(w) /\ (main' = main \/ main'.at = "crashed")
  BY WorkerTurn
<1>2. count_task' = count_task
  BY WorkerEffect
<1>3. main' = main \/ main' = [main EXCEPT !.at = "crashed"]
  BY WorkerEffect
<1>4. Dictionary' \in Seq([domain : Domain, workerId : Worker])
  BY DictionaryTyped DEF TypeInv, Record
<1>5. main' \in [at : {"watching", "adding", "added", "delegating", "joining",
                       "ended", "crashed"},
                 letter : SUBSET Letter, worker : Int, tryes : 0 .. 3]
  BY <1>3 DEF TypeInv, TypeOK
<1>6. TypeOK'
  BY <1>1, <1>2, <1>4, <1>5, Zenon DEF Turn, Typed, TypeInv, TypeOK
<1>7. Hands'
  BY <1>1, <1>2 DEF TypeInv, Hands
<1>8. \A v \in Worker : Sock(v)'
  <2>1. SUFFICES ASSUME NEW v \in Worker, v # w PROVE Sock(v)'
    BY <1>1 DEF Turn
  <2>2. Sock(v)
    BY DEF TypeInv
  <2>3. /\ socket_list'[v] = socket_list[v] /\ readers'[v] = readers[v]
        /\ writers'[v] = writers[v] /\ misled'[v] = misled[v]
        /\ todo'[v] = todo[v] /\ pc'[v] = pc[v]
    BY <1>1, <2>1 DEF Turn, Alone
  <2> QED
    BY <1>1, <2>2, <2>3 DEF Sock, SockOf, AtSocket
<1> QED
  BY <1>6, <1>7, <1>8 DEF TypeInv

-----------------------------------------------------------------------------
\* The main thread touches no socket.

LEMMA SocksStay ==
  ASSUME TypeInv, main.at # "crashed", UNCHANGED <<listVars, todo, pc>>
  PROVE  \A w \in Worker : Sock(w)'
<1> SUFFICES ASSUME NEW w \in Worker PROVE Sock(w)'
  OBVIOUS
<1>1. Sock(w)
  BY DEF TypeInv
<1> QED
  BY <1>1 DEF listVars, Sock, SockOf, AtSocket

\* Its records have a fixed shape.
LEMMA MainFields ==
  ASSUME TypeOK
  PROVE  /\ main.at \in {"watching", "adding", "added", "delegating", "joining",
                         "ended", "crashed"}
         /\ main.letter \subseteq Letter /\ main.worker \in Int
         /\ main.tryes \in 0 .. 3
         /\ main = [at |-> main.at, letter |-> main.letter,
                    worker |-> main.worker, tryes |-> main.tryes]
BY DEF TypeOK

\* The first record of a domain names a worker of the pool.
LEMMA RecordKnown ==
  ASSUME TypeOK, NEW d, Records(d) # {}
  PROVE  Dictionary[First(d)].workerId \in Worker
<1>1. Dictionary \in Seq(Record)
  BY DEF TypeOK, Record
<1>2. Records(d) \subseteq Nat
  BY <1>1, Indices DEF Records
<1>3. \E i \in Records(d) : \A j \in Records(d) : i <= j
  BY <1>2, Least
<1>4. First(d) \in Records(d)
  BY <1>3, Zenon DEF First
<1>5. Dictionary[First(d)] \in Record
  BY <1>1, <1>4, Indices DEF Records
<1> QED
  BY <1>5 DEF Record

LEMMA MainBuilt ==
  ASSUME NEW at \in {"watching", "adding", "added", "delegating", "joining",
                     "ended", "crashed"},
         NEW letter \in SUBSET Letter, NEW worker \in Int, NEW tryes \in 0 .. 3,
         main' = [at |-> at, letter |-> letter, worker |-> worker, tryes |-> tryes]
  PROVE  /\ main' \in [at : {"watching", "adding", "added", "delegating", "joining",
                             "ended", "crashed"},
                       letter : SUBSET Letter, worker : Int, tryes : 0 .. 3]
         /\ main'.at = at /\ main'.letter = letter /\ main'.worker = worker
         /\ main'.tryes = tryes
OBVIOUS

LEMMA Watched ==
  ASSUME TypeOK, Watch
  PROVE  /\ main' \in [at : {"watching", "adding", "added", "delegating", "joining",
                             "ended", "crashed"},
                       letter : SUBSET Letter, worker : Int, tryes : 0 .. 3]
         /\ main'.at = "watching" /\ main'.letter = {} /\ main'.tryes = 0
<1>1. main' = [at |-> "watching", letter |-> {}, worker |-> -1, tryes |-> 0]
  BY MainFields DEF Watch
<1>2. {} \in SUBSET Letter /\ -1 \in Int /\ 0 \in 0 .. 3
  OBVIOUS
<1> QED
  BY <1>1, <1>2, MainBuilt

LEMMA MainTypeStep ==
  ASSUME TypeInv, RecordsInv, main.at # "crashed", Main
  PROVE  TypeInv'
<1>1. TypeOK
  BY DEF TypeInv
<1> DEFINE MainType ==
      [at : {"watching", "adding", "added", "delegating", "joining", "ended", "crashed"},
       letter : SUBSET Letter, worker : Int, tryes : 0 .. 3]
<1>2. /\ socket_list' = socket_list /\ readers' = readers /\ writers' = writers
      /\ misled' = misled /\ todo' = todo /\ pc' = pc /\ closing' = closing
  BY Zenon DEF Main, FindLetter, AddRecord, ReadAdded, Delegate, DelegateNowhere,
               Dispose, Join, listVars
<1>3. \A w \in Worker : Sock(w)'
  BY <1>2, SocksStay DEF listVars
<1>4. ASSUME NEW l \in Letter, FindLetter(l)
      PROVE  TypeInv'
  <2>1. /\ main.at = "watching" /\ \A w \in Worker : count_task[w] < MaxDelegations
        /\ UNCHANGED <<place, Dictionary, tasks, count_task, worked>>
    BY <1>4 DEF FindLetter
  <2>2. \E at \in {"adding", "delegating"}, id \in Int :
          main' = [at |-> at, letter |-> {l}, worker |-> id, tryes |-> 0]
    <3>1. CASE Records(DomainOf[l]) = {}
      <4>1. main' = [main EXCEPT !.at = "adding", !.letter = {l}]
        BY <1>4, <3>1 DEF FindLetter, Found
      <4> QED
        BY <1>1, <2>1, <4>1, MainFields DEF TypeInv, Hands
    <3>2. CASE Records(DomainOf[l]) # {}
      <4> DEFINE id == Dictionary[First(DomainOf[l])].workerId
      <4>1. main' = [main EXCEPT !.at = "delegating", !.letter = {l}, !.worker = id]
        BY <1>4, <3>2 DEF FindLetter, Found
      <4>2. id \in Int
        BY <1>1, <3>2, RecordKnown, ClientAssumption DEF Worker
      <4> HIDE DEF id
      <4> QED
        BY <1>1, <2>1, <4>1, <4>2, MainFields DEF TypeInv, Hands
    <3> QED
      BY <3>1, <3>2
  <2>3. TypeOK'
    <3>1. main' \in MainType
      BY <2>2
    <3> HIDE DEF MainType
    <3> QED
      BY <1>1, <1>2, <2>1, <3>1, Zenon DEF TypeOK, MainType
  <2>4. Hands'
    BY <2>1, <2>2 DEF Hands
  <2> QED
    BY <1>3, <2>3, <2>4 DEF TypeInv
<1>5. CASE AddRecord
  <2>1. /\ main.at = "adding"
        /\ main' = [main EXCEPT !.at = "added", !.worker = MostFreeWorker, !.tryes = @ + 1]
        /\ UNCHANGED <<place, tasks, count_task, worked>>
    BY <1>5 DEF AddRecord
  <2>2. PICK l \in Letter : main.letter = {l}
    BY <2>1 DEF TypeInv, Hands
  <2>3. InHand = l /\ DomainOf[l] \in Domain
    BY <2>2, Held, ClientAssumption
  <2>4. MostFreeWorker \in Worker /\ MostFreeWorker \in Nat
    BY MostFree DEF RecordsInv, MainOK
  <2>5. Dictionary' \in Seq([domain : Domain, workerId : Worker])
    <3> DEFINE new == [domain |-> DomainOf[l], workerId |-> MostFreeWorker]
    <3>1. Dictionary' = Append(Dictionary, new)
      BY <1>5, <2>3 DEF AddRecord
    <3>2. new \in [domain : Domain, workerId : Worker]
      BY <2>3, <2>4
    <3> HIDE DEF new
    <3> QED
      BY <1>1, <3>1, <3>2 DEF TypeOK
  <2>6. /\ main' \in MainType /\ main'.at = "added" /\ main'.letter = {l}
    <3>1. main' = [at |-> "added", letter |-> {l}, worker |-> MostFreeWorker,
                   tryes |-> main.tryes + 1]
      BY <1>1, <2>1, <2>2, MainFields
    <3>2. main.tryes + 1 \in 0 .. 3 /\ {l} \in SUBSET Letter /\ MostFreeWorker \in Int
      BY <1>1, <2>1, <2>4, MainFields DEF TypeInv, Hands
    <3> QED
      BY <3>1, <3>2, MainBuilt
  <2>7. TypeOK'
    <3> HIDE DEF MainType
    <3> QED
      BY <1>1, <1>2, <2>1, <2>5, <2>6, Zenon DEF TypeOK, MainType
  <2>8. Hands'
    BY <2>1, <2>6 DEF TypeInv, Hands
  <2> QED
    BY <1>3, <2>7, <2>8 DEF TypeInv
<1>6. CASE ReadAdded
  <2>1. main.at = "added" /\ UNCHANGED <<place, Dictionary, tasks, count_task, worked>>
    BY <1>6 DEF ReadAdded
  <2>2. PICK id \in {main.worker} \cup
                    (IF Records(DomainOf[InHand]) = {} THEN StaleId ELSE {}) :
          IF id >= 0
          THEN main' = [main EXCEPT !.at = "delegating", !.worker = id]
          ELSE IF main.tryes < 3 THEN main' = [main EXCEPT !.at = "adding"]
               ELSE Watch
    BY <1>6 DEF ReadAdded
  <2>3. id \in Int
    BY <1>1, <2>2, MainFields, ClientAssumption
  <2>4. /\ main' \in MainType
        /\ \/ main'.at = "delegating" /\ main'.letter = main.letter
           \/ main'.at = "adding" /\ main'.letter = main.letter /\ main'.tryes < 3
           \/ main'.at = "watching" /\ main'.tryes = 0
    <3>1. CASE id >= 0
      BY <1>1, <2>2, <2>3, <3>1, MainFields
    <3>2. CASE ~ (id >= 0) /\ main.tryes < 3
      BY <1>1, <2>2, <3>2, MainFields
    <3>3. CASE ~ (id >= 0) /\ ~ (main.tryes < 3)
      <4>1. Watch
        BY <2>2, <3>3
      <4> QED
        BY <1>1, <4>1, Watched
    <3> QED
      BY <3>1, <3>2, <3>3
  <2>5. TypeOK'
    <3> HIDE DEF MainType
    <3> QED
      BY <1>1, <1>2, <2>1, <2>4, Zenon DEF TypeOK, MainType
  <2>6. Hands'
    BY <2>1, <2>4 DEF TypeInv, Hands
  <2> QED
    BY <1>3, <2>5, <2>6 DEF TypeInv
<1>7. CASE Delegate
  <2>1. /\ main.at = "delegating" /\ main.worker \in Worker
        /\ place' = Moved(main.letter, "tmp")
        /\ tasks' = [tasks EXCEPT ![main.worker] = Append(@, InHand)]
        /\ count_task' = [count_task EXCEPT ![main.worker] = @ + 1]
        /\ Watch /\ UNCHANGED <<Dictionary, worked>>
    BY <1>7 DEF Delegate
  <2>2. PICK l \in Letter : main.letter = {l}
    BY <2>1 DEF TypeInv, Hands
  <2>3. InHand \in Letter
    BY <2>2, Held
  <2>4. tasks' \in [Worker -> Seq(Letter)]
    BY <1>1, <2>1, <2>3 DEF TypeOK
  <2>5. count_task' \in [Worker -> 0 .. MaxDelegations]
    <3>1. count_task[main.worker] < MaxDelegations
          /\ count_task[main.worker] \in 0 .. MaxDelegations
      BY <1>1, <2>1 DEF TypeInv, TypeOK, Hands
    <3>2. count_task[main.worker] + 1 \in 0 .. MaxDelegations
      BY <3>1, ClientAssumption
    <3> QED
      BY <1>1, <2>1, <3>2 DEF TypeOK
  <2>6. place' \in [Letter -> {"new", "tmp", "current"}]
    BY <1>1, <2>1, MovedTyped DEF TypeOK
  <2>7. main' \in MainType /\ main'.at = "watching" /\ main'.tryes = 0
    BY <1>1, <2>1, Watched
  <2>8. TypeOK'
    <3> HIDE DEF MainType
    <3> QED
      BY <1>1, <1>2, <2>1, <2>4, <2>5, <2>6, <2>7, Zenon DEF TypeOK, MainType
  <2>9. Hands'
    BY <2>7 DEF Hands
  <2> QED
    BY <1>3, <2>8, <2>9 DEF TypeInv
<1>8. CASE DelegateNowhere
  <2>1. /\ UNCHANGED <<Dictionary, tasks, count_task, worked>>
        /\ \/ place' = place
           \/ place' = Moved(main.letter, "tmp")
        /\ Watch \/ main' = [main EXCEPT !.at = "crashed"]
    BY <1>8, Zenon DEF DelegateNowhere
  <2>2. place' \in [Letter -> {"new", "tmp", "current"}]
    BY <1>1, <2>1, MovedTyped DEF TypeOK
  <2>3. /\ main' \in MainType
        /\ main'.at = "crashed" \/ (main'.at = "watching" /\ main'.tryes = 0)
    <3>1. CASE Watch
      BY <1>1, <3>1, Watched
    <3>2. CASE main' = [main EXCEPT !.at = "crashed"]
      BY <1>1, <3>2, MainFields
    <3> QED
      BY <2>1, <3>1, <3>2
  <2>4. TypeOK'
    <3> HIDE DEF MainType
    <3> QED
      BY <1>1, <1>2, <2>1, <2>2, <2>3, Zenon DEF TypeOK, MainType
  <2>5. Hands'
    BY <2>3 DEF Hands
  <2> QED
    BY <1>3, <2>4, <2>5 DEF TypeInv
<1>9. CASE Dispose \/ Join
  <2>1. /\ UNCHANGED <<place, Dictionary, tasks, count_task>>
        /\ \/ worked' = worked
           \/ \E w : worked' = [worked EXCEPT ![w] = FALSE]
    BY <1>9, Zenon DEF Dispose, Join, Tell
  <2>2. worked' \in [Worker -> BOOLEAN]
    BY <1>1, <2>1 DEF TypeOK
  <2>3. main' \in MainType /\ main'.at \in {"joining", "ended"}
    <3>1. \/ main' = [main EXCEPT !.at = "joining", !.worker = 0]
          \/ main' = [main EXCEPT !.at = "ended"]
          \/ main' = [main EXCEPT !.worker = @ + 1] /\ main.at = "joining"
      BY <1>9, Zenon DEF Dispose, Join
    <3>2. CASE main' = [main EXCEPT !.at = "joining", !.worker = 0]
      <4>1. main' = [at |-> "joining", letter |-> main.letter, worker |-> 0,
                     tryes |-> main.tryes]
        BY <1>1, <3>2, MainFields
      <4>2. main.letter \in SUBSET Letter /\ main.tryes \in 0 .. 3
        BY <1>1, MainFields
      <4> QED
        BY <4>1, <4>2, MainBuilt
    <3>3. CASE main' = [main EXCEPT !.at = "ended"]
      BY <1>1, <3>3, MainFields
    <3>4. CASE main' = [main EXCEPT !.worker = @ + 1] /\ main.at = "joining"
      <4>1. main' = [at |-> "joining", letter |-> main.letter,
                     worker |-> main.worker + 1, tryes |-> main.tryes]
        BY <1>1, <3>4, MainFields
      <4>2. main.worker + 1 \in Int /\ main.letter \in SUBSET Letter /\ main.tryes \in 0 .. 3
        BY <1>1, MainFields
      <4> QED
        BY <4>1, <4>2, MainBuilt
    <3> QED
      BY <3>1, <3>2, <3>3, <3>4
  <2>4. TypeOK'
    <3> HIDE DEF MainType
    <3> QED
      BY <1>1, <1>2, <2>1, <2>2, <2>3, Zenon DEF TypeOK, MainType
  <2>5. Hands'
    BY <2>3 DEF Hands
  <2> QED
    BY <1>3, <2>4, <2>5 DEF TypeInv
<1> QED
  BY <1>4, <1>5, <1>6, <1>7, <1>8, <1>9, Zenon DEF Main

LEMMA TypeInit == Init => TypeInv
<1> SUFFICES ASSUME Init PROVE TypeInv
  OBVIOUS
<1>1. TypeOK
  BY ClientAssumption DEF Init, TypeOK
<1>2. Hands
  BY DEF Init, Hands
<1>3. ASSUME NEW w \in Worker PROVE Sock(w)
  BY <1>3 DEF Init, Sock, SockOf, AtSocket, OncePerDomain, Doms
<1> QED
  BY <1>1, <1>2, <1>3 DEF TypeInv

LEMMA TypeStep == TypeInv /\ RecordsInv /\ [Next]_vars => TypeInv'
<1> SUFFICES ASSUME TypeInv, RecordsInv, [Next]_vars PROVE TypeInv'
  OBVIOUS
<1>1. CASE main.at # "crashed" /\ Main
  BY <1>1, MainTypeStep
<1>2. ASSUME main.at # "crashed", NEW w \in Worker, WorkerStep(w) PROVE TypeInv'
  BY <1>2, WorkerTypeStep
<1>3. CASE UNCHANGED vars
  <2>1. TypeOK' /\ Hands'
    BY <1>3, Zenon DEF vars, mainVars, listVars, TypeInv, TypeOK, Hands
  <2>2. ASSUME NEW w \in Worker PROVE Sock(w)'
    BY <1>3 DEF vars, listVars, mainVars, TypeInv, Sock
  <2> QED
    BY <2>1, <2>2 DEF TypeInv
<1> QED
  BY <1>1, <1>2, <1>3, Zenon DEF Next

\* The types of the client: a letter is in a folder of the maildir, a record names
\* a worker of the pool, and no letter is delegated beyond the bound, however the
\* threads interleave.
THEOREM TypeOKHolds == Spec => []TypeOK
<1>1. TypeInv => TypeOK
  BY DEF TypeInv
<1> QED
  BY RecordsInit, RecordsStep, TypeInit, TypeStep, <1>1, PTL DEF Spec

-----------------------------------------------------------------------------
\* A worker has as many sockets as domains, if no domain has two.

LEMMA AsMany ==
  ASSUME NEW S, NEW s \in Seq(S), OncePerDomain(s)
  PROVE  Len(s) = Cardinality(Doms(s))
<1> DEFINE n == Len(s)
           f == [i \in 1 .. n |-> s[i].domain]
           T == Doms(s)
<1>1. n \in Nat /\ DOMAIN s = 1 .. n
  BY Indices
<1>2. /\ f \in [1 .. n -> T]
      /\ \A a, b \in 1 .. n : f[a] = f[b] => a = b
      /\ \A t \in T : \E i \in 1 .. n : f[i] = t
  BY <1>1 DEF OncePerDomain, Doms
<1> HIDE DEF n, f, T
<1>3. f \in Bijection(1 .. n, T)
  BY <1>2 DEF Bijection, Injection, Surjection, IsInjective
<1>4. ExistsBijection(1 .. n, T)
  BY <1>3 DEF ExistsBijection
<1>5. Cardinality(T) = n
  BY <1>1, <1>4, FS_CountingElements
<1> QED
  BY <1>5 DEF n, T

\* When a worker sleeps in pselect, each of its sockets is in one of the two sets,
\* however a turn ended.  It is in one only, and nothing else is, unless the worker
\* has ever taken a socket that could not be opened for one that could
\* (worker.c:131-248, 291, 312).
THEOREM AwaitedOnceHolds == Spec => []AwaitedOnce
<1>1. TypeInv => AwaitedOnce
  <2>1. SUFFICES ASSUME TypeInv, NEW w \in Worker, pc[w] = "select"
                 PROVE  /\ Len(socket_list[w]) = Cardinality(Domains(w))
                        /\ Domains(w) \subseteq readers[w] \cup writers[w]
                        /\ ~ misled[w] => /\ readers[w] \cup writers[w] = Domains(w)
                                          /\ readers[w] \cap writers[w] = {}
    BY Zenon DEF AwaitedOnce
  <2>2. /\ OncePerDomain(socket_list[w])
        /\ Doms(socket_list[w]) \subseteq readers[w] \cup writers[w]
        /\ ~ misled[w] => /\ readers[w] \cap writers[w] = {}
                          /\ readers[w] \cup writers[w] = Doms(socket_list[w])
        /\ socket_list[w] \in Seq(Connection)
    BY <2>1 DEF TypeInv, TypeOK, Sock, SockOf, AtSocket
  <2>3. Len(socket_list[w]) = Cardinality(Doms(socket_list[w]))
    BY <2>2, AsMany
  <2> QED
    BY <2>2, <2>3, DomainsAre
<1> QED
  BY RecordsInit, RecordsStep, TypeInit, TypeStep, <1>1, PTL DEF Spec

-----------------------------------------------------------------------------
\* The letters of a worker: with s the list of its sockets and t its tasks.

Own(s, t) == Listed(t) \cup UNION {Listed(c.task_pool) : c \in Listed(s)}

Neat(s, t) ==
  /\ Injective(t)
  /\ \A i \in DOMAIN s :
       /\ Injective(s[i].task_pool)
       /\ Listed(s[i].task_pool) \cap Listed(t) = {}
       /\ \A l \in Listed(s[i].task_pool) : DomainOf[l] = s[i].domain

LEMMA TasksAre == \A w : Tasks(w) = Own(socket_list[w], tasks[w])
BY DEF Tasks, Own

LEMMA InOwn ==
  ASSUME NEW s, NEW t, NEW l
  PROVE  l \in Own(s, t) <=>
           l \in Listed(t) \/ \E i \in DOMAIN s : l \in Listed(s[i].task_pool)
<1>1. \A i \in DOMAIN s : s[i] \in Listed(s)
  BY DEF Listed
<1>2. \A c \in Listed(s) : \E i \in DOMAIN s : c = s[i]
  BY DEF Listed
<1> QED
  BY <1>1, <1>2, Zenon DEF Own

LEMMA ListedIs ==
  ASSUME NEW S, NEW s \in Seq(S)
  PROVE  Listed(s) \subseteq S
BY Indices DEF Listed

LEMMA TailListed ==
  ASSUME NEW S, NEW s \in Seq(S), s # <<>>, Injective(s)
  PROVE  /\ Injective(Tail(s)) /\ Head(s) \in Listed(s)
         /\ Listed(Tail(s)) = Listed(s) \ {Head(s)}
<1>1. /\ DOMAIN Tail(s) = 1 .. Len(s) - 1 /\ 1 \in DOMAIN s /\ s[1] = Head(s)
      /\ \A i \in DOMAIN Tail(s) : i + 1 \in DOMAIN s /\ Tail(s)[i] = s[i + 1]
  BY TailKnown
<1>2. DOMAIN s = 1 .. Len(s) /\ Len(s) \in Nat
  BY Indices
<1>3. Injective(Tail(s))
  <2>1. SUFFICES ASSUME NEW i \in DOMAIN Tail(s), NEW j \in DOMAIN Tail(s),
                        Tail(s)[i] = Tail(s)[j]
                 PROVE  i = j
    BY DEF Injective
  <2>2. i + 1 = j + 1
    BY <1>1, <2>1 DEF Injective
  <2> QED
    BY <1>1, <2>2
<1>4. ASSUME NEW i \in DOMAIN Tail(s) PROVE Tail(s)[i] \in Listed(s) \ {Head(s)}
  <2>1. i + 1 \in DOMAIN s /\ i + 1 # 1
    BY <1>1, <1>2, <1>4
  <2> QED
    BY <1>1, <2>1 DEF Injective, Listed
<1>5. ASSUME NEW j \in DOMAIN s, s[j] # Head(s) PROVE s[j] \in Listed(Tail(s))
  <2>1. j - 1 \in DOMAIN Tail(s) /\ (j - 1) + 1 = j
    BY <1>1, <1>2, <1>5
  <2>2. Tail(s)[j - 1] = s[j]
    BY <1>1, <2>1
  <2> QED
    BY <2>1, <2>2 DEF Listed
<1> QED
  BY <1>1, <1>3, <1>4, <1>5 DEF Listed

LEMMA AppendListed ==
  ASSUME NEW S, NEW s \in Seq(S), NEW l \in S
  PROVE  /\ Listed(Append(s, l)) = Listed(s) \cup {l}
         /\ Injective(s) /\ l \notin Listed(s) => Injective(Append(s, l))
<1> DEFINE t == Append(s, l)
<1>1. /\ t \in Seq(S) /\ Len(t) = Len(s) + 1
      /\ \A i \in 1 .. Len(s) : t[i] = s[i]
      /\ t[Len(s) + 1] = l
  BY AppendProperties
<1>2. DOMAIN t = 1 .. Len(s) + 1 /\ DOMAIN s = 1 .. Len(s) /\ Len(s) \in Nat
  BY <1>1, Indices
<1> HIDE DEF t
<1>3. \A k \in DOMAIN t : \/ k \in DOMAIN s /\ t[k] = s[k]
                          \/ k = Len(s) + 1 /\ t[k] = l
  BY <1>1, <1>2
<1>4. Len(s) + 1 \in DOMAIN t /\ \A k \in DOMAIN s : k \in DOMAIN t
  BY <1>2
<1>5. Listed(t) = Listed(s) \cup {l}
  BY <1>1, <1>3, <1>4 DEF Listed
<1>6. Injective(s) /\ l \notin Listed(s) => Injective(t)
  BY <1>3 DEF Listed, Injective
<1> QED
  BY <1>5, <1>6 DEF t

\* Letters that leave the pool of one socket leave the worker.
LEMMA PoolShrinks ==
  ASSUME NEW s \in Seq(Connection), NEW t, OncePerDomain(s), Neat(s, t),
         NEW i \in DOMAIN s, NEW c \in Connection, c.domain = s[i].domain,
         Listed(c.task_pool) \subseteq Listed(s[i].task_pool), Injective(c.task_pool)
  PROVE  /\ Neat(With(s, i, c), t)
         /\ Own(With(s, i, c), t) =
              Own(s, t) \ (Listed(s[i].task_pool) \ Listed(c.task_pool))
<1> DEFINE u == With(s, i, c)
<1>1. /\ DOMAIN u = DOMAIN s
      /\ \A k \in DOMAIN s : u[k] = IF k = i THEN c ELSE s[k]
  BY Replaced DEF With
<1> HIDE DEF u
<1>2. Neat(u, t)
  BY <1>1 DEF Neat
<1> DEFINE gone == Listed(s[i].task_pool) \ Listed(c.task_pool)
<1>3. ASSUME NEW l PROVE l \in Own(u, t) <=> l \in Own(s, t) /\ l \notin gone
  <2>1. CASE l \in Listed(t)
    <3>1. l \notin Listed(s[i].task_pool)
      BY <2>1 DEF Neat
    <3> QED
      BY <2>1, <3>1, InOwn
  <2>2. CASE l \notin Listed(t) /\ l \in Listed(s[i].task_pool)
    <3>1. ASSUME NEW k \in DOMAIN s, l \in Listed(s[k].task_pool) PROVE k = i
      <4>1. s[k].domain = DomainOf[l] /\ s[i].domain = DomainOf[l]
        BY <2>2, <3>1 DEF Neat
      <4> QED
        BY <4>1 DEF OncePerDomain
    <3>2. l \in Own(s, t)
      BY <2>2, InOwn
    <3>3. l \in Own(u, t) <=> l \in Listed(c.task_pool)
      BY <1>1, <2>2, <3>1, InOwn
    <3> QED
      BY <2>2, <3>2, <3>3
  <2>3. CASE l \notin Listed(t) /\ l \notin Listed(s[i].task_pool)
    <3>1. l \notin Listed(c.task_pool)
      BY <2>3
    <3>2. l \in Own(u, t) <=> \E k \in DOMAIN s : k # i /\ l \in Listed(s[k].task_pool)
      BY <1>1, <2>3, <3>1, InOwn
    <3>3. l \in Own(s, t) <=> \E k \in DOMAIN s : k # i /\ l \in Listed(s[k].task_pool)
      BY <2>3, InOwn
    <3> QED
      BY <2>3, <3>2, <3>3
  <2> QED
    BY <2>1, <2>2, <2>3
<1> HIDE DEF gone
<1>4. Own(u, t) = Own(s, t) \ gone
  BY <1>3
<1> QED
  BY <1>2, <1>4 DEF gone, u

\* The head of the tasks goes to the pool of a socket of its domain, to a new
\* socket, or back to the maildir.
LEMMA HeadKnown ==
  ASSUME NEW s, NEW t \in Seq(Letter), t # <<>>, Neat(s, t)
  PROVE  /\ Head(t) \in Letter /\ Neat(s, Tail(t)) /\ Head(t) \notin Listed(Tail(t))
         /\ \A k \in DOMAIN s : Head(t) \notin Listed(s[k].task_pool)
         /\ \A l : l \in Own(s, Tail(t)) <=> l \in Own(s, t) /\ l # Head(t)
         /\ Head(t) \in Own(s, t)
<1>1. /\ Injective(Tail(t)) /\ Head(t) \in Listed(t)
      /\ Listed(Tail(t)) = Listed(t) \ {Head(t)}
  BY TailListed DEF Neat
<1>2. Head(t) \in Letter
  BY TailKnown
<1>3. Neat(s, Tail(t))
  <2>1. \A k \in DOMAIN s : Listed(s[k].task_pool) \cap Listed(Tail(t)) = {}
    BY <1>1 DEF Neat
  <2> QED
    BY <1>1, <2>1 DEF Neat
<1>4. \A k \in DOMAIN s : Head(t) \notin Listed(s[k].task_pool)
  BY <1>1 DEF Neat
<1>5. ASSUME NEW l PROVE l \in Own(s, Tail(t)) <=> l \in Own(s, t) /\ l # Head(t)
  BY <1>1, <1>4, InOwn
<1> QED
  BY <1>1, <1>2, <1>3, <1>4, <1>5, InOwn

LEMMA PoolGrows ==
  ASSUME NEW s \in Seq(Connection), NEW t \in Seq(Letter), t # <<>>, Neat(s, t),
         NEW i \in DOMAIN s, DomainOf[Head(t)] = s[i].domain,
         NEW c \in Connection, c.domain = s[i].domain,
         c.task_pool = Append(s[i].task_pool, Head(t))
  PROVE  Neat(With(s, i, c), Tail(t)) /\ Own(With(s, i, c), Tail(t)) = Own(s, t)
<1> DEFINE u == With(s, i, c)
<1>1. /\ DOMAIN u = DOMAIN s
      /\ \A k \in DOMAIN s : u[k] = IF k = i THEN c ELSE s[k]
  BY Replaced DEF With
<1> HIDE DEF u
<1> DEFINE h == Head(t)
<1>2. /\ h \in Letter /\ Neat(s, Tail(t)) /\ h \notin Listed(Tail(t))
      /\ \A k \in DOMAIN s : h \notin Listed(s[k].task_pool)
      /\ \A l : l \in Own(s, Tail(t)) <=> l \in Own(s, t) /\ l # h
      /\ h \in Own(s, t)
  BY HeadKnown
<1>3. s[i].task_pool \in Seq(Letter)
  <2>1. s[i] \in Connection
    BY Indices
  <2> QED
    BY <2>1 DEF Connection
<1>4. c.task_pool = Append(s[i].task_pool, h) /\ DomainOf[h] = s[i].domain
  OBVIOUS
<1> HIDE DEF h
<1>5. /\ Listed(c.task_pool) = Listed(s[i].task_pool) \cup {h}
      /\ Injective(c.task_pool)
  BY <1>2, <1>3, <1>4, AppendListed DEF Neat
<1>6. Neat(u, Tail(t))
  <2>1. Injective(Tail(t))
    BY <1>2 DEF Neat
  <2>2. ASSUME NEW k \in DOMAIN s
        PROVE  /\ Injective(u[k].task_pool)
               /\ Listed(u[k].task_pool) \cap Listed(Tail(t)) = {}
               /\ \A l \in Listed(u[k].task_pool) : DomainOf[l] = u[k].domain
    <3>1. CASE k = i
      BY <1>1, <1>2, <1>4, <1>5, <3>1 DEF Neat
    <3>2. CASE k # i
      BY <1>1, <1>2, <3>2 DEF Neat
    <3> QED
      BY <3>1, <3>2
  <2> QED
    BY <1>1, <2>1, <2>2, Zenon DEF Neat
<1>7. ASSUME NEW l PROVE l \in Own(u, Tail(t)) <=> l \in Own(s, Tail(t)) \/ l = h
  <2>1. l \in Own(u, Tail(t)) <=>
          l \in Listed(Tail(t)) \/ \E k \in DOMAIN s : l \in Listed(u[k].task_pool)
    BY <1>1, InOwn
  <2>2. (\E k \in DOMAIN s : l \in Listed(u[k].task_pool)) <=>
          (\E k \in DOMAIN s : l \in Listed(s[k].task_pool)) \/ l = h
    BY <1>1, <1>5
  <2> QED
    BY <2>1, <2>2, InOwn
<1>8. Own(u, Tail(t)) = Own(s, t)
  BY <1>2, <1>7
<1> QED
  BY <1>6, <1>8 DEF u

LEMMA SocketAdded ==
  ASSUME NEW s \in Seq(Connection), NEW t \in Seq(Letter), t # <<>>, Neat(s, t),
         OncePerDomain(s), NEW c \in Connection, c.task_pool = <<Head(t)>>,
         c.domain = DomainOf[Head(t)], c.domain \notin Doms(s)
  PROVE  Neat(Append(s, c), Tail(t)) /\ Own(Append(s, c), Tail(t)) = Own(s, t)
<1> DEFINE h == Head(t)
           u == Append(s, c)
<1>1. \A k \in DOMAIN u : \/ k \in DOMAIN s /\ u[k] = s[k]
                          \/ k \notin DOMAIN s /\ u[k] = c
  BY Opened
<1>2. Len(s) + 1 \in DOMAIN u /\ u[Len(s) + 1] = c
      /\ \A k \in DOMAIN s : k \in DOMAIN u /\ u[k] = s[k]
  <2>1. /\ u \in Seq(Connection) /\ Len(u) = Len(s) + 1
        /\ \A i \in 1 .. Len(s) : u[i] = s[i]
        /\ u[Len(s) + 1] = c
    BY AppendProperties
  <2>2. DOMAIN u = 1 .. Len(s) + 1 /\ DOMAIN s = 1 .. Len(s) /\ Len(s) \in Nat
    BY <2>1, Indices
  <2> QED
    BY <2>1, <2>2
<1>3. /\ h \in Letter /\ Neat(s, Tail(t)) /\ h \notin Listed(Tail(t))
      /\ \A l : l \in Own(s, Tail(t)) <=> l \in Own(s, t) /\ l # h
      /\ h \in Own(s, t)
  BY HeadKnown
<1>4. /\ Listed(c.task_pool) = {h} /\ Injective(c.task_pool) /\ c.domain = DomainOf[h]
  BY DEF Listed, Injective
<1> HIDE DEF h, u
<1>5. Neat(u, Tail(t))
  <2>1. ASSUME NEW k \in DOMAIN u
        PROVE  /\ Injective(u[k].task_pool)
               /\ Listed(u[k].task_pool) \cap Listed(Tail(t)) = {}
               /\ \A l \in Listed(u[k].task_pool) : DomainOf[l] = u[k].domain
    <3>1. CASE k \in DOMAIN s /\ u[k] = s[k]
      BY <1>3, <3>1 DEF Neat
    <3>2. CASE u[k] = c
      BY <1>3, <1>4, <3>2
    <3> QED
      BY <1>1, <3>1, <3>2
  <2> QED
    BY <1>3, <2>1, Zenon DEF Neat
<1>6. ASSUME NEW l PROVE l \in Own(u, Tail(t)) <=> l \in Own(s, Tail(t)) \/ l = h
  <2>1. (\E k \in DOMAIN u : l \in Listed(u[k].task_pool)) <=>
          (\E k \in DOMAIN s : l \in Listed(s[k].task_pool)) \/ l = h
    BY <1>1, <1>2, <1>4
  <2> QED
    BY <2>1, InOwn
<1>7. Own(u, Tail(t)) = Own(s, t)
  BY <1>3, <1>6
<1> QED
  BY <1>5, <1>7 DEF u

\* A socket that is freed leaves its letters nowhere.
LEMMA SocketLost ==
  ASSUME NEW s \in Seq(Connection), NEW t, Neat(s, t), OncePerDomain(s), NEW i \in DOMAIN s
  PROVE  Neat(Without(s, i), t) /\ Own(Without(s, i), t) \subseteq Own(s, t)
<1> DEFINE u == Without(s, i)
<1>1. \A k \in DOMAIN u : \E j \in DOMAIN s : u[k] = s[j]
  BY Freed
<1> HIDE DEF u
<1>2. Neat(u, t)
  BY <1>1 DEF Neat
<1>3. ASSUME NEW l, l \in Own(u, t) PROVE l \in Own(s, t)
  BY <1>1, <1>3, InOwn
<1> QED
  BY <1>2, <1>3 DEF u

\* A letter of nobody is delegated.
LEMMA Delegated ==
  ASSUME NEW s, NEW t \in Seq(Letter), NEW l \in Letter, Neat(s, t), l \notin Own(s, t)
  PROVE  /\ Neat(s, Append(t, l))
         /\ \A k : k \in Own(s, Append(t, l)) <=> k \in Own(s, t) \/ k = l
<1>1. /\ Listed(Append(t, l)) = Listed(t) \cup {l}
      /\ Injective(t) /\ l \notin Listed(t) => Injective(Append(t, l))
  BY AppendListed
<1>2. l \notin Listed(t) /\ \A i \in DOMAIN s : l \notin Listed(s[i].task_pool)
  BY InOwn
<1>3. Neat(s, Append(t, l))
  BY <1>1, <1>2 DEF Neat
<1>4. ASSUME NEW k PROVE k \in Own(s, Append(t, l)) <=> k \in Own(s, t) \/ k = l
  BY <1>1, InOwn
<1> QED
  BY <1>3, <1>4

-----------------------------------------------------------------------------
\* One worker per letter.  What makes it inductive is the letter in hand: it is
\* still in "new", where no letter of a worker is.

OwnInv ==
  /\ \A v, w \in Worker : v # w => Tasks(v) \cap Tasks(w) = {}
  /\ \A w \in Worker : /\ Neat(socket_list[w], tasks[w])
                       /\ \A l \in Tasks(w) : place[l] = "tmp"
  /\ main.at \in {"adding", "added", "delegating"} =>
       \E l \in Letter : main.letter = {l} /\ place[l] = "new"

\* A step of a worker gives it no letter, and moves only the letters it gives up.
Gives(w) ==
  /\ Neat(socket_list'[w], tasks'[w])
  /\ Own(socket_list'[w], tasks'[w]) \subseteq Own(socket_list[w], tasks[w])
  /\ \A l \in Letter :
       \/ place'[l] = place[l]
       \/ l \in Own(socket_list[w], tasks[w]) \ Own(socket_list'[w], tasks'[w])

LEMMA PutGives ==
  ASSUME TypeInv, OwnInv, NEW w \in Worker, NEW d \in Doms(socket_list[w]),
         NEW c \in Connection, c.domain = d, Change(w, d, c), tasks' = tasks,
         NEW left, c.task_pool = left, Listed(left) \subseteq Listed(Socket(w, d).task_pool),
         Injective(left),
         \A l \in Letter :
           place'[l] = place[l] \/ l \in Listed(Socket(w, d).task_pool) \ Listed(left)
  PROVE  Gives(w)
<1> DEFINE s == socket_list[w]
           t == tasks[w]
           i == AtIn(s, d)
           u == socket_list'[w]
           pool == Socket(w, d).task_pool
<1>1. TypeOK /\ OncePerDomain(s) /\ s \in Seq(Connection) /\ Neat(s, t)
  BY DEF TypeInv, TypeOK, Sock, SockOf, OwnInv
<1>2. u = With(s, i, c)
  <2>1. TypeOK /\ OncePerDomain(socket_list[w])
    BY <1>1
  <2> HIDE DEF u
  <2>2. socket_list'[w] = With(socket_list[w], AtIn(socket_list[w], d), c)
    BY <2>1, PutKeeps
  <2> QED
    BY <2>2 DEF u
<1>3. i \in DOMAIN s /\ s[i].domain = d /\ s[i] = Socket(w, d)
  BY <1>1, AtFinds, SocketKnown
<1>4. s[i].task_pool = pool /\ Listed(c.task_pool) = Listed(left) /\ Injective(c.task_pool)
  BY <1>3
<1>4a. s = socket_list[w] /\ t = tasks[w] /\ u = socket_list'[w] /\ pool = Socket(w, d).task_pool
  OBVIOUS
<1> HIDE DEF s, t, i, u, pool
<1>5. /\ Neat(u, t)
      /\ Own(u, t) = Own(s, t) \ (Listed(pool) \ Listed(left))
  <2>1. Listed(c.task_pool) \subseteq Listed(s[i].task_pool) /\ c.domain = s[i].domain
    BY <1>3, <1>4, <1>4a
  <2>2. /\ Neat(With(s, i, c), t)
        /\ Own(With(s, i, c), t) =
             Own(s, t) \ (Listed(s[i].task_pool) \ Listed(c.task_pool))
    BY <1>1, <1>3, <1>4, <2>1, PoolShrinks
  <2> QED
    BY <1>2, <1>4, <2>2
<1>6. Listed(pool) \subseteq Own(s, t)
  BY <1>3, <1>4, InOwn
<1> QED
  BY <1>4a, <1>5, <1>6 DEF Gives

LEMMA StillGives ==
  ASSUME OwnInv, NEW w \in Worker, socket_list' = socket_list, tasks' = tasks,
         place' = place
  PROVE  Gives(w)
BY DEF Gives, OwnInv

\* The pools of a worker.
LEMMA PoolKnown ==
  ASSUME TypeInv, OwnInv, NEW w \in Worker, NEW d \in Doms(socket_list[w])
  PROVE  /\ Socket(w, d).task_pool \in Seq(Letter)
         /\ Injective(Socket(w, d).task_pool)
<1>1. Socket(w, d) \in Connection /\ At(w, d) \in DOMAIN socket_list[w]
  BY SocketKnown DEF TypeInv
<1> QED
  BY <1>1 DEF Connection, Socket, OwnInv, Neat

LEMMA CloseGives ==
  ASSUME TypeInv, OwnInv, NEW w \in Worker, NEW d \in Domain, CloseConnection(w, d)
  PROVE  Gives(w)
<1> DEFINE c == Socket(w, d)
           pool == c.task_pool
           gone == IF c.task_pool = <<>> \/ c.stage = "opening"
                   THEN Listed(c.task_pool) ELSE Listed(Tail(c.task_pool))
<1>1. /\ pc[w] = "closing" /\ d \in todo[w] /\ tasks' = tasks
      /\ SetPool(w, d, Kept(c)) /\ place' = Moved(gone, "new")
  BY DEF CloseConnection
<1>2. TypeOK /\ d \in Doms(socket_list[w])
  BY <1>1 DEF TypeInv, Sock, SockOf, AtSocket
<1>3. /\ Kept(c) \in Seq(Letter) /\ pool \in Seq(Letter) /\ Injective(pool)
  BY <1>2, SocketKnown, KeptTyped, PoolKnown
<1>4. /\ Listed(Kept(c)) \subseteq Listed(pool) /\ Injective(Kept(c))
      /\ gone = Listed(pool) \ Listed(Kept(c))
  <2>1. CASE pool = <<>> \/ c.stage = "opening"
    <3>1. Kept(c) = <<>> /\ gone = Listed(pool)
      BY <2>1 DEF Kept
    <3>2. Listed(<<>>) = {} /\ Injective(<<>>)
      BY DEF Listed, Injective
    <3> QED
      BY <3>1, <3>2
  <2>2. CASE ~ (pool = <<>> \/ c.stage = "opening")
    <3>1. Kept(c) = <<Head(pool)>> /\ gone = Listed(Tail(pool))
      BY <2>2 DEF Kept
    <3>2. Listed(<<Head(pool)>>) = {Head(pool)} /\ Injective(<<Head(pool)>>)
      BY DEF Listed, Injective
    <3>3. Head(pool) \in Listed(pool) /\ Listed(Tail(pool)) = Listed(pool) \ {Head(pool)}
      BY <1>3, <2>2, TailListed
    <3> HIDE DEF pool, gone
    <3> QED
      BY <3>1, <3>2, <3>3
  <2> QED
    BY <2>1, <2>2
<1>5. \A l \in Letter : place'[l] = place[l] \/ l \in Listed(c.task_pool) \ Listed(Kept(c))
  <2>1. \A l \in Letter : place'[l] = IF l \in gone THEN "new" ELSE place[l]
    <3> HIDE DEF gone
    <3> QED
      BY <1>1, <1>2, MovedTyped DEF TypeOK
  <2> QED
    BY <1>4, <2>1
<1> HIDE DEF c, gone
<1>6. PICK e \in Connection : e.domain = d /\ e.task_pool = Kept(c) /\ Change(w, d, e)
  BY <1>1, <1>2, <1>3, PoolPut
<1> DEFINE left == Kept(c)
<1>7. /\ e.task_pool = left /\ Listed(left) \subseteq Listed(Socket(w, d).task_pool)
      /\ Injective(left)
      /\ \A l \in Letter :
           place'[l] = place[l] \/ l \in Listed(Socket(w, d).task_pool) \ Listed(left)
  BY <1>4, <1>5, <1>6 DEF c
<1> HIDE DEF left
<1> QED
  BY <1>1, <1>2, <1>6, <1>7, PutGives

LEMMA LeavesGives ==
  ASSUME TypeOK, NEW w, NEW left, Pool(w) \in Seq(Letter), Injective(Pool(w)),
         Leaves(w, left)
  PROVE  /\ Listed(left) \subseteq Listed(Pool(w)) /\ Injective(left)
         /\ \A l \in Letter : place'[l] = place[l] \/ l \in Listed(Pool(w)) \ Listed(left)
<1>1. CASE left = Pool(w) /\ place' = place
  BY <1>1
<1>2. CASE /\ Pool(w) # <<>> /\ left = Tail(Pool(w))
           /\ \E folder \in {"new", "current"} : place' = Moved({Head(Pool(w))}, folder)
  <2>1. /\ Injective(left) /\ Head(Pool(w)) \in Listed(Pool(w))
        /\ Listed(left) = Listed(Pool(w)) \ {Head(Pool(w))}
    BY <1>2, TailListed
  <2>2. \A l \in Letter : place'[l] = place[l] \/ l = Head(Pool(w))
    BY <1>2, MovedTyped DEF TypeOK
  <2> QED
    BY <2>1, <2>2
<1>3. CASE left = <<>> /\ place' = Moved(Listed(Pool(w)), "new")
  <2>1. Listed(left) = {} /\ Injective(left)
    BY <1>3 DEF Listed, Injective
  <2>2. \A l \in Letter : place'[l] = place[l] \/ l \in Listed(Pool(w))
    BY <1>3, MovedTyped DEF TypeOK
  <2> QED
    BY <2>1, <2>2
<1> QED
  BY <1>1, <1>2, <1>3 DEF Leaves

LEMMA ServeGives ==
  ASSUME TypeInv, OwnInv, main.at # "crashed", NEW w \in Worker, Dialogue(w)
  PROVE  Gives(w)
<1>1. pc[w] = "serving" /\ tasks' = tasks
  BY DialogueDoes DEF ServingOn
<1>2. TypeOK /\ Current(w) \in Doms(socket_list[w])
  BY <1>1, CurrentKnown DEF TypeInv
<1>3. Pool(w) \in Seq(Letter) /\ Injective(Pool(w))
  BY <1>2, PoolKnown DEF Pool
<1>4. PICK left, stage : /\ SetSocket(w, Current(w), left, stage)
                         /\ stage \in Stages /\ Leaves(w, left)
  BY DialogueDoes
<1>5. /\ left \in Seq(Letter)
      /\ Listed(left) \subseteq Listed(Pool(w)) /\ Injective(left)
      /\ \A l \in Letter : place'[l] = place[l] \/ l \in Listed(Pool(w)) \ Listed(left)
  BY <1>2, <1>3, <1>4, LeavesTyped, LeavesGives
<1>6. PICK c \in Connection : /\ c.domain = Current(w) /\ c.task_pool = left
                              /\ Change(w, Current(w), c)
  BY <1>2, <1>4, <1>5, SocketPut
<1> QED
  BY <1>1, <1>2, <1>5, <1>6, PutGives DEF Pool

LEMMA TakeGives ==
  ASSUME TypeInv, OwnInv, NEW w \in Worker, TakeTask(w)
  PROVE  Gives(w)
<1> DEFINE s == socket_list[w]
           t == tasks[w]
           h == Head(t)
           d == DomainOf[h]
<1>1. /\ t # <<>> /\ tasks' = [tasks EXCEPT ![w] = Tail(t)]
  BY DEF TakeTask
<1>2. TypeOK /\ OncePerDomain(s) /\ s \in Seq(Connection) /\ t \in Seq(Letter) /\ Neat(s, t)
  BY DEF TypeInv, TypeOK, Sock, SockOf, OwnInv
<1>3. h \in Letter /\ d \in Domain /\ Tail(t) \in Seq(Letter)
  BY <1>1, <1>2, TaskKnown
<1>4. tasks'[w] = Tail(t)
  BY <1>1, <1>2 DEF TypeOK
<1>5. HasSocket(w, d) <=> d \in Doms(s)
  BY DomainsAre DEF HasSocket
<1>6. \/ /\ HasSocket(w, d)
         /\ SetPool(w, d, Append(Socket(w, d).task_pool, h))
         /\ place' = place
      \/ /\ ~ HasSocket(w, d)
         /\ socket_list' = [socket_list EXCEPT ![w] =
              Append(@, [domain |-> d, task_pool |-> <<h>>, stage |-> "opening"])]
         /\ place' = place
      \/ /\ place' = Moved({h}, "new") \/ place' = place
         /\ socket_list' = socket_list
  BY Zenon DEF TakeTask, TakeToSocket, TakeToNewSocket, TakeInVain
<1>7. CASE /\ HasSocket(w, d)
           /\ SetPool(w, d, Append(Socket(w, d).task_pool, h))
           /\ place' = place
  <2> DEFINE i == AtIn(s, d)
             grown == Append(Socket(w, d).task_pool, h)
  <2>1. d \in Doms(s)
    BY <1>5, <1>7
  <2>2. grown \in Seq(Letter)
    <3>1. Socket(w, d).task_pool \in Seq(Letter)
      BY <2>1, PoolKnown
    <3> HIDE DEF h
    <3> QED
      BY <1>3, <3>1
  <2>3. PICK c \in Connection : c.domain = d /\ c.task_pool = grown /\ Change(w, d, c)
    <3> HIDE DEF h, d, grown
    <3>1. SetPool(w, d, grown)
      BY <1>7 DEF grown
    <3> QED
      BY <1>2, <2>1, <2>2, <3>1, PoolPut
  <2>4. socket_list'[w] = With(s, i, c)
    <3> HIDE DEF h, d, grown
    <3> QED
      BY <1>2, <2>1, <2>3, PutKeeps
  <2>5. i \in DOMAIN s /\ s[i].domain = d /\ s[i] = Socket(w, d)
    <3> HIDE DEF h, d, grown
    <3> QED
      BY <1>2, <2>1, AtFinds, SocketKnown
  <2>6. /\ DomainOf[Head(t)] = s[i].domain /\ c.domain = s[i].domain
        /\ c.task_pool = Append(s[i].task_pool, Head(t))
    BY <2>3, <2>5
  <2> HIDE DEF s, t, h, d, i, grown
  <2>7. Neat(With(s, i, c), Tail(t)) /\ Own(With(s, i, c), Tail(t)) = Own(s, t)
    BY <1>1, <1>2, <2>5, <2>6, PoolGrows, Zenon
  <2> QED
    BY <1>4, <1>7, <2>4, <2>7 DEF Gives, s, t
<1>8. CASE /\ ~ HasSocket(w, d)
           /\ socket_list' = [socket_list EXCEPT ![w] =
                Append(@, [domain |-> d, task_pool |-> <<h>>, stage |-> "opening"])]
           /\ place' = place
  <2> DEFINE c == [domain |-> d, task_pool |-> <<h>>, stage |-> "opening"]
  <2>1. /\ c \in Connection /\ c.domain = d /\ c.task_pool = <<Head(t)>>
        /\ c.domain = DomainOf[Head(t)]
    <3>1. <<h>> \in Seq(Letter)
      <4> HIDE DEF h
      <4> QED
        BY <1>3
    <3>2. c \in Connection
      <4> HIDE DEF h, d
      <4> QED
        BY <1>3, <3>1 DEF Connection
    <3> QED
      BY <3>2
  <2>2. socket_list' = [socket_list EXCEPT ![w] = Append(s, c)]
    BY <1>8
  <2>3. d \notin Doms(s)
    BY <1>5, <1>8
  <2> HIDE DEF c
  <2>4. socket_list'[w] = Append(s, c)
    <3> HIDE DEF s
    <3> QED
      BY <1>2, <2>2 DEF TypeOK
  <2> HIDE DEF s, t, h, d
  <2>5. Neat(Append(s, c), Tail(t)) /\ Own(Append(s, c), Tail(t)) = Own(s, t)
    BY <1>1, <1>2, <2>1, <2>3, SocketAdded
  <2> QED
    BY <1>4, <1>8, <2>4, <2>5 DEF Gives, s, t
<1>9. CASE /\ place' = Moved({h}, "new") \/ place' = place
           /\ socket_list' = socket_list
  <2>1. /\ Neat(s, Tail(t)) /\ h \in Own(s, t)
        /\ \A l : l \in Own(s, Tail(t)) <=> l \in Own(s, t) /\ l # h
    BY <1>1, <1>2, HeadKnown
  <2>2. \A l \in Letter : place'[l] = place[l] \/ l = h
    <3> HIDE DEF h
    <3> QED
      BY <1>2, <1>9, MovedTyped DEF TypeOK
  <2>3. socket_list'[w] = s
    BY <1>9
  <2> HIDE DEF s, t, h, d
  <2> QED
    BY <1>4, <2>1, <2>2, <2>3 DEF Gives, s, t
<1> QED
  BY <1>6, <1>7, <1>8, <1>9

LEMMA RemoveGives ==
  ASSUME TypeInv, OwnInv, main.at # "crashed", NEW w \in Worker, Remove(w)
  PROVE  Gives(w)
<1> DEFINE s == socket_list[w]
           t == tasks[w]
           i == AtIn(s, Current(w))
<1>1. Unlist(w) /\ pc[w] = "serving" /\ place' = place /\ tasks' = tasks
  BY DEF Remove, Unlist
<1>2. Current(w) \in Doms(s) /\ OncePerDomain(s) /\ s \in Seq(Connection) /\ Neat(s, t)
  BY <1>1, CurrentKnown DEF TypeInv, TypeOK, OwnInv
<1>3. socket_list'[w] = Without(s, i) /\ tasks'[w] = t
  BY <1>1, UnlistKnown
<1>4. i \in DOMAIN s
  BY <1>2, AtFinds
<1>5. Neat(Without(s, i), t) /\ Own(Without(s, i), t) \subseteq Own(s, t)
  <2> HIDE DEF s, t, i
  <2> QED
    BY <1>2, <1>4, SocketLost
<1> QED
  BY <1>1, <1>3, <1>5 DEF Gives

LEMMA WorkerGives ==
  ASSUME TypeInv, OwnInv, main.at # "crashed", NEW w \in Worker, WorkerStep(w)
  PROVE  Gives(w)
<1>1. CASE Loop(w) \/ EndTaking(w) \/ Select(w) \/ EndClosing(w) \/ StartServing(w)
           \/ Block(w) \/ NullPool(w) \/ Spin(w)
  <2>1. socket_list' = socket_list /\ tasks' = tasks /\ place' = place
    BY <1>1, Zenon DEF Loop, EndTaking, Select, EndClosing, StartServing, Block, NullPool,
                         Spin, ServingOn, listVars
  <2> QED
    BY <2>1, StillGives
<1>2. CASE TakeTask(w)
  BY <1>2, TakeGives
<1>3. ASSUME NEW d \in Domain, CloseConnection(w, d)
      PROVE  Gives(w)
  BY <1>3, CloseGives
<1>4. CASE Dialogue(w)
  BY <1>4, ServeGives
<1>5. CASE Remove(w)
  BY <1>5, RemoveGives
<1> QED
  BY <1>1, <1>2, <1>3, <1>4, <1>5, Zenon DEF WorkerStep, Dialogue

\* The letters of a worker are letters of the maildir.
LEMMA OwnLetters ==
  ASSUME TypeOK, NEW w \in Worker
  PROVE  Tasks(w) \subseteq Letter
<1>1. SUFFICES ASSUME NEW l \in Tasks(w) PROVE l \in Letter
  OBVIOUS
<1>2. tasks[w] \in Seq(Letter) /\ socket_list[w] \in Seq(Connection)
  BY DEF TypeOK
<1>3. CASE l \in Listed(tasks[w])
  BY <1>2, <1>3, ListedIs
<1>4. ASSUME NEW i \in DOMAIN socket_list[w], l \in Listed(socket_list[w][i].task_pool)
      PROVE  l \in Letter
  <2>1. socket_list[w][i] \in Connection
    BY <1>2, Indices
  <2>2. socket_list[w][i].task_pool \in Seq(Letter)
    BY <2>1 DEF Connection
  <2> QED
    BY <1>4, <2>2, ListedIs
<1> QED
  BY <1>3, <1>4, TasksAre, InOwn

LEMMA WorkerOwnStep ==
  ASSUME TypeInv, OwnInv, main.at # "crashed", NEW w \in Worker, WorkerStep(w)
  PROVE  OwnInv'
<1>1. Gives(w) /\ Alone(w) /\ (main' = main \/ main'.at = "crashed")
  BY WorkerGives, WorkerTurn DEF Turn
<1>2. \A v \in Worker : Tasks(v) = Own(socket_list[v], tasks[v]) /\ Tasks(v) \subseteq Letter
                        /\ Tasks(v)' = Own(socket_list'[v], tasks'[v])
  BY TasksAre, OwnLetters DEF TypeInv, Tasks, Own
<1>3. \A v \in Worker : v # w =>
        Tasks(v)' = Tasks(v) /\ socket_list'[v] = socket_list[v] /\ tasks'[v] = tasks[v]
  BY <1>1, <1>2 DEF Alone
<1>4. /\ Tasks(w)' \subseteq Tasks(w) /\ Neat(socket_list'[w], tasks'[w])
      /\ \A l \in Letter : place'[l] = place[l] \/ l \in Tasks(w) \ Tasks(w)'
  BY <1>1, <1>2 DEF Gives
<1>5. \A u, v \in Worker : u # v => Tasks(u)' \cap Tasks(v)' = {}
  BY <1>3, <1>4 DEF OwnInv
<1>6. ASSUME NEW v \in Worker
      PROVE  /\ Neat(socket_list'[v], tasks'[v])
             /\ \A l \in Tasks(v)' : place'[l] = "tmp"
  <2>1. CASE v = w
    BY <1>2, <1>4, <2>1 DEF OwnInv
  <2>2. CASE v # w
    <3>1. Neat(socket_list'[v], tasks'[v]) /\ Tasks(v)' = Tasks(v)
      BY <1>3, <2>2 DEF OwnInv
    <3>2. ASSUME NEW l \in Tasks(v) PROVE place'[l] = "tmp"
      <4>1. l \in Letter /\ place[l] = "tmp" /\ l \notin Tasks(w)
        BY <1>2, <2>2, <3>2 DEF OwnInv
      <4> QED
        BY <1>4, <4>1
    <3> QED
      BY <3>1, <3>2
  <2> QED
    BY <2>1, <2>2
<1>7. ASSUME main'.at \in {"adding", "added", "delegating"}
      PROVE  \E l \in Letter : main'.letter = {l} /\ place'[l] = "new"
  <2>1. main' = main
    BY <1>1, <1>7
  <2>2. PICK l \in Letter : main.letter = {l} /\ place[l] = "new"
    BY <1>7, <2>1 DEF OwnInv
  <2>3. l \notin Tasks(w)
    BY <2>2 DEF OwnInv
  <2> QED
    BY <1>4, <2>1, <2>2, <2>3
<1> QED
  BY <1>5, <1>6, <1>7 DEF OwnInv

\* The main thread, where it delegates nothing.
LEMMA OwnStays ==
  ASSUME OwnInv, socket_list' = socket_list, tasks' = tasks,
         \A w \in Worker : \A l \in Tasks(w) : place'[l] = place[l],
         main'.at \in {"adding", "added", "delegating"} =>
           \E l \in Letter : main'.letter = {l} /\ place'[l] = "new"
  PROVE  OwnInv'
<1>1. \A w \in Worker : Tasks(w)' = Tasks(w)
  BY DEF Tasks
<1> QED
  BY <1>1 DEF OwnInv

LEMMA DelegateOwn ==
  ASSUME TypeInv, OwnInv, Delegate
  PROVE  OwnInv'
<1>0. PICK w \in Worker : w = main.worker
  BY DEF Delegate
<1>1. /\ main.at = "delegating" /\ socket_list' = socket_list
      /\ place' = Moved(main.letter, "tmp")
      /\ tasks' = [tasks EXCEPT ![w] = Append(@, InHand)]
      /\ Watch /\ TypeOK
  BY <1>0 DEF Delegate, listVars, TypeInv
<1>2. PICK l \in Letter : main.letter = {l} /\ place[l] = "new"
  BY <1>1 DEF OwnInv
<1>3. InHand = l
  BY <1>2, Held
<1>4. \A v \in Worker : l \notin Tasks(v)
  BY <1>2 DEF OwnInv
<1>5. tasks'[w] = Append(tasks[w], l) /\ tasks[w] \in Seq(Letter)
      /\ \A v \in Worker : v # w => tasks'[v] = tasks[v]
  BY <1>1, <1>3 DEF TypeOK
<1>6. \A v \in Worker : v # w => Tasks(v)' = Tasks(v)
  BY <1>1, <1>5 DEF Tasks
<1>7. /\ Neat(socket_list'[w], tasks'[w])
      /\ \A k : k \in Tasks(w)' <=> k \in Tasks(w) \/ k = l
  <2>1. Neat(socket_list[w], tasks[w]) /\ l \notin Own(socket_list[w], tasks[w])
    BY <1>1, <1>4, TasksAre DEF OwnInv
  <2>2. /\ Neat(socket_list[w], Append(tasks[w], l))
        /\ \A k : k \in Own(socket_list[w], Append(tasks[w], l)) <=>
                  k \in Own(socket_list[w], tasks[w]) \/ k = l
    BY <1>5, <2>1, Delegated
  <2>3. Tasks(w)' = Own(socket_list'[w], tasks'[w])
    BY DEF Tasks, Own
  <2> QED
    BY <1>1, <1>5, <2>2, <2>3, TasksAre
<1>8. place'[l] = "tmp" /\ \A k \in Letter : k # l => place'[k] = place[k]
  BY <1>1, <1>2, MovedTyped DEF TypeOK
<1>9. \A u, v \in Worker : u # v => Tasks(u)' \cap Tasks(v)' = {}
  BY <1>4, <1>6, <1>7 DEF OwnInv
<1>10. ASSUME NEW v \in Worker
       PROVE  /\ Neat(socket_list'[v], tasks'[v])
              /\ \A k \in Tasks(v)' : place'[k] = "tmp"
  <2>1. \A k \in Tasks(v) : k \in Letter /\ place[k] = "tmp"
    BY <1>1, OwnLetters DEF OwnInv
  <2>2. CASE v = w
    BY <1>7, <1>8, <2>1, <2>2
  <2>3. CASE v # w
    BY <1>1, <1>4, <1>5, <1>6, <1>8, <2>1, <2>3 DEF OwnInv
  <2> QED
    BY <2>2, <2>3
<1>11. main'.at = "watching"
  BY <1>1, Watched
<1> QED
  BY <1>9, <1>10, <1>11 DEF OwnInv

LEMMA MainOwnStep ==
  ASSUME TypeInv, OwnInv, main.at # "crashed", Main
  PROVE  OwnInv'
<1>1. TypeOK
  BY DEF TypeInv
<1>2. ASSUME NEW l \in Letter, FindLetter(l) PROVE OwnInv'
  <2>1. /\ place[l] = "new" /\ place' = place
        /\ socket_list' = socket_list /\ tasks' = tasks
    BY <1>2 DEF FindLetter, listVars
  <2>2. main'.letter = {l}
    <3> DEFINE id == Dictionary[First(DomainOf[l])].workerId
    <3>1. \/ main' = [main EXCEPT !.at = "adding", !.letter = {l}]
          \/ main' = [main EXCEPT !.at = "delegating", !.letter = {l}, !.worker = id]
      BY <1>2, Zenon DEF FindLetter
    <3> HIDE DEF id
    <3> QED
      BY <1>1, <3>1, MainFields
  <2> QED
    BY <2>1, <2>2, OwnStays
<1>3. CASE AddRecord \/ ReadAdded
  <2>1. /\ place' = place /\ socket_list' = socket_list /\ tasks' = tasks
        /\ main.at \in {"adding", "added"}
    BY <1>3 DEF AddRecord, ReadAdded, listVars
  <2>2. main'.at = "watching" \/ main'.letter = main.letter
    <3>1. CASE AddRecord
      <4>1. main' = [main EXCEPT !.at = "added", !.worker = MostFreeWorker, !.tryes = @ + 1]
        BY <3>1 DEF AddRecord
      <4> QED
        BY <1>1, <4>1, MainFields
    <3>2. CASE ReadAdded
      <4>1. \/ Watch \/ main' = [main EXCEPT !.at = "adding"]
            \/ \E id : main' = [main EXCEPT !.at = "delegating", !.worker = id]
        BY <3>2, Zenon DEF ReadAdded
      <4> QED
        BY <1>1, <4>1, MainFields, Watched
    <3> QED
      BY <1>3, <3>1, <3>2
  <2>3. PICK l \in Letter : main.letter = {l} /\ place[l] = "new"
    BY <2>1 DEF OwnInv
  <2> QED
    BY <2>1, <2>2, <2>3, OwnStays
<1>4. CASE Delegate
  BY <1>4, DelegateOwn
<1>5. CASE DelegateNowhere
  <2>1. /\ main.at = "delegating" /\ socket_list' = socket_list /\ tasks' = tasks
        /\ place' = place \/ place' = Moved(main.letter, "tmp")
        /\ Watch \/ main' = [main EXCEPT !.at = "crashed"]
    BY <1>5, Zenon DEF DelegateNowhere, listVars
  <2>2. PICK l \in Letter : main.letter = {l} /\ place[l] = "new"
    BY <2>1 DEF OwnInv
  <2>3. \A k \in Letter : k # l => place'[k] = place[k]
    BY <1>1, <2>1, <2>2, MovedTyped DEF TypeOK
  <2>4. \A w \in Worker : \A k \in Tasks(w) : place'[k] = place[k]
    BY <1>1, <2>2, <2>3, OwnLetters DEF OwnInv
  <2>5. main'.at \in {"watching", "crashed"}
    BY <1>1, <2>1, MainFields, Watched
  <2> QED
    BY <2>1, <2>4, <2>5, OwnStays
<1>6. CASE Dispose \/ Join
  <2>1. place' = place /\ socket_list' = socket_list /\ tasks' = tasks
    BY <1>6, Zenon DEF Dispose, Join, listVars
  <2>2. main'.at \in {"joining", "ended"}
    BY <1>1, <1>6, MainFields DEF Dispose, Join
  <2> QED
    BY <2>1, <2>2, OwnStays
<1> QED
  BY <1>2, <1>3, <1>4, <1>5, <1>6, Zenon DEF Main

LEMMA OwnInit == Init => OwnInv
<1> SUFFICES ASSUME Init PROVE OwnInv
  OBVIOUS
<1>1. \A w \in Worker : socket_list[w] = <<>> /\ tasks[w] = <<>>
  BY DEF Init
<1>2. Listed(<<>>) = {} /\ Injective(<<>>)
  BY DEF Listed, Injective
<1>3. \A w \in Worker : Tasks(w) = {} /\ Neat(socket_list[w], tasks[w])
  BY <1>1, <1>2 DEF Tasks, Neat
<1>4. main.at = "watching"
  BY DEF Init
<1> QED
  BY <1>3, <1>4 DEF OwnInv

LEMMA OwnStep == TypeInv /\ OwnInv /\ [Next]_vars => OwnInv'
<1> SUFFICES ASSUME TypeInv, OwnInv, [Next]_vars PROVE OwnInv'
  OBVIOUS
<1>1. CASE main.at # "crashed" /\ Main
  BY <1>1, MainOwnStep
<1>2. ASSUME main.at # "crashed", NEW w \in Worker, WorkerStep(w) PROVE OwnInv'
  BY <1>2, WorkerOwnStep
<1>3. CASE UNCHANGED vars
  <2>1. /\ socket_list' = socket_list /\ tasks' = tasks /\ place' = place /\ main' = main
    BY <1>3 DEF vars, mainVars, listVars
  <2>2. \A w \in Worker : \A l \in Tasks(w) : place'[l] = place[l]
    BY <2>1
  <2>3. main'.at \in {"adding", "added", "delegating"} =>
          \E l \in Letter : main'.letter = {l} /\ place'[l] = "new"
    BY <2>1 DEF OwnInv
  <2> QED
    BY <2>1, <2>2, <2>3, OwnStays
<1> QED
  BY <1>1, <1>2, <1>3, Zenon DEF Next

\* A letter has at most one task, with one worker, although two workers may
\* serve one domain; and while it has one it is in "tmp", where no search finds
\* it (file_viewer.c:225).
THEOREM OneWorkerPerLetterHolds == Spec => []OneWorkerPerLetter
<1>1. OwnInv => OneWorkerPerLetter
  BY Zenon DEF OwnInv, Neat, OneWorkerPerLetter
<1> QED
  BY RecordsInit, RecordsStep, TypeInit, TypeStep, OwnInit, OwnStep, <1>1, PTL DEF Spec
=============================================================================
