-------------------------- MODULE ServerLoopProofs --------------------------
(***************************************************************************)
(* Theorems about ServerLoop: types and the limit of the descriptors, that *)
(* max_fd covers whatever a process selects on, and that the processes     *)
(* implement Dispatch.                                                     *)
(***************************************************************************)
EXTENDS ServerLoop, SequenceTheorems, WellFoundedInduction, TLAPS

-----------------------------------------------------------------------------
\* Numbers and sequences.

LEMMA Least ==
  ASSUME NEW S, S \subseteq Nat, S # {}
  PROVE  \E i \in S : \A j \in S : i <= j
<1> DEFINE R == {pair \in Nat \X Nat : pair[1] < pair[2]}
<1>1. IsWellFoundedOn(R, Nat)
  BY NatLessThanWellFounded, Zenon DEF OpToRel
<1>2. PICK i \in S : \A j \in S : ~ (<<j, i>> \in R)
  BY <1>1, WFMin, Zenon
<1>3. ASSUME NEW j \in S PROVE ~ (j < i)
  BY <1>2
<1> QED
  BY <1>3

\* A sequence without its i-th element.
LEMMA Cut ==
  ASSUME NEW S, NEW s \in Seq(S), NEW i \in DOMAIN s,
         NEW t, t = SubSeq(s, 1, i - 1) \o SubSeq(s, i + 1, Len(s))
  PROVE  /\ t \in Seq(S) /\ Len(t) = Len(s) - 1
         /\ \A k \in DOMAIN t : t[k] = s[IF k < i THEN k ELSE k + 1]
<1> DEFINE left == SubSeq(s, 1, i - 1)
           right == SubSeq(s, i + 1, Len(s))
<1>1. Len(s) \in Nat /\ i \in 1 .. Len(s) /\ \A k \in 1 .. Len(s) : s[k] \in S
  BY LenProperties, ElementOfSeq
<1>2. /\ left \in Seq(S) /\ Len(left) = i - 1
      /\ \A k \in 1 .. i - 1 : left[k] = s[k]
  <2>1. \A k \in 1 .. i - 1 : s[k] \in S
    BY <1>1
  <2>2. /\ left \in Seq(S)
        /\ Len(left) = IF 1 <= i - 1 THEN (i - 1) - 1 + 1 ELSE 0
        /\ \A k \in 1 .. (i - 1) - 1 + 1 : left[k] = s[1 + k - 1]
    BY <1>1, <2>1, SubSeqProperties
  <2> QED
    BY <1>1, <2>2
<1>3. /\ right \in Seq(S) /\ Len(right) = Len(s) - i
      /\ \A k \in 1 .. Len(s) - i : right[k] = s[k + i]
  <2>1. \A k \in i + 1 .. Len(s) : s[k] \in S
    BY <1>1
  <2>2. /\ right \in Seq(S)
        /\ Len(right) = IF i + 1 <= Len(s) THEN Len(s) - (i + 1) + 1 ELSE 0
        /\ \A k \in 1 .. Len(s) - (i + 1) + 1 : right[k] = s[(i + 1) + k - 1]
    BY <1>1, <2>1, SubSeqProperties
  <2> QED
    BY <1>1, <2>2
<1> HIDE DEF left, right
<1>4. /\ left \o right \in Seq(S)
      /\ Len(left \o right) = Len(left) + Len(right)
      /\ \A k \in 1 .. Len(left) + Len(right) :
           (left \o right)[k] = IF k <= Len(left) THEN left[k] ELSE right[k - Len(left)]
  BY <1>2, <1>3, ConcatProperties
<1>5. t = left \o right
  BY DEF left, right
<1>5a. /\ i \in Int /\ Len(s) \in Int /\ 1 <= i /\ i <= Len(s)
      /\ Len(left) = i - 1 /\ Len(right) = Len(s) - i
  BY <1>1, <1>2, <1>3
<1>5b. Len(left) + Len(right) = Len(s) - 1
  BY <1>5a
<1>6. t \in Seq(S) /\ Len(t) = Len(s) - 1 /\ DOMAIN t = 1 .. Len(s) - 1
  <2>1. t \in Seq(S) /\ Len(t) = Len(s) - 1
    BY <1>4, <1>5, <1>5b
  <2> QED
    BY <2>1, LenProperties
<1>6a. \A k \in 1 .. Len(s) - 1 :
        t[k] = IF k <= i - 1 THEN left[k] ELSE right[k - (i - 1)]
  BY <1>4, <1>5, <1>5a, <1>5b
<1>7. ASSUME NEW k \in 1 .. Len(s) - 1
      PROVE  t[k] = s[IF k < i THEN k ELSE k + 1]
  <2>1. k \in Int /\ 1 <= k /\ k <= Len(s) - 1
    BY <1>5a, <1>7
  <2>2. CASE k < i
    <3>1. k \in 1 .. i - 1 /\ k <= i - 1
      BY <1>5a, <2>1, <2>2
    <3> QED
      BY <1>2, <1>6a, <2>2, <3>1
  <2>3. CASE ~ (k < i)
    <3>1. ~ (k <= i - 1)
      BY <1>5a, <2>1, <2>3
    <3>2. k - (i - 1) \in 1 .. Len(s) - i
      BY <1>5a, <2>1, <2>3
    <3>3. (k - (i - 1)) + i = k + 1
      BY <1>5a, <2>1
    <3>4. t[k] = right[k - (i - 1)]
      BY <1>6a, <3>1
    <3>5. right[k - (i - 1)] = s[(k - (i - 1)) + i]
      BY <1>3, <3>2
    <3> QED
      BY <2>3, <3>3, <3>4, <3>5
  <2> QED
    BY <2>2, <2>3
<1> QED
  BY <1>6, <1>7

\* A function on the first numbers is a sequence.
LEMMA IsSequence ==
  ASSUME NEW S, NEW n \in Nat, NEW t \in [1 .. n -> S]
  PROVE  t \in Seq(S) /\ Len(t) = n
OBVIOUS

\* delete_elem takes one closed client out of the list.
LEMMA Deletes ==
  ASSUME NEW s \in Seq(Entry), Closed(s) # {}
  PROVE  \E i \in Closed(s) :
           /\ Delete(s) \in Seq(Entry) /\ Len(Delete(s)) = Len(s) - 1
           /\ \A k \in DOMAIN Delete(s) :
                Delete(s)[k] = s[IF k < i THEN k ELSE k + 1]
<1> DEFINE first == CHOOSE i \in Closed(s) : \A j \in Closed(s) : i <= j
<1>1. Closed(s) \subseteq Nat /\ Closed(s) \subseteq DOMAIN s
  BY DEF Closed
<1>2. \E i \in Closed(s) : \A j \in Closed(s) : i <= j
  BY <1>1, Least, Zenon
<1>3. first \in Closed(s)
  BY <1>2, Zenon
<1>4. Delete(s) = SubSeq(s, 1, first - 1) \o SubSeq(s, first + 1, Len(s))
  BY Zenon DEF Delete
<1>5. PICK i \in Closed(s) : Delete(s) = SubSeq(s, 1, i - 1) \o SubSeq(s, i + 1, Len(s))
  BY <1>3, <1>4, Zenon
<1>6. i \in DOMAIN s
  BY <1>1
<1> DEFINE t == Delete(s)
<1>7. t = SubSeq(s, 1, i - 1) \o SubSeq(s, i + 1, Len(s))
  BY <1>5
<1> HIDE DEF t
<1>8. /\ t \in Seq(Entry) /\ Len(t) = Len(s) - 1
      /\ \A k \in DOMAIN t : t[k] = s[IF k < i THEN k ELSE k + 1]
  BY <1>6, <1>7, Cut
<1> QED
  BY <1>8 DEF t

-----------------------------------------------------------------------------
\* Types, and descriptors below the limit.

FilesFit == \A p \in Process : NextFd(p) <= FdLimit

\* A listener that is taken from, and the descriptor it gives.
LEMMA TakeType ==
  ASSUME TypeOK, FilesFit, NEW p \in Process, NEW l \in Listener, Take(p, l)
  PROVE  /\ backlog' \in [Listener -> Seq(Connection)]
         /\ files' \in [Process -> Seq(Connection)]
         /\ ready' \in [Process -> SUBSET (Listener \cup Fd)]
         /\ pc' = pc /\ told' = told
         /\ FilesFit'
         /\ NextFd(p) \in Fd
<1> USE LoopAssumption
<1>1. backlog[l] \in Seq(Connection) /\ backlog[l] # <<>>
  BY DEF TypeOK, Take
<1>2. Head(backlog[l]) \in Connection /\ Tail(backlog[l]) \in Seq(Connection)
  BY <1>1
<1>3. files[p] \in Seq(Connection)
  BY DEF TypeOK
<1>4. /\ Append(files[p], Head(backlog[l])) \in Seq(Connection)
      /\ Len(Append(files[p], Head(backlog[l]))) = Len(files[p]) + 1
  BY <1>2, <1>3
<1>5. backlog' \in [Listener -> Seq(Connection)]
  BY <1>2 DEF Take, TypeOK
<1>6. files' \in [Process -> Seq(Connection)]
  BY <1>4 DEF Take, TypeOK
<1>7. ready' \in [Process -> SUBSET (Listener \cup Fd)]
  BY DEF Take, TypeOK
<1>8. NextFd(p) \in Fd
  BY <1>3 DEF Take, Exhausted, NextFd, Fd
<1>9. ASSUME NEW q \in Process PROVE FirstFd + Len(files'[q]) <= FdLimit
  <2>1. CASE q = p
    <3>1. files'[p] = Append(files[p], Head(backlog[l]))
      BY DEF Take, TypeOK
    <3> QED
      BY <1>3, <1>4, <1>8, <2>1, <3>1 DEF NextFd, Fd
  <2>2. CASE q # p
    <3>1. files'[q] = files[q]
      BY <2>2 DEF Take, TypeOK
    <3> QED
      BY <3>1 DEF FilesFit, NextFd
  <2> QED
    BY <2>1, <2>2
<1> QED
  BY <1>5, <1>6, <1>7, <1>8, <1>9 DEF Take, FilesFit, NextFd

LEMMA NextSplit ==
  ASSUME [Next]_vars
  PROVE  \/ \E c \in Connection, l \in Listener : Arrive(c, l)
         \/ \E p \in Process : Tell(p)
         \/ \E p \in Process : Clean(p)
         \/ \E p \in Process : Select(p)
         \/ \E p \in Process : Timeout(p)
         \/ \E p \in Process : Stop(p)
         \/ \E p \in Process : Serve(p)
         \/ \E p \in Process, l \in Listener : AcceptFails(p, l)
         \/ \E p \in Process, l \in Listener : AcceptLeaks(p, l)
         \/ \E p \in Process, l \in Listener : Accept(p, l)
         \/ UNCHANGED vars
BY Zenon DEF Next, LoopStep

\* A list whose clients change their states only.
LEMMA Restated ==
  ASSUME NEW s \in Seq(Entry), NEW closing
  PROVE  [i \in DOMAIN s |-> IF s[i].fd \in closing
                             THEN [s[i] EXCEPT !.state = "closed"] ELSE s[i]]
           \in Seq(Entry)
<1> DEFINE t == [i \in DOMAIN s |-> IF s[i].fd \in closing
                             THEN [s[i] EXCEPT !.state = "closed"] ELSE s[i]]
<1>1. ASSUME NEW i \in DOMAIN s PROVE t[i] \in Entry
  <2>1. s[i] \in Entry
    BY ElementOfSeq, LenProperties
  <2> QED
    BY <2>1 DEF Entry
<1>2. t \in [1 .. Len(s) -> Entry]
  BY <1>1
<1> QED
  BY <1>2

LEMMA TypeInit == Init => TypeOK /\ FilesFit
<1> SUFFICES ASSUME Init PROVE TypeOK /\ FilesFit
  OBVIOUS
<1>1. backlog \in [Listener -> Seq(Connection)] /\ files \in [Process -> Seq(Connection)]
  BY DEF Init
<1>2. sock_list \in [Process -> Seq(Entry)]
  BY DEF Init
<1>3. FilesFit
  BY LoopAssumption DEF Init, FilesFit, NextFd
<1>4. max_fd \in [Process -> Inherited \cup Fd]
  BY DEF Init
<1> QED
  BY <1>1, <1>2, <1>3, <1>4 DEF Init, TypeOK

LEMMA TypeStep == TypeOK /\ FilesFit /\ [Next]_vars => TypeOK' /\ FilesFit'
<1> SUFFICES ASSUME TypeOK, FilesFit, [Next]_vars PROVE TypeOK' /\ FilesFit'
  OBVIOUS
<1>1. ASSUME NEW c \in Connection, NEW l \in Listener, Arrive(c, l)
      PROVE  TypeOK' /\ FilesFit'
  <2>1. backlog' \in [Listener -> Seq(Connection)]
    BY <1>1 DEF Arrive, TypeOK
  <2> QED
    BY <1>1, <2>1 DEF Arrive, TypeOK, FilesFit, NextFd
<1>2. ASSUME NEW p \in Process, Tell(p) PROVE TypeOK' /\ FilesFit'
  BY <1>2 DEF Tell, TypeOK, FilesFit, NextFd
<1>3. ASSUME NEW p \in Process, Clean(p) PROVE TypeOK' /\ FilesFit'
  <2>1. sock_list[p] \in Seq(Entry)
    BY DEF TypeOK
  <2>2. CASE Closed(sock_list[p]) # {}
    <3>1. Delete(sock_list[p]) \in Seq(Entry)
      BY <2>1, <2>2, Deletes
    <3>2. sock_list' \in [Process -> Seq(Entry)]
      BY <1>3, <2>2, <3>1 DEF Clean, TypeOK
    <3> QED
      BY <1>3, <2>2, <3>2 DEF Clean, TypeOK, FilesFit, NextFd
  <2>3. CASE Closed(sock_list[p]) = {}
    BY <1>3, <2>3 DEF Clean, TypeOK, FilesFit, NextFd
  <2> QED
    BY <2>2, <2>3
<1>4. ASSUME NEW p \in Process, Select(p) PROVE TypeOK' /\ FilesFit'
  <2>1. PICK r \in Ready(p) : ready' = [ready EXCEPT ![p] = r]
    BY <1>4 DEF Select
  <2>2. r \subseteq Listener \cup Fd
    <3>1. PICK q \in SUBSET Fds(sock_list[p]) : r = Pending \cup q
      BY DEF Ready
    <3>2. sock_list[p] \in Seq(Entry)
      BY DEF TypeOK
    <3>3. ASSUME NEW i \in DOMAIN sock_list[p] PROVE sock_list[p][i].fd \in Fd
      <4>1. sock_list[p][i] \in Entry
        BY <3>2, ElementOfSeq, LenProperties
      <4> QED
        BY <4>1 DEF Entry
    <3> QED
      BY <3>1, <3>3 DEF Pending, Fds, Elements
  <2>3. ready' \in [Process -> SUBSET (Listener \cup Fd)]
    BY <2>1, <2>2 DEF TypeOK
  <2> QED
    BY <1>4, <2>3 DEF Select, TypeOK, FilesFit, NextFd
<1>5. ASSUME NEW p \in Process, Timeout(p) PROVE TypeOK' /\ FilesFit'
  <2> DEFINE t == [i \in DOMAIN sock_list[p] |->
                    [sock_list[p][i] EXCEPT !.state = "closed"]]
  <2>1. sock_list[p] \in Seq(Entry)
    BY DEF TypeOK
  <2>2. ASSUME NEW i \in DOMAIN sock_list[p] PROVE t[i] \in Entry
    <3>1. sock_list[p][i] \in Entry
      BY <2>1, ElementOfSeq, LenProperties
    <3> QED
      BY <3>1 DEF Entry
  <2>3. Len(sock_list[p]) \in Nat /\ DOMAIN sock_list[p] = 1 .. Len(sock_list[p])
    BY <2>1, LenProperties
  <2>4. t \in Seq(Entry)
    <3>1. t \in [1 .. Len(sock_list[p]) -> Entry]
      BY <2>2, <2>3
    <3> HIDE DEF t
    <3> QED
      BY <2>3, <3>1, IsSequence
  <2>5. sock_list' = [sock_list EXCEPT ![p] = t]
    BY <1>5 DEF Timeout
  <2> HIDE DEF t
  <2>6. sock_list' \in [Process -> Seq(Entry)]
    BY <2>4, <2>5 DEF TypeOK
  <2> QED
    BY <1>5, <2>6 DEF Timeout, TypeOK, FilesFit, NextFd
<1>6. ASSUME NEW p \in Process, Stop(p) PROVE TypeOK' /\ FilesFit'
  BY <1>6 DEF Stop, TypeOK, FilesFit, NextFd
<1>7. ASSUME NEW p \in Process, Serve(p) PROVE TypeOK' /\ FilesFit'
  <2>1. PICK closing \in SUBSET ready[p] :
          sock_list' = [sock_list EXCEPT ![p] =
                         [i \in DOMAIN @ |-> IF @[i].fd \in closing
                                             THEN [@[i] EXCEPT !.state = "closed"]
                                             ELSE @[i]]]
    BY <1>7 DEF Serve
  <2>2. sock_list[p] \in Seq(Entry)
    BY DEF TypeOK
  <2>3. sock_list' \in [Process -> Seq(Entry)]
    BY <2>1, <2>2, Restated DEF TypeOK
  <2> QED
    BY <1>7, <2>3 DEF Serve, TypeOK, FilesFit, NextFd
<1>8. ASSUME NEW p \in Process, NEW l \in Listener, AcceptFails(p, l)
      PROVE  TypeOK' /\ FilesFit'
  <2>1. ready' \in [Process -> SUBSET (Listener \cup Fd)]
    BY <1>8 DEF AcceptFails, TypeOK
  <2> QED
    BY <1>8, <2>1 DEF AcceptFails, TypeOK, FilesFit, NextFd
<1>9. ASSUME NEW p \in Process, NEW l \in Listener, AcceptLeaks(p, l)
      PROVE  TypeOK' /\ FilesFit'
  BY <1>9, TakeType DEF AcceptLeaks, TypeOK
<1>10. ASSUME NEW p \in Process, NEW l \in Listener, Accept(p, l)
       PROVE  TypeOK' /\ FilesFit'
  <2>1. Take(p, l)
    BY <1>10 DEF Accept
  <2>2. NextFd(p) \in Fd
    BY <2>1, TakeType
  <2>3. max_fd' \in [Process -> Inherited \cup Fd]
    BY <1>10, <2>2 DEF Accept, Covering, TypeOK
  <2>4. Admit(sock_list[p], NextFd(p)) \in Seq(Entry)
    <3>1. [fd |-> NextFd(p), state |-> "open"] \in Entry
      BY <2>2 DEF Entry
    <3>2. sock_list[p] \in Seq(Entry)
      BY DEF TypeOK
    <3> QED
      BY <3>1, <3>2 DEF Admit
  <2>5. sock_list' \in [Process -> Seq(Entry)]
    BY <1>10, <2>4 DEF Accept, TypeOK
  <2> QED
    BY <2>1, <2>3, <2>5, TakeType DEF TypeOK
<1>11. CASE UNCHANGED vars
  BY <1>11 DEF vars, TypeOK, FilesFit, NextFd
<1> QED
  BY NextSplit, <1>1, <1>2, <1>3, <1>4, <1>5, <1>6, <1>7, <1>8, <1>9, <1>10, <1>11

\* Every client has a descriptor below the limit, so that it fits an fd_set,
\* and every variable keeps its type (smtp.c:94-98, 149-162).
THEOREM TypeOKHolds == Spec => []TypeOK
<1>1. Init => TypeOK /\ FilesFit
  BY TypeInit
<1>2. TypeOK /\ FilesFit /\ [Next]_vars => (TypeOK /\ FilesFit)'
  BY TypeStep
<1> QED
  BY <1>1, <1>2, PTL DEF Spec

-----------------------------------------------------------------------------
\* The list of clients.

LEMMA Lists ==
  ASSUME TypeOK, NEW p \in Process
  PROVE  /\ files[p] \in Seq(Connection) /\ Len(files[p]) \in Nat
         /\ DOMAIN files[p] = 1 .. Len(files[p])
         /\ sock_list[p] \in Seq(Entry) /\ Len(sock_list[p]) \in Nat
         /\ DOMAIN sock_list[p] = 1 .. Len(sock_list[p])
         /\ \A i \in DOMAIN sock_list[p] : sock_list[p][i] \in Entry
<1>1. files[p] \in Seq(Connection) /\ sock_list[p] \in Seq(Entry)
  BY DEF TypeOK
<1> QED
  BY <1>1, LenProperties, ElementOfSeq

\* A new client is the first of the list.
LEMMA Admits ==
  ASSUME NEW s \in Seq(Entry), NEW fd \in Fd
  PROVE  /\ Len(Admit(s, fd)) = Len(s) + 1 /\ DOMAIN Admit(s, fd) = 1 .. Len(s) + 1
         /\ Admit(s, fd)[1] = [fd |-> fd, state |-> "open"]
         /\ \A k \in 1 .. Len(s) : Admit(s, fd)[k + 1] = s[k]
         /\ \A k \in 2 .. Len(s) + 1 : k - 1 \in 1 .. Len(s) /\ Admit(s, fd)[k] = s[k - 1]
<1> DEFINE new == <<[fd |-> fd, state |-> "open"]>>
<1>1. /\ new \in Seq(Entry) /\ Len(new) = 1
      /\ new[1] = [fd |-> fd, state |-> "open"]
  BY DEF Entry
<1>2. Admit(s, fd) = new \o s
  BY DEF Admit
<1> HIDE DEF new
<1>3. /\ new \o s \in Seq(Entry)
      /\ Len(new \o s) = Len(new) + Len(s)
      /\ \A k \in 1 .. Len(new) + Len(s) :
           (new \o s)[k] = IF k <= Len(new) THEN new[k] ELSE s[k - Len(new)]
  BY <1>1, ConcatProperties
<1>4. Len(s) \in Nat
  BY LenProperties
<1>5. Len(new \o s) = Len(s) + 1
  BY <1>1, <1>3, <1>4
<1>6. DOMAIN (new \o s) = 1 .. Len(s) + 1
  BY <1>3, <1>5, LenProperties
<1>7. \A k \in 1 .. Len(s) + 1 : (new \o s)[k] = IF k <= 1 THEN new[1] ELSE s[k - 1]
  BY <1>1, <1>3, <1>4
<1>8. \A k \in 1 .. Len(s) : k + 1 \in 1 .. Len(s) + 1 /\ ~ (k + 1 <= 1) /\ k + 1 - 1 = k
  BY <1>4
<1>9. \A k \in 2 .. Len(s) + 1 :
        k \in 1 .. Len(s) + 1 /\ ~ (k <= 1) /\ k - 1 \in 1 .. Len(s)
  BY <1>4
<1> QED
  BY <1>1, <1>2, <1>4, <1>5, <1>6, <1>7, <1>8, <1>9

\* Whatever a client in the list of p is after a step, it was before, unless it
\* has just been accepted.
LEMMA ListStep ==
  ASSUME TypeOK, FilesFit, [Next]_vars, NEW p \in Process, NEW i \in DOMAIN sock_list'[p]
  PROVE  \/ \E j \in DOMAIN sock_list[p] : sock_list'[p][i].fd = sock_list[p][j].fd
         \/ /\ sock_list'[p][i].fd = NextFd(p)
            /\ max_fd' = [max_fd EXCEPT ![p] = Covering(NextFd(p), @)]
<1> DEFINE Kept == \E j \in DOMAIN sock_list[p] : sock_list'[p][i].fd = sock_list[p][j].fd
<1>0. sock_list[p] \in Seq(Entry) /\ Len(sock_list[p]) \in Nat
      /\ DOMAIN sock_list[p] = 1 .. Len(sock_list[p])
  BY LenProperties DEF TypeOK
<1>1. CASE sock_list'[p] = sock_list[p]
  BY <1>1
<1>2. ASSUME NEW q \in Process, Clean(q) PROVE Kept
  <2>1. CASE q = p /\ Closed(sock_list[p]) # {}
    <3>1. sock_list'[p] = Delete(sock_list[p])
      BY <1>2, <2>1 DEF Clean, TypeOK
    <3>2. PICK f \in Closed(sock_list[p]) :
            /\ Delete(sock_list[p]) \in Seq(Entry)
            /\ Len(Delete(sock_list[p])) = Len(sock_list[p]) - 1
            /\ \A k \in DOMAIN Delete(sock_list[p]) :
                 Delete(sock_list[p])[k] = sock_list[p][IF k < f THEN k ELSE k + 1]
      BY <1>0, <2>1, Deletes
    <3>3. i \in 1 .. Len(sock_list[p]) - 1
      BY <3>1, <3>2, LenProperties
    <3>4. f \in Nat
      BY <1>0 DEF Closed
    <3>5. (IF i < f THEN i ELSE i + 1) \in DOMAIN sock_list[p]
      BY <1>0, <3>3, <3>4
    <3> QED
      BY <3>1, <3>2, <3>5
  <2>2. CASE ~ (q = p /\ Closed(sock_list[p]) # {})
    BY <1>2, <2>2 DEF Clean, TypeOK
  <2> QED
    BY <2>1, <2>2
<1>3. ASSUME NEW q \in Process, Timeout(q) PROVE Kept
  <2>1. CASE q = p
    <3>1. sock_list'[p] = [j \in DOMAIN sock_list[p] |->
                            [sock_list[p][j] EXCEPT !.state = "closed"]]
      BY <1>3, <2>1 DEF Timeout, TypeOK
    <3>2. i \in DOMAIN sock_list[p] /\ sock_list[p][i] \in Entry
      BY <1>0, <3>1, ElementOfSeq
    <3> QED
      BY <3>1, <3>2 DEF Entry
  <2>2. CASE q # p
    BY <1>3, <2>2 DEF Timeout, TypeOK
  <2> QED
    BY <2>1, <2>2
<1>4. ASSUME NEW q \in Process, Serve(q) PROVE Kept
  <2>1. CASE q = p
    <3>0. PICK closing \in SUBSET ready[q] :
            sock_list' = [sock_list EXCEPT ![q] =
                           [j \in DOMAIN @ |-> IF @[j].fd \in closing
                                               THEN [@[j] EXCEPT !.state = "closed"]
                                               ELSE @[j]]]
      BY <1>4 DEF Serve
    <3>1. sock_list'[p] = [j \in DOMAIN sock_list[p] |->
              IF sock_list[p][j].fd \in closing
              THEN [sock_list[p][j] EXCEPT !.state = "closed"] ELSE sock_list[p][j]]
      BY <2>1, <3>0 DEF TypeOK
    <3>2. i \in DOMAIN sock_list[p] /\ sock_list[p][i] \in Entry
      BY <1>0, <3>1, ElementOfSeq
    <3> QED
      BY <3>1, <3>2 DEF Entry
  <2>2. CASE q # p
    BY <1>4, <2>2 DEF Serve, TypeOK
  <2> QED
    BY <2>1, <2>2
<1>5. ASSUME NEW q \in Process, NEW l \in Listener, Accept(q, l)
      PROVE  \/ Kept
             \/ /\ sock_list'[p][i].fd = NextFd(p)
                /\ max_fd' = [max_fd EXCEPT ![p] = Covering(NextFd(p), @)]
  <2>1. CASE q = p
    <3>1. sock_list'[p] = Admit(sock_list[p], NextFd(p))
      BY <1>5, <2>1 DEF Accept, TypeOK
    <3>2. NextFd(p) \in Fd
      BY <1>5, <2>1, TakeType DEF Accept
    <3>3. CASE i = 1
      <4>1. Admit(sock_list[p], NextFd(p))[1] = [fd |-> NextFd(p), state |-> "open"]
        BY <1>0, <3>2, Admits
      <4>2. sock_list'[p][i].fd = NextFd(p)
        BY <3>1, <3>3, <4>1
      <4> QED
        BY <1>5, <2>1, <4>2 DEF Accept
    <3>4. CASE i # 1
      <4>1. i \in 2 .. Len(sock_list[p]) + 1
        <5>1. DOMAIN Admit(sock_list[p], NextFd(p)) = 1 .. Len(sock_list[p]) + 1
          BY <1>0, <3>2, Admits
        <5>2. i \in 1 .. Len(sock_list[p]) + 1
          BY <3>1, <5>1
        <5> QED
          BY <1>0, <3>4, <5>2
      <4>2. /\ i - 1 \in 1 .. Len(sock_list[p])
            /\ sock_list'[p][i] = sock_list[p][i - 1]
        BY <1>0, <3>1, <3>2, <4>1, Admits
      <4> QED
        BY <1>0, <4>2
    <3> QED
      BY <3>3, <3>4
  <2>2. CASE q # p
    BY <1>5, <2>2 DEF Accept, TypeOK
  <2> QED
    BY <2>1, <2>2
<1>6. \/ \E q \in Process : Clean(q) \/ Timeout(q) \/ Serve(q)
      \/ \E q \in Process, l \in Listener : Accept(q, l)
      \/ sock_list' = sock_list
  BY NextSplit DEF Arrive, Tell, Select, Stop, AcceptFails, AcceptLeaks, vars
<1> QED
  BY <1>1, <1>2, <1>3, <1>4, <1>5, <1>6

\* max_fd covers the inherited descriptors and the clients at all times.
CoverInv ==
  \A p \in Process :
    /\ \A fd \in Inherited : fd <= max_fd[p]
    /\ \A i \in DOMAIN sock_list[p] : sock_list[p][i].fd <= max_fd[p]

LEMMA CoverStep == TypeOK /\ FilesFit /\ CoverInv /\ [Next]_vars => CoverInv'
<1> SUFFICES ASSUME TypeOK, FilesFit, CoverInv, [Next]_vars, NEW p \in Process
             PROVE  /\ \A fd \in Inherited : fd <= max_fd'[p]
                    /\ \A i \in DOMAIN sock_list'[p] : sock_list'[p][i].fd <= max_fd'[p]
  BY DEF CoverInv
<1>1. Inherited \subseteq Int /\ Fd \subseteq Int /\ FirstFd \in Int
  BY LoopAssumption DEF Fd
<1>2. max_fd[p] \in Int /\ sock_list[p] \in Seq(Entry)
  BY <1>1 DEF TypeOK
<1>3. \A j \in DOMAIN sock_list[p] : sock_list[p][j].fd \in Int
  <2> SUFFICES ASSUME NEW j \in DOMAIN sock_list[p] PROVE sock_list[p][j].fd \in Int
    OBVIOUS
  <2>1. sock_list[p][j] \in Entry
    BY <1>2, ElementOfSeq, LenProperties
  <2> QED
    BY <1>1, <2>1 DEF Entry
<1>4. \/ max_fd'[p] = max_fd[p]
      \/ NextFd(p) \in Int /\ max_fd'[p] = Covering(NextFd(p), max_fd[p])
  <2>1. \/ max_fd' = max_fd
        \/ \E q \in Process, l \in Listener : Accept(q, l)
    BY NextSplit DEF Arrive, Tell, Clean, Select, Timeout, Stop, Serve, AcceptFails,
                     AcceptLeaks, vars
  <2>2. ASSUME NEW q \in Process, NEW l \in Listener, Accept(q, l)
        PROVE  \/ max_fd'[p] = max_fd[p]
               \/ NextFd(p) \in Int /\ max_fd'[p] = Covering(NextFd(p), max_fd[p])
    <3>1. NextFd(q) \in Fd
      BY <2>2, TakeType DEF Accept
    <3>2. max_fd' = [max_fd EXCEPT ![q] = Covering(NextFd(q), max_fd[q])]
      BY <2>2 DEF Accept
    <3> QED
      BY <1>1, <3>1, <3>2 DEF TypeOK
  <2> QED
    BY <2>1, <2>2
<1>5. max_fd'[p] \in Int /\ max_fd[p] <= max_fd'[p]
  BY <1>2, <1>4 DEF Covering
<1>6. ASSUME NEW fd \in Inherited PROVE fd <= max_fd'[p]
  <2>1. fd \in Int /\ fd <= max_fd[p]
    BY <1>1 DEF CoverInv
  <2> QED
    BY <1>2, <1>5, <2>1
<1>7. ASSUME NEW i \in DOMAIN sock_list'[p] PROVE sock_list'[p][i].fd <= max_fd'[p]
  <2>1. CASE \E j \in DOMAIN sock_list[p] : sock_list'[p][i].fd = sock_list[p][j].fd
    BY <1>2, <1>3, <1>5, <2>1 DEF CoverInv
  <2>2. CASE /\ sock_list'[p][i].fd = NextFd(p)
             /\ max_fd' = [max_fd EXCEPT ![p] = Covering(NextFd(p), @)]
    <3>1. max_fd'[p] = Covering(NextFd(p), max_fd[p])
      BY <2>2 DEF TypeOK
    <3>2. NextFd(p) \in Int
      BY <1>1, Lists DEF NextFd
    <3> QED
      BY <1>2, <2>2, <3>1, <3>2 DEF Covering
  <2> QED
    BY <2>1, <2>2, ListStep
<1> QED
  BY <1>6, <1>7

\* select is told of every descriptor of a process, whoever came and went
\* before (smtp.c:94-98).
THEOREM MaxFdCoversHolds == Spec => []MaxFdCovers
<1>1. Init => TypeOK /\ FilesFit /\ CoverInv
  BY TypeInit DEF Init, CoverInv
<1>2. TypeOK /\ FilesFit /\ CoverInv /\ [Next]_vars => (TypeOK /\ FilesFit /\ CoverInv)'
  BY TypeStep, CoverStep
<1>3. CoverInv => MaxFdCovers
  BY DEF CoverInv, MaxFdCovers, Fds, Elements
<1> QED
  BY <1>1, <1>2, <1>3, PTL DEF Spec

-----------------------------------------------------------------------------
\* Where a connection is.

\* A connection is at one place only, in a backlog or behind a descriptor.
OnceInv ==
  /\ \A l, m \in Listener : \A i \in DOMAIN backlog[l], j \in DOMAIN backlog[m] :
       backlog[l][i] = backlog[m][j] => l = m /\ i = j
  /\ \A p, q \in Process : \A i \in DOMAIN files[p], j \in DOMAIN files[q] :
       files[p][i] = files[q][j] => p = q /\ i = j
  /\ \A l \in Listener, p \in Process :
       \A i \in DOMAIN backlog[l], j \in DOMAIN files[p] : backlog[l][i] # files[p][j]

\* A descriptor is in the list once, and in use; there is no closed client when
\* select is called.
ListInv ==
  \A p \in Process :
    /\ \A i, j \in DOMAIN sock_list[p] :
         sock_list[p][i].fd = sock_list[p][j].fd => i = j
    /\ \A i \in DOMAIN sock_list[p] : sock_list[p][i].fd < NextFd(p)
    /\ pc[p] = "selecting" => Closed(sock_list[p]) = {}

LEMMA Backlogs ==
  ASSUME TypeOK, NEW l \in Listener
  PROVE  /\ backlog[l] \in Seq(Connection) /\ Len(backlog[l]) \in Nat
         /\ DOMAIN backlog[l] = 1 .. Len(backlog[l])
<1>1. backlog[l] \in Seq(Connection)
  BY DEF TypeOK
<1> QED
  BY <1>1, LenProperties

\* The first connection of a listener becomes the last file of a process.
LEMMA Takes ==
  ASSUME TypeOK, NEW p \in Process, NEW l \in Listener, Take(p, l)
  PROVE  /\ 1 \in DOMAIN backlog[l] /\ backlog[l][1] \in Connection
         /\ \A m \in Listener : m # l => backlog'[m] = backlog[m]
         /\ \A i \in DOMAIN backlog'[l] :
              i + 1 \in DOMAIN backlog[l] /\ backlog'[l][i] = backlog[l][i + 1]
         /\ \A i \in DOMAIN backlog[l] : i # 1 =>
              i - 1 \in DOMAIN backlog'[l] /\ backlog'[l][i - 1] = backlog[l][i]
         /\ \A q \in Process : q # p => files'[q] = files[q]
         /\ DOMAIN files'[p] = 1 .. Len(files[p]) + 1
         /\ Len(files'[p]) = Len(files[p]) + 1
         /\ files'[p][Len(files[p]) + 1] = backlog[l][1]
         /\ \A i \in DOMAIN files[p] : files'[p][i] = files[p][i]
<1> DEFINE b == backlog[l]
           c == Head(backlog[l])
           f == files[p]
<1>1. b \in Seq(Connection) /\ b # <<>> /\ Len(b) \in Nat /\ DOMAIN b = 1 .. Len(b)
  BY Backlogs DEF Take
<1>2. f \in Seq(Connection) /\ Len(f) \in Nat /\ DOMAIN f = 1 .. Len(f)
  BY Lists
<1>3. backlog'[l] = Tail(b) /\ files'[p] = Append(f, c)
  BY DEF Take, TypeOK
<1>4. /\ \A m \in Listener : m # l => backlog'[m] = backlog[m]
      /\ \A q \in Process : q # p => files'[q] = files[q]
  BY DEF Take, TypeOK
<1> HIDE DEF b, f
<1>5. /\ c \in Connection /\ Tail(b) \in Seq(Connection)
      /\ Len(Tail(b)) = Len(b) - 1 /\ \A i \in 1 .. Len(Tail(b)) : Tail(b)[i] = b[i + 1]
  BY <1>1, HeadTailProperties DEF b
<1>6. Len(b) >= 1 /\ c = b[1]
  BY <1>1 DEF b
<1>7. DOMAIN Tail(b) = 1 .. Len(b) - 1
  BY <1>5, LenProperties
<1>8. /\ Append(f, c) \in Seq(Connection) /\ Len(Append(f, c)) = Len(f) + 1
      /\ \A i \in 1 .. Len(f) : Append(f, c)[i] = f[i]
      /\ Append(f, c)[Len(f) + 1] = c
  BY <1>2, <1>5, AppendProperties
<1>9. DOMAIN Append(f, c) = 1 .. Len(f) + 1
  BY <1>8, LenProperties
<1>10. \A i \in 1 .. Len(b) - 1 : i + 1 \in 1 .. Len(b)
  BY <1>1
<1>11. \A i \in 1 .. Len(b) : i # 1 => i - 1 \in 1 .. Len(b) - 1 /\ (i - 1) + 1 = i
  BY <1>1
<1>12. \A i \in DOMAIN Tail(b) : i + 1 \in DOMAIN b /\ Tail(b)[i] = b[i + 1]
  BY <1>1, <1>5, <1>7, <1>10
<1>13. \A i \in DOMAIN b : i # 1 => i - 1 \in DOMAIN Tail(b) /\ Tail(b)[i - 1] = b[i]
  BY <1>1, <1>7, <1>11, <1>12
<1>14. 1 \in DOMAIN b
  BY <1>1, <1>6
<1> HIDE DEF c
<1> QED
  BY <1>2, <1>3, <1>4, <1>5, <1>6, <1>8, <1>9, <1>12, <1>13, <1>14 DEF b, f

\* Only an arriving connection and a successful accept touch backlogs and files.
LEMMA FilesStep ==
  ASSUME [Next]_vars
  PROVE  \/ \E c \in Connection, l \in Listener : Arrive(c, l)
         \/ \E p \in Process, l \in Listener : AcceptLeaks(p, l)
         \/ \E p \in Process, l \in Listener : Accept(p, l)
         \/ backlog' = backlog /\ files' = files
BY NextSplit DEF Tell, Clean, Select, Timeout, Stop, Serve, AcceptFails, vars

LEMMA OnceTake ==
  ASSUME TypeOK, OnceInv, NEW p \in Process, NEW l \in Listener, Take(p, l)
  PROVE  OnceInv'
<1> DEFINE n == Len(files[p]) + 1
<1>1. \A q \in Process : \A i \in DOMAIN files'[q] :
        \/ i \in DOMAIN files[q] /\ files'[q][i] = files[q][i]
        \/ q = p /\ i = n /\ files'[q][i] = backlog[l][1]
  <2> SUFFICES ASSUME NEW q \in Process, NEW i \in DOMAIN files'[q]
               PROVE  \/ i \in DOMAIN files[q] /\ files'[q][i] = files[q][i]
                      \/ q = p /\ i = n /\ files'[q][i] = backlog[l][1]
    OBVIOUS
  <2>1. CASE q = p
    <3>1. i \in 1 .. n
      BY <2>1, Takes
    <3>2. i = n \/ i \in DOMAIN files[p]
      BY <3>1, Lists
    <3> QED
      BY <2>1, <3>2, Takes
  <2>2. CASE q # p
    BY <2>2, Takes
  <2> QED
    BY <2>1, <2>2
<1>2. \A m \in Listener : \A i \in DOMAIN backlog'[m] :
        \E j \in DOMAIN backlog[m] :
          /\ backlog'[m][i] = backlog[m][j]
          /\ m = l => j = i + 1
          /\ m # l => j = i
  BY Takes
<1>3. \A m \in Listener : \A i \in DOMAIN backlog'[m] :
        i \in Nat /\ \A k \in Nat : k = i + 1 => k # 1
  <2> SUFFICES ASSUME NEW m \in Listener, NEW i \in DOMAIN backlog'[m]
               PROVE  i \in Nat /\ i # 0
    OBVIOUS
  <2>1. CASE m = l
    <3>1. backlog'[l] = Tail(backlog[l]) /\ backlog[l] # <<>>
      BY DEF Take, TypeOK
    <3>2. DOMAIN backlog'[l] = 1 .. Len(backlog[l]) - 1
      BY <3>1, HeadTailProperties, LenProperties, Backlogs
    <3> QED
      BY <2>1, <3>2, Backlogs
  <2>2. CASE m # l
    BY <2>2, Takes, Backlogs
  <2> QED
    BY <2>1, <2>2
<1>4. /\ 1 \in DOMAIN backlog[l]
      /\ \A q \in Process : \A i \in DOMAIN files[q] : files[q][i] # backlog[l][1]
  BY Takes DEF OnceInv
<1>5. \A k, m \in Listener : \A i \in DOMAIN backlog'[k], j \in DOMAIN backlog'[m] :
        backlog'[k][i] = backlog'[m][j] => k = m /\ i = j
  <2> SUFFICES ASSUME NEW k \in Listener, NEW m \in Listener,
                      NEW i \in DOMAIN backlog'[k], NEW j \in DOMAIN backlog'[m],
                      backlog'[k][i] = backlog'[m][j]
               PROVE  k = m /\ i = j
    OBVIOUS
  <2>1. PICK i0 \in DOMAIN backlog[k] :
          /\ backlog'[k][i] = backlog[k][i0]
          /\ k = l => i0 = i + 1
          /\ k # l => i0 = i
    BY <1>2
  <2>2. PICK j0 \in DOMAIN backlog[m] :
          /\ backlog'[m][j] = backlog[m][j0]
          /\ m = l => j0 = j + 1
          /\ m # l => j0 = j
    BY <1>2
  <2>3. k = m /\ i0 = j0
    <3>1. backlog[k][i0] = backlog[m][j0]
      BY <2>1, <2>2
    <3> QED
      BY <3>1 DEF OnceInv
  <2>4. i \in Nat /\ j \in Nat
    BY <1>3
  <2> QED
    BY <2>1, <2>2, <2>3, <2>4
<1>6. \A q, r \in Process : \A i \in DOMAIN files'[q], j \in DOMAIN files'[r] :
        files'[q][i] = files'[r][j] => q = r /\ i = j
  BY <1>1, <1>4 DEF OnceInv
<1>7. \A m \in Listener, q \in Process :
        \A i \in DOMAIN backlog'[m], j \in DOMAIN files'[q] :
          backlog'[m][i] # files'[q][j]
  <2> SUFFICES ASSUME NEW m \in Listener, NEW q \in Process,
                      NEW i \in DOMAIN backlog'[m], NEW j \in DOMAIN files'[q],
                      backlog'[m][i] = files'[q][j]
               PROVE  FALSE
    OBVIOUS
  <2>1. PICK i0 \in DOMAIN backlog[m] :
          /\ backlog'[m][i] = backlog[m][i0]
          /\ m = l => i0 = i + 1
          /\ m # l => i0 = i
    BY <1>2
  <2>2. CASE j \in DOMAIN files[q] /\ files'[q][j] = files[q][j]
    <3>1. backlog[m][i0] = files[q][j]
      BY <2>1, <2>2
    <3> QED
      BY <2>2, <3>1 DEF OnceInv
  <2>3. CASE files'[q][j] = backlog[l][1]
    <3>0. backlog[m][i0] = backlog[l][1]
      BY <2>1, <2>3
    <3>1. m = l /\ i0 = 1
      BY <1>4, <3>0 DEF OnceInv
    <3> QED
      BY <1>3, <2>1, <3>1
  <2> QED
    BY <1>1, <2>2, <2>3
<1> QED
  BY <1>5, <1>6, <1>7 DEF OnceInv

LEMMA OnceStep == TypeOK /\ OnceInv /\ [Next]_vars => OnceInv'
<1> SUFFICES ASSUME TypeOK, OnceInv, [Next]_vars PROVE OnceInv'
  OBVIOUS
<1>1. ASSUME NEW c \in Connection, NEW l \in Listener, Arrive(c, l) PROVE OnceInv'
  <2>1. /\ \A m \in Listener : \A i \in DOMAIN backlog[m] : backlog[m][i] # c
        /\ \A p \in Process : \A i \in DOMAIN files[p] : files[p][i] # c
    BY <1>1 DEF Arrive, Seen, Elements
  <2>2. backlog' = [backlog EXCEPT ![l] = Append(backlog[l], c)] /\ files' = files
    BY <1>1 DEF Arrive
  <2>3. /\ Append(backlog[l], c) \in Seq(Connection)
        /\ Len(Append(backlog[l], c)) = Len(backlog[l]) + 1
        /\ \A i \in 1 .. Len(backlog[l]) : Append(backlog[l], c)[i] = backlog[l][i]
        /\ Append(backlog[l], c)[Len(backlog[l]) + 1] = c
    BY Backlogs, AppendProperties
  <2>4. DOMAIN Append(backlog[l], c) = 1 .. Len(backlog[l]) + 1
    BY <2>3, LenProperties
  <2>5. \A i \in DOMAIN Append(backlog[l], c) :
          \/ i \in DOMAIN backlog[l] /\ Append(backlog[l], c)[i] = backlog[l][i]
          \/ i = Len(backlog[l]) + 1 /\ Append(backlog[l], c)[i] = c
    BY <2>3, <2>4, Backlogs
  <2>6. \A m \in Listener : \A i \in DOMAIN backlog'[m] :
          \/ i \in DOMAIN backlog[m] /\ backlog'[m][i] = backlog[m][i]
          \/ m = l /\ i = Len(backlog[l]) + 1 /\ backlog'[m][i] = c
    BY <2>2, <2>5 DEF TypeOK
  <2>7. \A k, m \in Listener : \A i \in DOMAIN backlog'[k], j \in DOMAIN backlog'[m] :
          backlog'[k][i] = backlog'[m][j] => k = m /\ i = j
    BY <2>1, <2>6 DEF OnceInv
  <2>8. \A m \in Listener, q \in Process :
          \A i \in DOMAIN backlog'[m], j \in DOMAIN files[q] :
            backlog'[m][i] # files[q][j]
    BY <2>1, <2>6 DEF OnceInv
  <2> QED
    BY <2>2, <2>7, <2>8 DEF OnceInv
<1>2. ASSUME NEW p \in Process, NEW l \in Listener, AcceptLeaks(p, l) PROVE OnceInv'
  BY <1>2, OnceTake DEF AcceptLeaks
<1>3. ASSUME NEW p \in Process, NEW l \in Listener, Accept(p, l) PROVE OnceInv'
  BY <1>3, OnceTake DEF Accept
<1>4. CASE backlog' = backlog /\ files' = files
  BY <1>4 DEF OnceInv
<1> QED
  BY <1>1, <1>2, <1>3, <1>4, FilesStep

-----------------------------------------------------------------------------
\* What the steps do to the list of clients.

\* The connection of a client.
Peer(p, i) == files[p][sock_list[p][i].fd - FirstFd + 1]

\* A closed client leaves the list, the others stay.
LEMMA CleanFacts ==
  ASSUME TypeOK, NEW p \in Process, Clean(p), Closed(sock_list[p]) # {}
  PROVE  /\ \A q \in Process : q # p => sock_list'[q] = sock_list[q]
         /\ \E f \in DOMAIN sock_list[p] :
              /\ sock_list[p][f].state = "closed"
              /\ \A k \in DOMAIN sock_list'[p] :
                   \E j \in DOMAIN sock_list[p] :
                     /\ sock_list'[p][k] = sock_list[p][j]
                     /\ j # f /\ k = IF j < f THEN j ELSE j - 1
              /\ \A j \in DOMAIN sock_list[p] : j # f =>
                   \E k \in DOMAIN sock_list'[p] : sock_list'[p][k] = sock_list[p][j]
<1> DEFINE s == sock_list[p]
<1>1. sock_list' = [sock_list EXCEPT ![p] = Delete(s)]
  BY DEF Clean
<1>2. /\ sock_list'[p] = Delete(s)
      /\ \A q \in Process : q # p => sock_list'[q] = sock_list[q]
  BY <1>1 DEF TypeOK
<1>3. s \in Seq(Entry) /\ Len(s) \in Nat /\ DOMAIN s = 1 .. Len(s)
  BY Lists
<1>4. PICK f \in Closed(s) :
        /\ Delete(s) \in Seq(Entry) /\ Len(Delete(s)) = Len(s) - 1
        /\ \A k \in DOMAIN Delete(s) : Delete(s)[k] = s[IF k < f THEN k ELSE k + 1]
  BY <1>3, Deletes
<1>5. f \in 1 .. Len(s) /\ s[f].state = "closed"
  BY <1>3 DEF Closed
<1> HIDE DEF s
<1>6. DOMAIN Delete(s) = 1 .. Len(s) - 1
  BY <1>4, LenProperties
<1>7. ASSUME NEW k \in 1 .. Len(s) - 1
      PROVE  \E j \in 1 .. Len(s) : /\ Delete(s)[k] = s[j] /\ j # f
                                   /\ k = IF j < f THEN j ELSE j - 1
  <2>1. CASE k < f
    <3>1. k \in 1 .. Len(s) /\ k # f
      BY <1>3, <1>5, <2>1
    <3>2. Delete(s)[k] = s[k]
      BY <1>4, <1>6, <2>1
    <3> QED
      BY <2>1, <3>1, <3>2
  <2>2. CASE ~ (k < f)
    <3>1. /\ k + 1 \in 1 .. Len(s) /\ k + 1 # f /\ ~ (k + 1 < f)
          /\ (k + 1) - 1 = k
      BY <1>3, <1>5, <2>2
    <3>2. Delete(s)[k] = s[k + 1]
      BY <1>4, <1>6, <2>2
    <3> QED
      BY <3>1, <3>2
  <2> QED
    BY <2>1, <2>2
<1>8. ASSUME NEW j \in 1 .. Len(s), j # f
      PROVE  \E k \in 1 .. Len(s) - 1 : Delete(s)[k] = s[j]
  <2>1. CASE j < f
    <3>1. j \in 1 .. Len(s) - 1
      BY <1>3, <1>5, <2>1
    <3>2. Delete(s)[j] = s[j]
      BY <1>4, <1>6, <2>1, <3>1
    <3> QED
      BY <3>1, <3>2
  <2>2. CASE ~ (j < f)
    <3>1. j - 1 \in 1 .. Len(s) - 1 /\ ~ (j - 1 < f) /\ (j - 1) + 1 = j
      BY <1>3, <1>5, <1>8, <2>2
    <3>2. Delete(s)[j - 1] = s[(j - 1) + 1]
      BY <1>4, <1>6, <3>1
    <3> QED
      BY <3>1, <3>2
  <2> QED
    BY <2>1, <2>2
<1>9. f \in DOMAIN s
  BY <1>3, <1>5
<1>10. \A k \in DOMAIN Delete(s) : \E j \in DOMAIN s :
         /\ Delete(s)[k] = s[j] /\ j # f /\ k = IF j < f THEN j ELSE j - 1
  BY <1>3, <1>6, <1>7
<1>11. \A j \in DOMAIN s : j # f => \E k \in DOMAIN Delete(s) : Delete(s)[k] = s[j]
  BY <1>3, <1>6, <1>8
<1> QED
  BY <1>2, <1>5, <1>9, <1>10, <1>11 DEF s

\* Timeout and the handlers close some clients, and that is all.
LEMMA CloseFacts ==
  ASSUME TypeOK, NEW p \in Process, Timeout(p) \/ Serve(p)
  PROVE  /\ \A q \in Process : q # p => sock_list'[q] = sock_list[q]
         /\ \E closing \in SUBSET DOMAIN sock_list[p] :
              /\ DOMAIN sock_list'[p] = DOMAIN sock_list[p]
              /\ \A i \in DOMAIN sock_list[p] :
                   /\ sock_list'[p][i].fd = sock_list[p][i].fd
                   /\ sock_list'[p][i].state =
                        IF i \in closing THEN "closed" ELSE sock_list[p][i].state
         /\ pc' = [pc EXCEPT ![p] = "cleaning"]
         /\ backlog' = backlog /\ files' = files /\ pc[p] # "ended"
<1>0. \A i \in DOMAIN sock_list[p] : sock_list[p][i] \in Entry
  BY Lists
<1>1. CASE Timeout(p)
  <2>1. sock_list' = [sock_list EXCEPT ![p] =
                       [i \in DOMAIN @ |-> [@[i] EXCEPT !.state = "closed"]]]
    BY <1>1 DEF Timeout
  <2>2. /\ \A q \in Process : q # p => sock_list'[q] = sock_list[q]
        /\ sock_list'[p] = [i \in DOMAIN sock_list[p] |->
                             [sock_list[p][i] EXCEPT !.state = "closed"]]
    BY <2>1 DEF TypeOK
  <2>3. /\ DOMAIN sock_list'[p] = DOMAIN sock_list[p]
        /\ \A i \in DOMAIN sock_list[p] :
             /\ sock_list'[p][i].fd = sock_list[p][i].fd
             /\ sock_list'[p][i].state = "closed"
    BY <1>0, <2>2 DEF Entry
  <2>4. /\ pc' = [pc EXCEPT ![p] = "cleaning"] /\ backlog' = backlog
        /\ files' = files /\ pc[p] # "ended"
    BY <1>1 DEF Timeout
  <2> QED
    BY <2>2, <2>3, <2>4
<1>2. CASE Serve(p)
  <2>1. PICK closing \in SUBSET ready[p] :
          sock_list' = [sock_list EXCEPT ![p] =
                         [i \in DOMAIN @ |-> IF @[i].fd \in closing
                                             THEN [@[i] EXCEPT !.state = "closed"]
                                             ELSE @[i]]]
    BY <1>2 DEF Serve
  <2>2. /\ \A q \in Process : q # p => sock_list'[q] = sock_list[q]
        /\ sock_list'[p] = [i \in DOMAIN sock_list[p] |->
                             IF sock_list[p][i].fd \in closing
                             THEN [sock_list[p][i] EXCEPT !.state = "closed"]
                             ELSE sock_list[p][i]]
    BY <2>1 DEF TypeOK
  <2> DEFINE them == {i \in DOMAIN sock_list[p] : sock_list[p][i].fd \in closing}
  <2>3. /\ DOMAIN sock_list'[p] = DOMAIN sock_list[p]
        /\ \A i \in DOMAIN sock_list[p] :
             /\ sock_list'[p][i].fd = sock_list[p][i].fd
             /\ sock_list'[p][i].state =
                  IF i \in them THEN "closed" ELSE sock_list[p][i].state
    BY <1>0, <2>2 DEF Entry
  <2>4. /\ pc' = [pc EXCEPT ![p] = "cleaning"] /\ backlog' = backlog
        /\ files' = files /\ pc[p] # "ended"
    BY <1>2 DEF Serve
  <2>5. them \in SUBSET DOMAIN sock_list[p]
    OBVIOUS
  <2> HIDE DEF them
  <2> QED
    BY <2>2, <2>3, <2>4, <2>5
<1> QED
  BY <1>1, <1>2

\* An accepted connection is the first client, with the next descriptor.
LEMMA AcceptFacts ==
  ASSUME TypeOK, FilesFit, NEW p \in Process, NEW l \in Listener, Accept(p, l)
  PROVE  /\ \A q \in Process : q # p => sock_list'[q] = sock_list[q]
         /\ 1 \in DOMAIN sock_list'[p]
         /\ sock_list'[p][1] = [fd |-> NextFd(p), state |-> "open"]
         /\ \A k \in DOMAIN sock_list'[p] : k # 1 =>
              k - 1 \in DOMAIN sock_list[p] /\ sock_list'[p][k] = sock_list[p][k - 1]
         /\ \A k \in DOMAIN sock_list[p] :
              k + 1 \in DOMAIN sock_list'[p] /\ sock_list'[p][k + 1] = sock_list[p][k]
         /\ DOMAIN sock_list'[p] \subseteq Nat
<1> DEFINE s == sock_list[p]
<1>1. sock_list' = [sock_list EXCEPT ![p] = Admit(s, NextFd(p))]
  BY DEF Accept
<1>2. /\ sock_list'[p] = Admit(s, NextFd(p))
      /\ \A q \in Process : q # p => sock_list'[q] = sock_list[q]
  BY <1>1 DEF TypeOK
<1>3. s \in Seq(Entry) /\ Len(s) \in Nat /\ DOMAIN s = 1 .. Len(s)
  BY Lists
<1>4. NextFd(p) \in Fd
  BY TakeType DEF Accept
<1> HIDE DEF s
<1> DEFINE t == Admit(s, NextFd(p))
<1>5. /\ DOMAIN t = 1 .. Len(s) + 1
      /\ t[1] = [fd |-> NextFd(p), state |-> "open"]
      /\ \A k \in 1 .. Len(s) : t[k + 1] = s[k]
      /\ \A k \in 2 .. Len(s) + 1 : k - 1 \in 1 .. Len(s) /\ t[k] = s[k - 1]
  BY <1>3, <1>4, Admits
<1> HIDE DEF t
<1>6. /\ 1 \in 1 .. Len(s) + 1
      /\ \A k \in 1 .. Len(s) : k + 1 \in 1 .. Len(s) + 1
      /\ \A k \in 1 .. Len(s) + 1 : k # 1 => k \in 2 .. Len(s) + 1
  BY <1>3
<1>7. sock_list'[p] = t
  BY <1>2 DEF t
<1>8. DOMAIN t \subseteq Nat
  BY <1>3, <1>5
<1> QED
  BY <1>2, <1>3, <1>5, <1>6, <1>7, <1>8 DEF s

-----------------------------------------------------------------------------
\* The invariant of the lists.

\* The number of files of a process does not shrink.
LEMMA FilesGrow ==
  ASSUME TypeOK, [Next]_vars, NEW p \in Process
  PROVE  Len(files'[p]) \in Nat /\ Len(files[p]) <= Len(files'[p])
<1>1. ASSUME NEW q \in Process, NEW l \in Listener, Take(q, l)
      PROVE  Len(files'[p]) \in Nat /\ Len(files[p]) <= Len(files'[p])
  <2>1. CASE q = p
    BY <1>1, <2>1, Takes, Lists
  <2>2. CASE q # p
    <3>1. files'[p] = files[p]
      BY <1>1, <2>2, Takes
    <3> QED
      BY <3>1, Lists
  <2> QED
    BY <2>1, <2>2
<1>2. CASE files' = files
  BY <1>2, Lists
<1> QED
  BY <1>1, <1>2, FilesStep DEF AcceptLeaks, Accept, Arrive

\* The descriptors of a list that does not change stay below the next one.
LEMMA ListKept ==
  ASSUME TypeOK, ListInv, [Next]_vars, NEW p \in Process,
         sock_list'[p] = sock_list[p],
         pc'[p] = "selecting" => pc[p] = "selecting" \/ Closed(sock_list[p]) = {}
  PROVE  /\ \A i, j \in DOMAIN sock_list'[p] :
              sock_list'[p][i].fd = sock_list'[p][j].fd => i = j
         /\ \A i \in DOMAIN sock_list'[p] : sock_list'[p][i].fd < FirstFd + Len(files'[p])
         /\ pc'[p] = "selecting" => Closed(sock_list'[p]) = {}
<1>1. ASSUME NEW i \in DOMAIN sock_list[p]
      PROVE  sock_list[p][i].fd < FirstFd + Len(files'[p])
  <2>1. sock_list[p][i].fd \in Int /\ FirstFd \in Int
    BY Lists, LoopAssumption DEF Entry, Fd
  <2>2. sock_list[p][i].fd < FirstFd + Len(files[p])
    BY DEF ListInv, NextFd
  <2>3. Len(files[p]) \in Nat /\ Len(files'[p]) \in Nat /\ Len(files[p]) <= Len(files'[p])
    BY FilesGrow, Lists
  <2> QED
    BY <2>1, <2>2, <2>3
<1>2. /\ \A i, j \in DOMAIN sock_list[p] :
           sock_list[p][i].fd = sock_list[p][j].fd => i = j
      /\ pc'[p] = "selecting" => Closed(sock_list[p]) = {}
  BY DEF ListInv
<1> QED
  BY <1>1, <1>2

LEMMA ListInvStep == TypeOK /\ FilesFit /\ ListInv /\ [Next]_vars => ListInv'
<1> SUFFICES ASSUME TypeOK, FilesFit, ListInv, [Next]_vars, NEW p \in Process
             PROVE  /\ \A i, j \in DOMAIN sock_list'[p] :
                         sock_list'[p][i].fd = sock_list'[p][j].fd => i = j
                    /\ \A i \in DOMAIN sock_list'[p] :
                         sock_list'[p][i].fd < FirstFd + Len(files'[p])
                    /\ pc'[p] = "selecting" => Closed(sock_list'[p]) = {}
  BY DEF ListInv, NextFd
<1> DEFINE Goal == /\ \A i, j \in DOMAIN sock_list'[p] :
                         sock_list'[p][i].fd = sock_list'[p][j].fd => i = j
                   /\ \A i \in DOMAIN sock_list'[p] :
                         sock_list'[p][i].fd < FirstFd + Len(files'[p])
                   /\ pc'[p] = "selecting" => Closed(sock_list'[p]) = {}
<1>0. /\ \A i, j \in DOMAIN sock_list[p] :
           sock_list[p][i].fd = sock_list[p][j].fd => i = j
      /\ \A i \in DOMAIN sock_list[p] : sock_list[p][i].fd < FirstFd + Len(files[p])
  BY DEF ListInv, NextFd
<1>1. CASE /\ sock_list'[p] = sock_list[p]
           /\ pc'[p] = "selecting" => pc[p] = "selecting" \/ Closed(sock_list[p]) = {}
  BY <1>1, ListKept
<1>2. ASSUME Clean(p), Closed(sock_list[p]) # {} PROVE Goal
  <2>1. PICK f \in DOMAIN sock_list[p] :
          \A k \in DOMAIN sock_list'[p] :
            \E j \in DOMAIN sock_list[p] :
              /\ sock_list'[p][k] = sock_list[p][j]
              /\ j # f /\ k = IF j < f THEN j ELSE j - 1
    BY <1>2, CleanFacts
  <2>2. pc'[p] = "cleaning" /\ files' = files
    BY <1>2 DEF Clean
  <2>3. \A k, m \in DOMAIN sock_list'[p] :
          sock_list'[p][k].fd = sock_list'[p][m].fd => k = m
    BY <1>0, <2>1
  <2>4. \A k \in DOMAIN sock_list'[p] : sock_list'[p][k].fd < FirstFd + Len(files'[p])
    BY <1>0, <2>1, <2>2
  <2> QED
    BY <2>2, <2>3, <2>4
<1>3. ASSUME Timeout(p) \/ Serve(p) PROVE Goal
  <2>1. /\ DOMAIN sock_list'[p] = DOMAIN sock_list[p]
        /\ \A i \in DOMAIN sock_list[p] : sock_list'[p][i].fd = sock_list[p][i].fd
    BY <1>3, CloseFacts
  <2>2. pc'[p] = "cleaning" /\ files' = files
    BY <1>3, CloseFacts DEF TypeOK
  <2> QED
    BY <1>0, <2>1, <2>2
<1>4. ASSUME NEW l \in Listener, Accept(p, l) PROVE Goal
  <2>1. /\ sock_list'[p][1] = [fd |-> NextFd(p), state |-> "open"]
        /\ \A k \in DOMAIN sock_list'[p] : k # 1 =>
             k - 1 \in DOMAIN sock_list[p] /\ sock_list'[p][k] = sock_list[p][k - 1]
        /\ DOMAIN sock_list'[p] \subseteq Nat
    BY <1>4, AcceptFacts
  <2>2. Len(files'[p]) = Len(files[p]) + 1 /\ pc'[p] # "selecting"
    BY <1>4, Takes DEF Accept, Take, AtListener
  <2>3. /\ \A j \in DOMAIN sock_list[p] : sock_list[p][j].fd \in Int
        /\ FirstFd \in Int /\ Len(files[p]) \in Nat
    BY Lists, LoopAssumption DEF Entry, Fd
  <2>4. sock_list'[p][1].fd = FirstFd + Len(files[p])
    BY <2>1 DEF NextFd
  <2>5. ASSUME NEW k \in DOMAIN sock_list'[p], k # 1
        PROVE  sock_list'[p][k].fd < FirstFd + Len(files[p]) /\ sock_list'[p][k].fd \in Int
    BY <1>0, <2>1, <2>3, <2>5
  <2>6. \A k, m \in DOMAIN sock_list'[p] :
          sock_list'[p][k].fd = sock_list'[p][m].fd => k = m
    <3> SUFFICES ASSUME NEW k \in DOMAIN sock_list'[p], NEW m \in DOMAIN sock_list'[p],
                        sock_list'[p][k].fd = sock_list'[p][m].fd
                 PROVE  k = m
      OBVIOUS
    <3>1. CASE k = 1 \/ m = 1
      BY <2>3, <2>4, <2>5, <3>1
    <3>2. CASE k # 1 /\ m # 1
      <4>1. k - 1 = m - 1
        BY <1>0, <2>1, <3>2
      <4> QED
        BY <2>1, <4>1
    <3> QED
      BY <3>1, <3>2
  <2>7. \A k \in DOMAIN sock_list'[p] : sock_list'[p][k].fd < FirstFd + Len(files'[p])
    BY <2>2, <2>3, <2>4, <2>5
  <2> QED
    BY <2>2, <2>6, <2>7
<1>5. ASSUME NEW q \in Process, q # p,
             Clean(q) \/ Timeout(q) \/ Serve(q) \/ Select(q) \/ Stop(q)
               \/ \E l \in Listener : Accept(q, l)
      PROVE  sock_list'[p] = sock_list[p] /\ pc'[p] = pc[p]
  BY <1>5 DEF Clean, Timeout, Serve, Select, Stop, Accept, Take, TypeOK
<1>6. ASSUME NEW q \in Process, NEW l \in Listener, AcceptFails(q, l) \/ AcceptLeaks(q, l)
      PROVE  sock_list'[p] = sock_list[p] /\ pc'[p] = pc[p]
  BY <1>6 DEF AcceptFails, AcceptLeaks, Take
<1>7. ASSUME Select(p) \/ Stop(p)
      PROVE  sock_list'[p] = sock_list[p] /\ pc'[p] # "selecting"
  BY <1>7 DEF Select, Stop, TypeOK
<1>8. ASSUME Clean(p), Closed(sock_list[p]) = {} PROVE sock_list'[p] = sock_list[p]
  BY <1>8 DEF Clean
<1>9. ASSUME \/ \E c \in Connection, l \in Listener : Arrive(c, l)
             \/ \E q \in Process : Tell(q)
             \/ UNCHANGED vars
      PROVE  sock_list'[p] = sock_list[p] /\ pc'[p] = pc[p]
  BY <1>9 DEF Arrive, Tell, vars
<1> HIDE DEF Goal
<1> Goal
  <2>1. CASE \/ \E c \in Connection, l \in Listener : Arrive(c, l)
             \/ \E q \in Process : Tell(q)
             \/ UNCHANGED vars
    BY <1>1, <1>9, <2>1 DEF Goal
  <2>2. ASSUME NEW q \in Process, NEW l \in Listener, AcceptFails(q, l) \/ AcceptLeaks(q, l)
        PROVE  Goal
    BY <1>1, <1>6, <2>2 DEF Goal
  <2>3. ASSUME NEW q \in Process, q # p,
               Clean(q) \/ Timeout(q) \/ Serve(q) \/ Select(q) \/ Stop(q)
                 \/ \E l \in Listener : Accept(q, l)
        PROVE  Goal
    BY <1>1, <1>5, <2>3 DEF Goal
  <2>4. ASSUME Clean(p) \/ Timeout(p) \/ Serve(p) \/ Select(p) \/ Stop(p)
                 \/ \E l \in Listener : Accept(p, l)
        PROVE  Goal
    BY <1>1, <1>2, <1>3, <1>4, <1>7, <1>8, <2>4 DEF Goal
  <2> QED
    BY <2>1, <2>2, <2>3, <2>4, NextSplit, Zenon
<1> QED
  BY DEF Goal

-----------------------------------------------------------------------------
\* The places of Dispatch.

Waiting == {c \in Connection : \E l \in Listener : \E i \in DOMAIN backlog[l] : backlog[l][i] = c}
Taken == {c \in Connection : \E p \in Process : \E i \in DOMAIN files[p] : files[p][i] = c}
OpenOf ==
  [p \in Process |-> {c \in Connection :
     pc[p] # "ended" /\ \E i \in DOMAIN sock_list[p] :
                          sock_list[p][i].state = "open" /\ Peer(p, i) = c}]
ClosedOf ==
  [p \in Process |-> {c \in Connection :
     pc[p] # "ended" /\ \E i \in DOMAIN sock_list[p] :
                          sock_list[p][i].state = "closed" /\ Peer(p, i) = c}]

\* No two of these places share a connection.
Apart ==
  /\ Waiting \cap Taken = {}
  /\ \A p \in Process : OpenOf[p] \subseteq Taken /\ ClosedOf[p] \subseteq Taken
  /\ \A p, q \in Process : OpenOf[p] \cap ClosedOf[q] = {}
  /\ \A p, q \in Process :
       p # q => OpenOf[p] \cap OpenOf[q] = {} /\ ClosedOf[p] \cap ClosedOf[q] = {}

PlaceIs ==
  /\ place = [c \in Connection |-> place[c]]
  /\ \A c \in Waiting : place[c] = "waiting"
  /\ \A p \in Process : \A c \in OpenOf[p] : place[c] = p
  /\ \A p \in Process : \A c \in ClosedOf[p] : place[c] = "closed"
  /\ \A c \in Connection : c \notin Waiting \cup Taken => place[c] = "away"
  /\ \A c \in Taken :
       (\A p \in Process : c \notin OpenOf[p] /\ c \notin ClosedOf[p]) => place[c] = "over"

LoopInv == TypeOK /\ FilesFit /\ OnceInv /\ ListInv

\* The descriptor of a client is that of a file.
LEMMA PeerIsTaken ==
  ASSUME LoopInv, NEW p \in Process, NEW i \in DOMAIN sock_list[p]
  PROVE  sock_list[p][i].fd - FirstFd + 1 \in DOMAIN files[p] /\ Peer(p, i) \in Taken
<1>1. sock_list[p][i].fd \in Fd
  BY Lists DEF Entry, LoopInv
<1>2. sock_list[p][i].fd < FirstFd + Len(files[p])
  BY DEF LoopInv, ListInv, NextFd
<1>3. files[p] \in Seq(Connection) /\ Len(files[p]) \in Nat
      /\ DOMAIN files[p] = 1 .. Len(files[p])
  BY Lists DEF LoopInv
<1>4. sock_list[p][i].fd - FirstFd + 1 \in 1 .. Len(files[p])
  BY <1>1, <1>2, <1>3, LoopAssumption DEF Fd
<1>5. Peer(p, i) \in Connection
  BY <1>3, <1>4, ElementOfSeq DEF Peer
<1> QED
  BY <1>3, <1>4, <1>5 DEF Taken, Peer

LEMMA PeerOnce ==
  ASSUME LoopInv, NEW p \in Process, NEW q \in Process,
         NEW i \in DOMAIN sock_list[p], NEW j \in DOMAIN sock_list[q],
         Peer(p, i) = Peer(q, j)
  PROVE  p = q /\ i = j
<1>1. /\ sock_list[p][i].fd - FirstFd + 1 \in DOMAIN files[p]
      /\ sock_list[q][j].fd - FirstFd + 1 \in DOMAIN files[q]
  BY PeerIsTaken
<1>2. p = q /\ sock_list[p][i].fd - FirstFd + 1 = sock_list[q][j].fd - FirstFd + 1
  BY <1>1 DEF Peer, LoopInv, OnceInv
<1>3. sock_list[p][i].fd \in Fd /\ sock_list[q][j].fd \in Fd
  BY Lists DEF Entry, LoopInv
<1>4. sock_list[p][i].fd = sock_list[q][j].fd
  BY <1>2, <1>3, LoopAssumption DEF Fd
<1> QED
  BY <1>2, <1>4 DEF LoopInv, ListInv

LEMMA PlacesApart == LoopInv => Apart
<1> SUFFICES ASSUME LoopInv PROVE Apart
  OBVIOUS
<1>1. Waiting \cap Taken = {}
  BY DEF Waiting, Taken, LoopInv, OnceInv
<1>2. ASSUME NEW p \in Process PROVE OpenOf[p] \subseteq Taken /\ ClosedOf[p] \subseteq Taken
  BY PeerIsTaken DEF OpenOf, ClosedOf
<1>3. ASSUME NEW p \in Process, NEW q \in Process PROVE OpenOf[p] \cap ClosedOf[q] = {}
  <2> SUFFICES ASSUME NEW c \in OpenOf[p], c \in ClosedOf[q] PROVE FALSE
    OBVIOUS
  <2>1. PICK i \in DOMAIN sock_list[p] : sock_list[p][i].state = "open" /\ Peer(p, i) = c
    BY DEF OpenOf
  <2>2. PICK j \in DOMAIN sock_list[q] : sock_list[q][j].state = "closed" /\ Peer(q, j) = c
    BY DEF ClosedOf
  <2>3. p = q /\ i = j
    BY <2>1, <2>2, PeerOnce
  <2> QED
    BY <2>1, <2>2, <2>3
<1>4. ASSUME NEW p \in Process, NEW q \in Process, p # q
      PROVE  OpenOf[p] \cap OpenOf[q] = {} /\ ClosedOf[p] \cap ClosedOf[q] = {}
  BY <1>4, PeerOnce DEF OpenOf, ClosedOf
<1> QED
  BY <1>1, <1>2, <1>3, <1>4 DEF Apart

\* place, which CASE defines, in terms of these sets.
LEMMA PlacesAre == LoopInv => PlaceIs
<1> SUFFICES ASSUME LoopInv PROVE PlaceIs
  OBVIOUS
<1> DEFINE Waits(c) == \E l \in Listener : c \in Elements(backlog[l])
           Open(p, c) == pc[p] # "ended" /\ c \in Clients(p, "open")
           Shut(p, c) == pc[p] # "ended" /\ c \in Clients(p, "closed")
<1>1. ASSUME NEW c \in Connection
      PROVE  /\ Waits(c) <=> c \in Waiting
             /\ Seen(c) <=> c \in Waiting \cup Taken
             /\ \A p \in Process : Open(p, c) <=> c \in OpenOf[p]
             /\ \A p \in Process : Shut(p, c) <=> c \in ClosedOf[p]
  <2>1. Waits(c) <=> c \in Waiting
    BY DEF Waiting, Elements
  <2>2. Seen(c) <=> c \in Waiting \cup Taken
    BY DEF Seen, Waiting, Taken, Elements
  <2>3. ASSUME NEW p \in Process PROVE Open(p, c) <=> c \in OpenOf[p]
    BY DEF Clients, Elements, OpenOf, Peer
  <2>4. ASSUME NEW p \in Process PROVE Shut(p, c) <=> c \in ClosedOf[p]
    BY DEF Clients, Elements, ClosedOf, Peer
  <2> QED
    BY <2>1, <2>2, <2>3, <2>4
<1>2. \A c \in Connection : place[c] =
        CASE Waits(c) -> "waiting"
          [] \E p \in Process : Open(p, c) -> CHOOSE p \in Process : Open(p, c)
          [] \E p \in Process : Shut(p, c) -> "closed"
          [] ~ Seen(c) -> "away"
          [] OTHER -> "over"
  BY DEF place
<1>3. place = [c \in Connection |-> place[c]]
  BY DEF place
<1> HIDE DEF Waits, Open, Shut
<1>4. Apart
  BY PlacesApart
<1>5. ASSUME NEW c \in Waiting PROVE place[c] = "waiting"
  <2>1. /\ c \in Connection /\ Waits(c) /\ Seen(c)
        /\ \A p \in Process : ~ Open(p, c) /\ ~ Shut(p, c)
    BY <1>1, <1>4 DEF Apart, Waiting
  <2> QED
    BY <1>2, <2>1
<1>6. ASSUME NEW p \in Process, NEW c \in OpenOf[p] PROVE place[c] = p
  <2>1. c \in Connection
    BY <1>4 DEF Apart, Taken
  <2>2. /\ ~ Waits(c) /\ Seen(c) /\ Open(p, c)
        /\ \A q \in Process : ~ Shut(q, c)
        /\ \A q \in Process : Open(q, c) => q = p
    BY <1>1, <1>4, <2>1 DEF Apart
  <2>3. (CHOOSE q \in Process : Open(q, c)) = p
    BY <2>2
  <2> QED
    BY <1>2, <2>1, <2>2, <2>3
<1>7. ASSUME NEW p \in Process, NEW c \in ClosedOf[p] PROVE place[c] = "closed"
  <2>1. c \in Connection
    BY <1>4 DEF Apart, Taken
  <2>2. /\ ~ Waits(c) /\ Seen(c) /\ Shut(p, c)
        /\ \A q \in Process : ~ Open(q, c)
    BY <1>1, <1>4, <2>1 DEF Apart
  <2> QED
    BY <1>2, <2>1, <2>2
<1>8. ASSUME NEW c \in Connection, c \notin Waiting \cup Taken PROVE place[c] = "away"
  <2>1. /\ ~ Waits(c) /\ ~ Seen(c)
        /\ \A q \in Process : ~ Open(q, c) /\ ~ Shut(q, c)
    BY <1>1, <1>4, <1>8 DEF Apart
  <2> QED
    BY <1>2, <2>1
<1>9. ASSUME NEW c \in Taken, \A p \in Process : c \notin OpenOf[p] /\ c \notin ClosedOf[p]
      PROVE  place[c] = "over"
  <2>1. c \in Connection
    BY DEF Taken
  <2>2. /\ ~ Waits(c) /\ Seen(c)
        /\ \A q \in Process : ~ Open(q, c) /\ ~ Shut(q, c)
    BY <1>1, <1>4, <1>9, <2>1 DEF Apart
  <2> QED
    BY <1>2, <2>1, <2>2
<1> QED
  BY <1>3, <1>5, <1>6, <1>7, <1>8, <1>9 DEF PlaceIs

-----------------------------------------------------------------------------
\* Every step is a step of Dispatch.

\* A connection that stays where it is.
LEMMA Stays ==
  ASSUME Apart, PlaceIs, Apart', PlaceIs', NEW c \in Connection,
         c \in Waiting' <=> c \in Waiting,
         c \in Taken' <=> c \in Taken,
         \A p \in Process : (c \in OpenOf'[p] <=> c \in OpenOf[p])
                           /\ (c \in ClosedOf'[p] <=> c \in ClosedOf[p])
  PROVE  place'[c] = place[c]
<1>1. CASE c \in Waiting
  BY <1>1 DEF PlaceIs
<1>2. CASE \E p \in Process : c \in OpenOf[p]
  BY <1>2 DEF PlaceIs
<1>3. CASE \E p \in Process : c \in ClosedOf[p]
  BY <1>3 DEF PlaceIs
<1>4. CASE c \notin Waiting \cup Taken
  BY <1>4 DEF PlaceIs
<1>5. CASE c \in Taken /\ \A p \in Process : c \notin OpenOf[p] /\ c \notin ClosedOf[p]
  BY <1>5 DEF PlaceIs
<1> QED
  BY <1>1, <1>2, <1>3, <1>4, <1>5

\* The clients of a process whose list and files stay.
LEMMA ClientsStay ==
  ASSUME NEW p \in Process, sock_list'[p] = sock_list[p],
         \A i \in DOMAIN sock_list[p] : Peer(p, i)' = Peer(p, i),
         pc'[p] = "ended" <=> pc[p] = "ended"
  PROVE  OpenOf'[p] = OpenOf[p] /\ ClosedOf'[p] = ClosedOf[p]
BY DEF OpenOf, ClosedOf

LEMMA FilesStay ==
  ASSUME backlog' = backlog, files' = files
  PROVE  Waiting' = Waiting /\ Taken' = Taken
BY DEF Waiting, Taken

LEMMA ArriveMaps ==
  ASSUME LoopInv, Apart, PlaceIs, Apart', PlaceIs',
         NEW c \in Connection, NEW l \in Listener, Arrive(c, l)
  PROVE  Promise!Next
<1>1. backlog' = [backlog EXCEPT ![l] = Append(backlog[l], c)]
  BY DEF Arrive
<1>2. files' = files /\ sock_list' = sock_list /\ pc' = pc
  BY DEF Arrive
<1>3. c \notin Waiting \cup Taken
  BY DEF Arrive, Seen, Elements, Waiting, Taken
<1>4. /\ backlog'[l] = Append(backlog[l], c)
      /\ \A m \in Listener : m # l => backlog'[m] = backlog[m]
  BY <1>1 DEF LoopInv, TypeOK
<1>5. /\ DOMAIN backlog'[l] = 1 .. Len(backlog[l]) + 1
      /\ backlog'[l][Len(backlog[l]) + 1] = c
      /\ \A i \in 1 .. Len(backlog[l]) : backlog'[l][i] = backlog[l][i]
      /\ DOMAIN backlog[l] = 1 .. Len(backlog[l]) /\ Len(backlog[l]) \in Nat
  BY <1>4, Backlogs, AppendProperties, LenProperties DEF LoopInv
<1>6. /\ \A i \in DOMAIN backlog[l] : i \in DOMAIN backlog'[l]
      /\ \A i \in DOMAIN backlog'[l] : i \in DOMAIN backlog[l] \/ i = Len(backlog[l]) + 1
      /\ Len(backlog[l]) + 1 \in DOMAIN backlog'[l]
  BY <1>5
<1>7. \A d \in Connection : d \in Waiting' <=> d \in Waiting \/ d = c
  <2> SUFFICES ASSUME NEW d \in Connection PROVE d \in Waiting' <=> d \in Waiting \/ d = c
    OBVIOUS
  <2>1. ASSUME d \in Waiting' PROVE d \in Waiting \/ d = c
    <3>1. PICK m \in Listener : \E i \in DOMAIN backlog'[m] : backlog'[m][i] = d
      BY <2>1 DEF Waiting
    <3>2. CASE m = l
      BY <1>5, <1>6, <3>1, <3>2 DEF Waiting
    <3>3. CASE m # l
      BY <1>4, <3>1, <3>3 DEF Waiting
    <3> QED
      BY <3>2, <3>3
  <2>2. ASSUME d \in Waiting PROVE d \in Waiting'
    <3>1. PICK m \in Listener : \E i \in DOMAIN backlog[m] : backlog[m][i] = d
      BY <2>2 DEF Waiting
    <3>2. CASE m = l
      BY <1>5, <1>6, <3>1, <3>2 DEF Waiting
    <3>3. CASE m # l
      BY <1>4, <3>1, <3>3 DEF Waiting
    <3> QED
      BY <3>2, <3>3
  <2>3. c \in Waiting'
    BY <1>5, <1>6 DEF Waiting
  <2> QED
    BY <2>1, <2>2, <2>3
<1>8. Taken' = Taken /\ OpenOf' = OpenOf /\ ClosedOf' = ClosedOf
  BY <1>2 DEF Taken, OpenOf, ClosedOf, Peer
<1>9. ASSUME NEW d \in Connection, d # c PROVE place'[d] = place[d]
  BY <1>7, <1>8, <1>9, Stays
<1>10. place[c] = "away" /\ place'[c] = "waiting"
  BY <1>3, <1>7 DEF PlaceIs
<1>11. place' = [place EXCEPT ![c] = "waiting"]
  BY <1>9, <1>10 DEF PlaceIs
<1> QED
  BY <1>10, <1>11 DEF Promise!Next, Promise!Arrive

\* A removed client is forgotten.
LEMMA CleanMaps ==
  ASSUME LoopInv, Apart, PlaceIs, Apart', PlaceIs', NEW p \in Process,
         Clean(p), Closed(sock_list[p]) # {}
  PROVE  Promise!Next
<1>1. backlog' = backlog /\ files' = files /\ pc' = pc /\ pc[p] # "ended"
  BY DEF Clean
<1>2. \A q \in Process : q # p => sock_list'[q] = sock_list[q]
  BY CleanFacts DEF LoopInv
<1>3. PICK f \in DOMAIN sock_list[p] :
        /\ sock_list[p][f].state = "closed"
        /\ \A k \in DOMAIN sock_list'[p] :
             \E j \in DOMAIN sock_list[p] :
               /\ sock_list'[p][k] = sock_list[p][j]
               /\ j # f /\ k = IF j < f THEN j ELSE j - 1
        /\ \A j \in DOMAIN sock_list[p] : j # f =>
             \E k \in DOMAIN sock_list'[p] : sock_list'[p][k] = sock_list[p][j]
  BY CleanFacts DEF LoopInv
<1> DEFINE c == Peer(p, f)
<1>4. Waiting' = Waiting /\ Taken' = Taken
  BY <1>1, FilesStay
<1>5. c \in Taken /\ c \in ClosedOf[p] /\ c \in Connection
  BY <1>1, <1>3, PeerIsTaken DEF ClosedOf, Taken
<1>6. \A j \in DOMAIN sock_list[p] : Peer(p, j) = c => j = f
  BY PeerOnce
<1>7. \A q \in Process : q # p => OpenOf'[q] = OpenOf[q] /\ ClosedOf'[q] = ClosedOf[q]
  BY <1>1, <1>2, ClientsStay DEF Peer
<1>8. \A k \in DOMAIN sock_list'[p] :
        \E j \in DOMAIN sock_list[p] :
          /\ sock_list'[p][k].state = sock_list[p][j].state
          /\ Peer(p, k)' = Peer(p, j) /\ j # f
  BY <1>1, <1>3 DEF Peer
<1>9. \A j \in DOMAIN sock_list[p] : j # f =>
        \E k \in DOMAIN sock_list'[p] :
          sock_list'[p][k].state = sock_list[p][j].state /\ Peer(p, k)' = Peer(p, j)
  BY <1>1, <1>3 DEF Peer
<1> HIDE DEF c
<1>10. ASSUME NEW d \in Connection, d # c
       PROVE  /\ d \in OpenOf'[p] <=> d \in OpenOf[p]
              /\ d \in ClosedOf'[p] <=> d \in ClosedOf[p]
  <2>1. \A j \in DOMAIN sock_list[p] : Peer(p, j) = d => j # f
    BY <1>10 DEF c
  <2> QED
    BY <1>1, <1>8, <1>9, <2>1 DEF OpenOf, ClosedOf
<1>11. c \notin ClosedOf'[p] /\ c \notin OpenOf'[p]
  BY <1>6, <1>8 DEF OpenOf, ClosedOf
<1>12. \A q \in Process : c \notin ClosedOf'[q] /\ c \notin OpenOf'[q]
  BY <1>5, <1>7, <1>11 DEF Apart
<1>13. place[c] = "closed" /\ place'[c] = "over"
  BY <1>4, <1>5, <1>12 DEF PlaceIs
<1>14. ASSUME NEW d \in Connection, d # c PROVE place'[d] = place[d]
  BY <1>4, <1>7, <1>10, <1>14, Stays
<1>15. place' = [place EXCEPT ![c] = "over"]
  BY <1>13, <1>14 DEF PlaceIs
<1> QED
  BY <1>5, <1>13, <1>15 DEF Promise!Next, Promise!Forget

\* A turn of the handlers, or the timeout, closes sessions of one process.
LEMMA CloseMaps ==
  ASSUME LoopInv, Apart, PlaceIs, Apart', PlaceIs', NEW p \in Process,
         Timeout(p) \/ Serve(p)
  PROVE  Promise!Next
<1>1. /\ backlog' = backlog /\ files' = files /\ pc[p] # "ended" /\ pc'[p] # "ended"
      /\ \A q \in Process : q # p => sock_list'[q] = sock_list[q] /\ pc'[q] = pc[q]
  BY CloseFacts DEF LoopInv, TypeOK
<1>2. PICK closing \in SUBSET DOMAIN sock_list[p] :
        /\ DOMAIN sock_list'[p] = DOMAIN sock_list[p]
        /\ \A i \in DOMAIN sock_list[p] :
             /\ sock_list'[p][i].fd = sock_list[p][i].fd
             /\ sock_list'[p][i].state =
                  IF i \in closing THEN "closed" ELSE sock_list[p][i].state
  BY CloseFacts DEF LoopInv
<1>3. Waiting' = Waiting /\ Taken' = Taken
  BY <1>1, FilesStay
<1>4. \A q \in Process : q # p => OpenOf'[q] = OpenOf[q] /\ ClosedOf'[q] = ClosedOf[q]
  BY <1>1, ClientsStay DEF Peer
<1>5. \A i \in DOMAIN sock_list[p] : Peer(p, i)' = Peer(p, i)
  BY <1>1, <1>2 DEF Peer
<1> DEFINE them == {c \in OpenOf[p] : c \in ClosedOf'[p]}
<1>6. them \subseteq Promise!Served(p)
  BY DEF PlaceIs, Promise!Served, OpenOf
<1>7. ASSUME NEW c \in them PROVE place'[c] = "closed"
  BY DEF PlaceIs
<1>8. ASSUME NEW c \in Connection, c \notin them PROVE place'[c] = place[c]
  <2>1. \A i, j \in DOMAIN sock_list[p] : Peer(p, i) = Peer(p, j) => i = j
    BY PeerOnce
  <2>2. ASSUME c \in OpenOf'[p] PROVE c \in OpenOf[p]
    BY <1>1, <1>2, <1>5, <2>2 DEF OpenOf
  <2>3. ASSUME c \in ClosedOf[p] PROVE c \in ClosedOf'[p]
    <3>1. PICK i \in DOMAIN sock_list[p] :
            sock_list[p][i].state = "closed" /\ Peer(p, i) = c
      BY <2>3 DEF ClosedOf
    <3>2. sock_list'[p][i].state = "closed" /\ Peer(p, i)' = c /\ i \in DOMAIN sock_list'[p]
      BY <1>2, <1>5, <3>1
    <3> QED
      BY <1>1, <3>2 DEF ClosedOf
  <2>4. ASSUME c \in OpenOf[p] PROVE c \in OpenOf'[p]
    <3>1. PICK i \in DOMAIN sock_list[p] :
            sock_list[p][i].state = "open" /\ Peer(p, i) = c
      BY <2>4 DEF OpenOf
    <3>2. Peer(p, i)' = c /\ i \in DOMAIN sock_list'[p]
      BY <1>2, <1>5, <3>1
    <3>3. CASE sock_list'[p][i].state = "closed"
      <4>1. c \in ClosedOf'[p]
        BY <1>1, <3>2, <3>3 DEF ClosedOf
      <4> QED
        BY <1>8, <2>4, <4>1
    <3>4. CASE sock_list'[p][i].state = "open"
      BY <1>1, <3>2, <3>4 DEF OpenOf
    <3> QED
      BY <1>2, <3>1, <3>3, <3>4
  <2>5. ASSUME c \in ClosedOf'[p] PROVE c \in ClosedOf[p]
    <3>1. PICK i \in DOMAIN sock_list'[p] :
            sock_list'[p][i].state = "closed" /\ Peer(p, i)' = c
      BY <2>5 DEF ClosedOf
    <3>2. i \in DOMAIN sock_list[p] /\ Peer(p, i) = c
      BY <1>2, <1>5, <3>1
    <3>3. sock_list[p][i].state \in {"open", "closed"}
      BY <3>2, Lists DEF Entry, LoopInv
    <3>4. CASE sock_list[p][i].state = "open"
      <4>1. c \in OpenOf[p]
        BY <1>1, <3>2, <3>4 DEF OpenOf
      <4> QED
        BY <1>8, <2>5, <4>1
    <3>5. CASE sock_list[p][i].state = "closed"
      BY <1>1, <3>2, <3>5 DEF ClosedOf
    <3> QED
      BY <3>3, <3>4, <3>5
  <2> QED
    BY <1>3, <1>4, <2>2, <2>3, <2>4, <2>5, Stays
<1> HIDE DEF them
<1>9. place' = [c \in Connection |-> IF c \in them THEN "closed" ELSE place[c]]
  BY <1>7, <1>8 DEF PlaceIs
<1>10. them \in SUBSET Promise!Served(p)
  BY <1>6
<1> QED
  BY <1>9, <1>10 DEF Promise!Next, Promise!Close

\* A process that stops has no closed client left in its list.
LEMMA StopMaps ==
  ASSUME LoopInv, Apart, PlaceIs, Apart', PlaceIs', NEW p \in Process, Stop(p)
  PROVE  Promise!Next
<1>1. /\ backlog' = backlog /\ files' = files /\ sock_list' = sock_list
      /\ pc[p] = "selecting" /\ pc'[p] = "ended"
      /\ \A q \in Process : q # p => pc'[q] = pc[q]
  BY DEF Stop, LoopInv, TypeOK
<1>2. Waiting' = Waiting /\ Taken' = Taken
  BY <1>1, FilesStay
<1>3. \A q \in Process : q # p => OpenOf'[q] = OpenOf[q] /\ ClosedOf'[q] = ClosedOf[q]
  BY <1>1, ClientsStay DEF Peer
<1>4. OpenOf'[p] = {} /\ ClosedOf'[p] = {}
  BY <1>1 DEF OpenOf, ClosedOf
<1>5. ClosedOf[p] = {}
  BY <1>1 DEF ClosedOf, LoopInv, ListInv, Closed
<1>6. ASSUME NEW c \in OpenOf[p] PROVE c \in Connection /\ place[c] = p /\ place'[c] = "over"
  <2>1. c \in Connection /\ c \in Taken'
    BY <1>2 DEF Apart, Taken
  <2>2. \A q \in Process : c \notin OpenOf'[q] /\ c \notin ClosedOf'[q]
    BY <1>3, <1>4 DEF Apart
  <2> QED
    BY <2>1, <2>2 DEF PlaceIs
<1>7. ASSUME NEW c \in Connection, c \notin OpenOf[p] PROVE place[c] # p
  <2>1. p \notin {"away", "waiting", "closed", "over"}
    BY LoopAssumption
  <2>2. CASE \E q \in Process : c \in OpenOf[q]
    BY <1>7, <2>2 DEF PlaceIs
  <2>3. CASE \E q \in Process : c \in ClosedOf[q]
    BY <2>1, <2>3 DEF PlaceIs
  <2>4. CASE c \in Waiting \/ c \notin Waiting \cup Taken
    BY <2>1, <2>4 DEF PlaceIs
  <2>5. CASE c \in Taken /\ \A q \in Process : c \notin OpenOf[q] /\ c \notin ClosedOf[q]
    BY <2>1, <2>5 DEF PlaceIs
  <2> QED
    BY <2>2, <2>3, <2>4, <2>5
<1>8. ASSUME NEW c \in Connection, c \notin OpenOf[p] PROVE place'[c] = place[c]
  BY <1>2, <1>3, <1>4, <1>5, <1>8, Stays
<1>9. OpenOf[p] = Promise!Served(p)
  BY <1>6, <1>7 DEF Promise!Served
<1>10. place' = [c \in Connection |-> IF c \in OpenOf[p] THEN "over" ELSE place[c]]
  BY <1>6, <1>8 DEF PlaceIs
<1> QED
  BY <1>9, <1>10 DEF Promise!Next, Promise!EndProcess

\* A connection that is taken leaves the backlog, and nothing else moves.
LEMMA TakeMoves ==
  ASSUME LoopInv, NEW p \in Process, NEW l \in Listener, Take(p, l)
  PROVE  /\ backlog[l][1] \in Waiting
         /\ \A d \in Connection :
              /\ d \in Waiting' <=> d \in Waiting /\ d # backlog[l][1]
              /\ d \in Taken' <=> d \in Taken \/ d = backlog[l][1]
         /\ \A q \in Process : \A i \in DOMAIN sock_list[q] :
              files'[q][sock_list[q][i].fd - FirstFd + 1] = Peer(q, i)
<1> DEFINE c == backlog[l][1]
<1>1. TypeOK /\ OnceInv
  BY DEF LoopInv
<1>2. c \in Waiting
  BY <1>1, Takes DEF Waiting
<1>3. ASSUME NEW d \in Connection
      PROVE  d \in Waiting' <=> d \in Waiting /\ d # c
  <2>1. ASSUME d \in Waiting' PROVE d \in Waiting /\ d # c
    <3>1. PICK m \in Listener : \E i \in DOMAIN backlog'[m] : backlog'[m][i] = d
      BY <2>1 DEF Waiting
    <3>2. PICK i \in DOMAIN backlog'[m] : backlog'[m][i] = d
      BY <3>1
    <3>3. CASE m = l
      <4>1. i + 1 \in DOMAIN backlog[l] /\ backlog[l][i + 1] = d
        BY <1>1, <3>2, <3>3, Takes
      <4>2. i + 1 # 1
        <5>1. Tail(backlog[l]) \in Seq(Connection)
          BY <1>1, Backlogs DEF Take
        <5>2. DOMAIN backlog'[l] = 1 .. Len(Tail(backlog[l])) /\ Len(Tail(backlog[l])) \in Nat
          BY <1>1, <5>1, LenProperties DEF Take, TypeOK
        <5> QED
          BY <3>3, <5>2
      <4> QED
        BY <1>1, <4>1, <4>2, Takes DEF Waiting, OnceInv
    <3>4. CASE m # l
      <4>1. i \in DOMAIN backlog[m] /\ backlog[m][i] = d
        BY <1>1, <3>2, <3>4, Takes
      <4> QED
        BY <1>1, <3>4, <4>1, Takes DEF Waiting, OnceInv
    <3> QED
      BY <3>3, <3>4
  <2>2. ASSUME d \in Waiting, d # c PROVE d \in Waiting'
    <3>1. PICK m \in Listener : \E i \in DOMAIN backlog[m] : backlog[m][i] = d
      BY <2>2 DEF Waiting
    <3>2. PICK i \in DOMAIN backlog[m] : backlog[m][i] = d
      BY <3>1
    <3>3. CASE m = l
      <4>1. i # 1
        BY <2>2, <3>2, <3>3
      <4>2. i - 1 \in DOMAIN backlog'[l] /\ backlog'[l][i - 1] = d
        BY <1>1, <3>2, <3>3, <4>1, Takes
      <4> QED
        BY <4>2 DEF Waiting
    <3>4. CASE m # l
      <4>1. backlog'[m] = backlog[m]
        BY <1>1, <3>4, Takes
      <4> QED
        BY <3>2, <4>1 DEF Waiting
    <3> QED
      BY <3>3, <3>4
  <2> QED
    BY <2>1, <2>2
<1>4. /\ DOMAIN files[p] = 1 .. Len(files[p]) /\ Len(files[p]) \in Nat
      /\ DOMAIN files'[p] = 1 .. Len(files[p]) + 1
      /\ files'[p][Len(files[p]) + 1] = c
      /\ \A i \in DOMAIN files[p] : files'[p][i] = files[p][i]
      /\ \A q \in Process : q # p => files'[q] = files[q]
  BY <1>1, Takes, Lists
<1>5. /\ \A i \in DOMAIN files'[p] : i \in DOMAIN files[p] \/ i = Len(files[p]) + 1
      /\ \A i \in DOMAIN files[p] : i \in DOMAIN files'[p]
      /\ Len(files[p]) + 1 \in DOMAIN files'[p]
  BY <1>4
<1>6. ASSUME NEW d \in Connection
      PROVE  d \in Taken' <=> d \in Taken \/ d = c
  <2>1. ASSUME d \in Taken' PROVE d \in Taken \/ d = c
    <3>1. PICK q \in Process : \E i \in DOMAIN files'[q] : files'[q][i] = d
      BY <2>1 DEF Taken
    <3> QED
      BY <1>4, <1>5, <3>1 DEF Taken
  <2>2. ASSUME d \in Taken PROVE d \in Taken'
    <3>1. PICK q \in Process : \E i \in DOMAIN files[q] : files[q][i] = d
      BY <2>2 DEF Taken
    <3> QED
      BY <1>4, <1>5, <3>1 DEF Taken
  <2>3. ASSUME d = c PROVE d \in Taken'
    BY <1>4, <1>5, <2>3 DEF Taken
  <2> QED
    BY <2>1, <2>2, <2>3
<1>7. ASSUME NEW q \in Process, NEW i \in DOMAIN sock_list[q]
      PROVE  files'[q][sock_list[q][i].fd - FirstFd + 1] = Peer(q, i)
  BY <1>4, PeerIsTaken DEF Peer
<1> QED
  BY <1>2, <1>3, <1>6, <1>7

\* A socket whose fcntl fails is never served.
LEMMA LeakMaps ==
  ASSUME LoopInv, Apart, PlaceIs, Apart', PlaceIs',
         NEW p \in Process, NEW l \in Listener, AcceptLeaks(p, l)
  PROVE  Promise!Next
<1> DEFINE c == backlog[l][1]
<1>1. Take(p, l) /\ sock_list' = sock_list /\ pc' = pc
  BY DEF AcceptLeaks, Take
<1>2. /\ c \in Waiting
      /\ \A d \in Connection :
           /\ d \in Waiting' <=> d \in Waiting /\ d # c
           /\ d \in Taken' <=> d \in Taken \/ d = c
      /\ \A q \in Process : \A i \in DOMAIN sock_list[q] : Peer(q, i)' = Peer(q, i)
  BY <1>1, TakeMoves DEF Peer
<1> HIDE DEF c
<1>3. \A q \in Process : OpenOf'[q] = OpenOf[q] /\ ClosedOf'[q] = ClosedOf[q]
  BY <1>1, <1>2, ClientsStay
<1>4. c \in Connection /\ place[c] = "waiting"
  BY <1>2 DEF PlaceIs, Waiting
<1>5. place'[c] = "over"
  BY <1>2, <1>3, <1>4 DEF PlaceIs, Apart
<1>6. ASSUME NEW d \in Connection, d # c PROVE place'[d] = place[d]
  BY <1>2, <1>3, <1>6, Stays
<1>7. place' = [place EXCEPT ![c] = "over"]
  BY <1>4, <1>5, <1>6 DEF PlaceIs
<1> QED
  BY <1>4, <1>7 DEF Promise!Next, Promise!Refuse

LEMMA AcceptMaps ==
  ASSUME LoopInv, Apart, PlaceIs, Apart', PlaceIs',
         NEW p \in Process, NEW l \in Listener, Accept(p, l)
  PROVE  Promise!Next
<1> DEFINE c == backlog[l][1]
<1>1. Take(p, l) /\ pc' = pc /\ pc[p] # "ended"
  BY DEF Accept, Take, AtListener
<1>2. /\ c \in Waiting
      /\ \A d \in Connection :
           /\ d \in Waiting' <=> d \in Waiting /\ d # c
           /\ d \in Taken' <=> d \in Taken \/ d = c
      /\ \A q \in Process : \A i \in DOMAIN sock_list[q] :
           files'[q][sock_list[q][i].fd - FirstFd + 1] = Peer(q, i)
  BY <1>1, TakeMoves
<1>3. /\ \A q \in Process : q # p => sock_list'[q] = sock_list[q]
      /\ 1 \in DOMAIN sock_list'[p]
      /\ sock_list'[p][1] = [fd |-> NextFd(p), state |-> "open"]
      /\ \A k \in DOMAIN sock_list'[p] : k # 1 =>
           k - 1 \in DOMAIN sock_list[p] /\ sock_list'[p][k] = sock_list[p][k - 1]
      /\ \A k \in DOMAIN sock_list[p] :
           k + 1 \in DOMAIN sock_list'[p] /\ sock_list'[p][k + 1] = sock_list[p][k]
      /\ DOMAIN sock_list[p] \subseteq Nat
  BY AcceptFacts, Lists DEF LoopInv
<1>4. files'[p][Len(files[p]) + 1] = c /\ Len(files[p]) \in Nat
  BY <1>1, Takes, Lists DEF LoopInv
<1> HIDE DEF c
<1>5. Peer(p, 1)' = c
  <2>1. NextFd(p) - FirstFd + 1 = Len(files[p]) + 1
    BY <1>4, LoopAssumption DEF NextFd
  <2> QED
    BY <1>3, <1>4, <2>1 DEF Peer
<1>6. \A k \in DOMAIN sock_list'[p] : k # 1 =>
        /\ k - 1 \in DOMAIN sock_list[p] /\ Peer(p, k)' = Peer(p, k - 1)
        /\ sock_list'[p][k].state = sock_list[p][k - 1].state
  BY <1>2, <1>3 DEF Peer
<1>7. \A k \in DOMAIN sock_list[p] :
        /\ k + 1 \in DOMAIN sock_list'[p] /\ Peer(p, k + 1)' = Peer(p, k)
        /\ sock_list'[p][k + 1].state = sock_list[p][k].state
  BY <1>2, <1>3 DEF Peer
<1>8. \A q \in Process : q # p => OpenOf'[q] = OpenOf[q] /\ ClosedOf'[q] = ClosedOf[q]
  BY <1>1, <1>2, <1>3, ClientsStay DEF Peer
<1>9. ASSUME NEW d \in Connection, d # c
      PROVE  /\ d \in OpenOf'[p] <=> d \in OpenOf[p]
             /\ d \in ClosedOf'[p] <=> d \in ClosedOf[p]
  <2>1. ASSUME NEW mark,
               \E k \in DOMAIN sock_list'[p] : sock_list'[p][k].state = mark /\ Peer(p, k)' = d
        PROVE  \E k \in DOMAIN sock_list[p] : sock_list[p][k].state = mark /\ Peer(p, k) = d
    BY <1>5, <1>6, <1>9, <2>1
  <2>2. ASSUME NEW mark,
               \E k \in DOMAIN sock_list[p] : sock_list[p][k].state = mark /\ Peer(p, k) = d
        PROVE  \E k \in DOMAIN sock_list'[p] : sock_list'[p][k].state = mark /\ Peer(p, k)' = d
    BY <1>7, <2>2
  <2> QED
    BY <1>1, <2>1, <2>2 DEF OpenOf, ClosedOf
<1>10. c \in Connection /\ place[c] = "waiting"
  BY <1>2 DEF PlaceIs, Waiting
<1>11. c \in OpenOf'[p]
  BY <1>1, <1>3, <1>5, <1>10 DEF OpenOf
<1>12. place'[c] = p
  BY <1>11 DEF PlaceIs
<1>13. ASSUME NEW d \in Connection, d # c PROVE place'[d] = place[d]
  BY <1>2, <1>8, <1>9, <1>13, Stays
<1>14. place' = [place EXCEPT ![c] = p]
  BY <1>10, <1>12, <1>13 DEF PlaceIs
<1> QED
  BY <1>10, <1>14 DEF Promise!Next, Promise!Accept

\* The other steps move no connection.
LEMMA OtherMaps ==
  ASSUME LoopInv, Apart, PlaceIs, Apart', PlaceIs',
         backlog' = backlog, files' = files, sock_list' = sock_list,
         \A p \in Process : pc'[p] = "ended" <=> pc[p] = "ended"
  PROVE  place' = place
<1>1. Waiting' = Waiting /\ Taken' = Taken
  BY FilesStay
<1>2. \A p \in Process : OpenOf'[p] = OpenOf[p] /\ ClosedOf'[p] = ClosedOf[p]
  BY ClientsStay DEF Peer
<1>3. \A c \in Connection : place'[c] = place[c]
  BY <1>1, <1>2, Stays
<1> QED
  BY <1>3 DEF PlaceIs

LEMMA DispatchStep ==
  LoopInv /\ Apart /\ PlaceIs /\ Apart' /\ PlaceIs' /\ [Next]_vars => [Promise!Next]_place
<1> SUFFICES ASSUME LoopInv, Apart, PlaceIs, Apart', PlaceIs', [Next]_vars
             PROVE  Promise!Next \/ place' = place
  OBVIOUS
<1>1. ASSUME NEW p \in Process, Clean(p), Closed(sock_list[p]) = {} PROVE place' = place
  <2>1. /\ backlog' = backlog /\ files' = files /\ sock_list' = sock_list
        /\ \A q \in Process : pc'[q] = "ended" <=> pc[q] = "ended"
    BY <1>1 DEF Clean, LoopInv, TypeOK
  <2> QED
    BY <2>1, OtherMaps
<1>2. ASSUME NEW p \in Process, Select(p) PROVE place' = place
  <2>1. /\ backlog' = backlog /\ files' = files /\ sock_list' = sock_list
        /\ \A q \in Process : pc'[q] = "ended" <=> pc[q] = "ended"
    BY <1>2 DEF Select, LoopInv, TypeOK
  <2> QED
    BY <2>1, OtherMaps
<1>3. ASSUME NEW p \in Process, NEW l \in Listener, AcceptFails(p, l) PROVE place' = place
  BY <1>3, OtherMaps DEF AcceptFails
<1>4. ASSUME NEW p \in Process, Tell(p) PROVE place' = place
  BY <1>4, OtherMaps DEF Tell
<1>5. CASE UNCHANGED vars
  BY <1>5, OtherMaps DEF vars
<1>6. ASSUME NEW p \in Process, Clean(p) PROVE Promise!Next \/ place' = place
  BY <1>1, <1>6, CleanMaps
<1>7. ASSUME NEW p \in Process, Timeout(p) \/ Serve(p) PROVE Promise!Next
  BY <1>7, CloseMaps
<1>8. ASSUME NEW p \in Process, Stop(p) PROVE Promise!Next
  BY <1>8, StopMaps
<1>9. ASSUME NEW p \in Process, NEW l \in Listener, AcceptLeaks(p, l) PROVE Promise!Next
  BY <1>9, LeakMaps
<1>10. ASSUME NEW p \in Process, NEW l \in Listener, Accept(p, l) PROVE Promise!Next
  BY <1>10, AcceptMaps
<1>11. ASSUME NEW c \in Connection, NEW l \in Listener, Arrive(c, l) PROVE Promise!Next
  BY <1>11, ArriveMaps
<1> QED
  BY <1>2, <1>3, <1>4, <1>5, <1>6, <1>7, <1>8, <1>9, <1>10, <1>11, NextSplit, Zenon

LEMMA DispatchInit == LoopInv /\ PlaceIs /\ Init => Promise!Init
<1> SUFFICES ASSUME LoopInv, PlaceIs, Init PROVE Promise!Init
  OBVIOUS
<1>1. Waiting = {} /\ Taken = {}
  BY DEF Init, Waiting, Taken
<1> QED
  BY <1>1 DEF PlaceIs, Promise!Init

LEMMA LoopInit == Init => LoopInv
BY TypeInit DEF Init, LoopInv, OnceInv, ListInv, Closed

\* The processes keep the promise of Dispatch: whoever accepts, fails, closes,
\* cleans or stops, a connection is taken by one process, served by it alone
\* and forgotten only after its session was closed or its process has ended
\* (smtp.c:92-193, socket.c).
THEOREM ImplementsDispatchHolds == Spec => ImplementsDispatch
<1>1. Init => LoopInv
  BY LoopInit
<1>2. LoopInv /\ [Next]_vars => LoopInv'
  BY TypeStep, OnceStep, ListInvStep DEF LoopInv
<1>3. LoopInv => Apart /\ PlaceIs
  BY PlacesApart, PlacesAre
<1>4. LoopInv /\ LoopInv' /\ [Next]_vars => [Promise!Next]_place
  <2>1. LoopInv => Apart /\ PlaceIs
    BY <1>3
  <2>2. LoopInv' => Apart' /\ PlaceIs'
    BY <1>3, PTL
  <2> QED
    BY <2>1, <2>2, DispatchStep
<1>5. LoopInv /\ Init => Promise!Init
  BY <1>3, DispatchInit
<1> QED
  BY <1>1, <1>2, <1>4, <1>5, PTL DEF Spec, ImplementsDispatch, Promise!Spec
=============================================================================
