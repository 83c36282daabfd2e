---------------------------- MODULE LetterQueue ----------------------------
(***************************************************************************)
(* What the mail client promises about the letters of one domain, without  *)
(* connections, threads or the protocol: a letter of the maildir is taken  *)
(* into a queue, and leaves it delivered (only from the head, so in the    *)
(* order in which letters were taken), given back to "new", or abandoned   *)
(* in "tmp".  A delivered letter is never taken again.                     *)
(* WorkerConnection implements this specification.                         *)
(***************************************************************************)
EXTENDS Integers, Sequences

CONSTANT Letter

VARIABLES
  queue,   \* the letters somebody has a task for, oldest first
  place    \* the maildir folder of each letter

Queued == {queue[i] : i \in DOMAIN queue}

Put(letters, folder) ==
  place' = [l \in Letter |-> IF l \in letters THEN folder ELSE place[l]]

Init ==
  /\ queue = <<>>
  /\ place = [l \in Letter |-> "new"]

Take(l) ==
  /\ place[l] = "new" /\ l \notin Queued
  /\ Put({l}, "tmp")
  /\ queue' = Append(queue, l)

Deliver ==
  /\ queue # <<>>
  /\ Put({Head(queue)}, "current")
  /\ queue' = Tail(queue)

\* Some letters that follow each other leave the queue, and some of them go
\* back to "new".
Drop(first, last, returned) ==
  /\ queue' = SubSeq(queue, 1, first - 1) \o SubSeq(queue, last + 1, Len(queue))
  /\ returned \subseteq {queue[i] : i \in first .. last}
  /\ Put(returned, "new")

Next ==
  \/ \E l \in Letter : Take(l)
  \/ Deliver
  \/ \E first \in DOMAIN queue : \E last \in first .. Len(queue) :
       \E returned \in SUBSET Queued : Drop(first, last, returned)

Spec == Init /\ [][Next]_<<queue, place>>
=============================================================================
