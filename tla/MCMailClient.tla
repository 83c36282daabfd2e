---------------------------- MODULE MCMailClient ----------------------------
(***************************************************************************)
(* Instances of MailClient for TLC.                                        *)
(***************************************************************************)
EXTENDS MailClient, TLC

CONSTANTS l1, l2, l3, d1, d2

\* Two letters to one domain, one to another.
TwoAndOne == [l \in Letter |-> IF l = l3 THEN d2 ELSE d1]

\* Nothing tells the two letters to d1 apart.
SameDomain == Permutations({l1, l2})

\* Both letters to one domain.
OneDomain == [l \in Letter |-> d1]

\* What malloc may leave in the freed record: no worker, too large, another one.
FreedIds == {-1, 0, 3}
=============================================================================
