------------------------ MODULE MCWorkerConnection ------------------------
(***************************************************************************)
(* Instances of WorkerConnection for TLC.                                  *)
(***************************************************************************)
EXTENDS WorkerConnection, TLC

\* No action treats one letter in its own way.
LetterSymmetry == Permutations(Letter)
=============================================================================
