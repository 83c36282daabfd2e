-------------------------- MODULE MCServerShutdown --------------------------
(***************************************************************************)
(* Instances of ServerShutdown for TLC.                                    *)
(***************************************************************************)
EXTENDS ServerShutdown, TLC

\* No action treats one process in its own way.
ProcessSymmetry == Permutations(Process)
=============================================================================
