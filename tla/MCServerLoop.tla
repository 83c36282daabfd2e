---------------------------- MODULE MCServerLoop ----------------------------
(***************************************************************************)
(* Instances of ServerLoop for TLC.                                        *)
(***************************************************************************)
EXTENDS ServerLoop

\* The inherited descriptors of a process: the listeners, then the queue.
TwoListeners == {3, 4}
=============================================================================
