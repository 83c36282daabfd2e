---------------------------- MODULE MCLineBuffer ----------------------------
(***************************************************************************)
(* Instances of LineBuffer for TLC.                                        *)
(***************************************************************************)
EXTENDS LineBuffer

\* An empty line, the end of a letter, a command and a longer one.
Lines == {<<>>, <<".">>, <<"a", "a">>, <<"a", "a", "a", "a">>}

\* Nothing, a line without its LF, or a line with a NUL in it.
Rests == {<<>>, <<"a", "r">>, <<"a", "0", "r", "n">>}

\* What malloc may leave: zeros; the end of an old line, with a NUL behind it;
\* other old bytes, without a NUL; and an LF in the last byte.
OldBytes ==
  {[i \in 1 .. Size |-> "0"],
   [i \in 1 .. Size |-> CASE i = Size - 2 -> "r" [] i = Size - 1 -> "n"
                           [] i = Size -> "0" [] OTHER -> "a"],
   [i \in 1 .. Size |-> "a"],
   [i \in 1 .. Size |-> IF i = Size THEN "n" ELSE "0"]}
=============================================================================
