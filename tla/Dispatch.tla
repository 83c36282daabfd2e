------------------------------ MODULE Dispatch ------------------------------
(***************************************************************************)
(* What the server promises about connections: each waits at one listener, *)
(* is taken by one process (report.tex: "by the one that was faster"), is  *)
(* served by that process alone, and is forgotten only after its session   *)
(* was closed or when its process ends.  Implemented by ServerLoop.        *)
(***************************************************************************)
CONSTANTS Process, Connection

VARIABLE place   \* "away", "waiting", a process, "closed" or "over"

Init == place = [c \in Connection |-> "away"]

Served(p) == {c \in Connection : place[c] = p}

Arrive(c) ==
  /\ place[c] = "away"
  /\ place' = [place EXCEPT ![c] = "waiting"]

Accept(c, p) ==
  /\ place[c] = "waiting"
  /\ place' = [place EXCEPT ![c] = p]

\* Accepted, but never served.
Refuse(c) ==
  /\ place[c] = "waiting"
  /\ place' = [place EXCEPT ![c] = "over"]

\* A turn of a process closes some of its own sessions.
Close(p) ==
  \E closing \in SUBSET Served(p) :
    place' = [c \in Connection |-> IF c \in closing THEN "closed" ELSE place[c]]

Forget(c) ==
  /\ place[c] = "closed"
  /\ place' = [place EXCEPT ![c] = "over"]

EndProcess(p) ==
  place' = [c \in Connection |-> IF c \in Served(p) THEN "over" ELSE place[c]]

Next ==
  \/ \E c \in Connection : Arrive(c) \/ Refuse(c) \/ Forget(c)
  \/ \E c \in Connection, p \in Process : Accept(c, p)
  \/ \E p \in Process : Close(p) \/ EndProcess(p)

Spec == Init /\ [][Next]_place
=============================================================================
