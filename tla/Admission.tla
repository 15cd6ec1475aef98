----------------------------- MODULE Admission -----------------------------
(***************************************************************************)
(* What the honeypot promises its clients, over all its listeners, without *)
(* the mechanism that keeps the promise: at most Limit are served at a     *)
(* time, a client is refused only while that many are, and as long as the  *)
(* process lives, a client that has been accepted is not cut off: not by a *)
(* migration, nor by the start of the shutdown.  The exit, which only the  *)
(* shutdown leads to, cuts off whoever is left.                            *)
(***************************************************************************)
EXTENDS Naturals, FiniteSets

CONSTANTS Clients, Limit

VARIABLES
  status,   \* [Clients -> Status]
  phase     \* "running", "closing" after Ctrl-C, or "exited"

Status == {"away", "queued", "accepted", "served", "left", "refused", "cut"}
Served == {c \in Clients : status[c] = "served"}

Init == status = [c \in Clients |-> "away"] /\ phase = "running"

Move(c, a, b) ==
  /\ phase # "exited" /\ status[c] = a
  /\ status' = [status EXCEPT ![c] = b]
  /\ UNCHANGED phase

Arrive(c)    == Move(c, "away", "queued")
AcceptIt(c)  == Move(c, "queued", "accepted")
Admit(c)     == Cardinality(Served) < Limit /\ Move(c, "accepted", "served")
Refuse(c)    == Cardinality(Served) = Limit /\ Move(c, "accepted", "refused")
Leave(c)     == Move(c, "served", "left")

\* A listener that stops takes its queue with it.
CutOff(C) ==
  /\ phase # "exited" /\ \A c \in C : status[c] = "queued"
  /\ status' = [c \in Clients |-> IF c \in C THEN "cut" ELSE status[c]]
  /\ UNCHANGED phase

Shutdown == phase = "running" /\ phase' = "closing" /\ UNCHANGED status

\* Nobody is left with an open connection; of the clients served, some may just have
\* left by themselves.
Outlives(before, after) ==
  CASE before \in {"queued", "accepted"} -> after = "cut"
    [] before = "served" -> after \in {"left", "cut"}
    [] OTHER -> after = before
Exit ==
  /\ phase = "closing" /\ phase' = "exited"
  /\ status' \in [Clients -> Status]
  /\ \A c \in Clients : Outlives(status[c], status'[c])

Next ==
  \/ \E c \in Clients : Arrive(c) \/ AcceptIt(c) \/ Admit(c) \/ Refuse(c) \/ Leave(c)
  \/ \E C \in SUBSET Clients : CutOff(C)
  \/ Shutdown \/ Exit

Spec == Init /\ [][Next]_<<status, phase>>
=============================================================================
