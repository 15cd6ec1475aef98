----------------------------- MODULE MCHandoff -----------------------------
(* Small instances of Handoff for TLC. *)
EXTENDS Handoff

CONSTANTS p1, p2, p3

ThreePorts == {p1, p2, p3}
=============================================================================
