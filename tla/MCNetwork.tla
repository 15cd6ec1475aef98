----------------------------- MODULE MCNetwork -----------------------------
(* Small instances of Network for TLC; connections are interchangeable. *)
EXTENDS Network, TLC

CONSTANTS p1, p2, c1, c2, c3

TwoPorts   == {p1, p2}
TwoConns   == {c1, c2}
ThreeConns == {c1, c2, c3}

ConnSymmetry == Permutations(ThreeConns)
=============================================================================
