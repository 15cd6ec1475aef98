------------------------------- MODULE MCTrap -------------------------------
(* Small instances of Trap for TLC: connections and addresses are interchangeable. *)
EXTENDS Trap, TLC

CONSTANTS p1, p2, c1, c2, c3, a, b

TwoPorts     == {p1, p2}
ThreeConns   == {c1, c2, c3}
TwoIps       == {a, b}
TrapSymmetry == Permutations(ThreeConns) \cup Permutations(TwoIps)
=============================================================================
