---------------------------- MODULE MCDashboard ----------------------------
(* A small instance of Dashboard for TLC; the accept loops are interchangeable. *)
EXTENDS Dashboard, TLC

CONSTANTS c1, l1, l2

OneClient == {c1}
TwoLoops  == {l1, l2}

LoopSymmetry == Permutations(TwoLoops)
=============================================================================
