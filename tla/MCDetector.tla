----------------------------- MODULE MCDetector -----------------------------
(* Small instances of Detector for TLC: addresses are interchangeable. *)
EXTENDS Detector, TLC

CONSTANTS a, b, c

ThreeIps   == {a, b, c}
IpSymmetry == Permutations({a, b, c})
=============================================================================
