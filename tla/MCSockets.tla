----------------------------- MODULE MCSockets -----------------------------
(* Sockets on the draws at the edges of the two bands. *)
EXTENDS Sockets

\* First and last index of each band, and numbers the modulo folds onto them.
EdgeDraws == {0, BandA - 1, BandA, BandA + BandB - 1, BandA + BandB, 2147483647}
=============================================================================
