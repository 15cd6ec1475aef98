----------------------------- MODULE MCPersonas -----------------------------
(* Personas with short queues for TLC. *)
EXTENDS Personas

ShortQueue == 2
=============================================================================
