----------------------------- MODULE MCSpscQueue -----------------------------
(* Instances of the ring for TLC. *)
EXTENDS SpscQueue

CONSTANTS v1, v2, v3
=============================================================================
