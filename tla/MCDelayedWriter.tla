--------------------------- MODULE MCDelayedWriter ---------------------------
(* Instances of DelayedWriter for TLC. *)
EXTENDS DelayedWriter, TLC

CONSTANTS p1, p2
=============================================================================
