----------------------- MODULE MCManagementTransport -----------------------
(* Instances of ManagementTransport for TLC. *)
EXTENDS ManagementTransport, TLC

CONSTANTS c1, c2, k1
=============================================================================
