---------------------------- MODULE MCInteraction ----------------------------
(* Instances of Interaction for TLC. *)
EXTENDS Interaction, TLC

CONSTANTS t1, t2, e1, e2, alice, a1, a2

Symmetry == Permutations(Threads) \cup Permutations(Addresses)
=============================================================================
