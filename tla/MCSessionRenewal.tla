-------------------------- MODULE MCSessionRenewal --------------------------
(* An instance of SessionRenewal for TLC. *)
EXTENDS SessionRenewal, TLC

CONSTANTS r1, r2, r3

Symmetry == Permutations(Visits)
=============================================================================
