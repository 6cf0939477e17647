------------------------------ MODULE MCHasher ------------------------------
(* An instance of Hasher for TLC. *)
EXTENDS Hasher

CONSTANTS g1, g2, g3, g4
=============================================================================
