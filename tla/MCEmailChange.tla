---------------------------- MODULE MCEmailChange ---------------------------
(* An instance of EmailChange for TLC. *)
EXTENDS EmailChange, TLC

CONSTANTS u1, u2, a1, a2, s1, f1, c1, c2, e1, e2, r1, r2, p1, i1

OneIssuer == [i \in Identities |-> p1]

Symmetry == Permutations(Emails) \union Permutations(Requests)
=============================================================================
