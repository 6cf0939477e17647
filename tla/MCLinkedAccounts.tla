-------------------------- MODULE MCLinkedAccounts --------------------------
(* Instances of LinkedAccounts for TLC. *)
EXTENDS LinkedAccounts, TLC

CONSTANTS u1, u2, a1, a2, a3, s1, s2, f1, f2, f3, i1, i2, p1, r1, r2

MCIssuer == [i \in Identities |-> p1]

Symmetry == Permutations(Flows) \union Permutations(Identities) \union Permutations(Requests)
=============================================================================
