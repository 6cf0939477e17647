---------------------------- MODULE MCRateLimit -----------------------------
(* An instance of RateLimit for TLC. *)
EXTENDS RateLimit, TLC

CONSTANTS r1, r2

MCLimit == [b \in Buckets |-> IF b = "ip" THEN 2 ELSE 1]
MCWindow == [b \in Buckets |-> IF b = "ip" THEN 2 ELSE 1]

Symmetry == Permutations(Requests)
=============================================================================
