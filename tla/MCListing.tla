----------------------------- MODULE MCListing ------------------------------
(* An instance of Listing for TLC.  Only ids are ordered. *)
EXTENDS Listing, TLC

CONSTANTS o1, o2, n1, n2, n3, todo, done

Symmetry == Permutations(Owners) \union Permutations(Names) \union Permutations(Status)
=============================================================================
