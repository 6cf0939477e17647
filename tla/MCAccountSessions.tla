-------------------------- MODULE MCAccountSessions -------------------------
(***************************************************************************)
(* Instance of AccountSessions for TLC.                                    *)
(***************************************************************************)
EXTENDS AccountSessions, TLC

CONSTANTS u1, u2, e1, e2, a1, a2, s1, s2, c1, c2, p1, p2, r1, r2

\* Rows, passwords and requests are interchangeable.
Symmetry == Permutations(Users) \union Permutations(Emails)
              \union Permutations(Accounts) \union Permutations(Sessions)
              \union Permutations(Challenges) \union Permutations(Passwords)
              \union Permutations(Requests)
=============================================================================
