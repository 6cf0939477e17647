------------------------------ MODULE MCLocker ------------------------------
(***************************************************************************)
(* Instance of Locker for TLC: more connections than the pool may hold, so *)
(* that a discarded one can linger on the server.                          *)
(***************************************************************************)
EXTENDS Locker

CONSTANTS c1, c2, k1, k2, k3
=============================================================================
