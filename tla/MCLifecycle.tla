---------------------------- MODULE MCLifecycle -----------------------------
(* An instance of Lifecycle for TLC. *)
EXTENDS Lifecycle

CONSTANTS r1, r2
=============================================================================
