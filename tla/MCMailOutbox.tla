---------------------------- MODULE MCMailOutbox ----------------------------
(***************************************************************************)
(* Instance of MailOutbox for TLC.  One unit of time stands for about ten  *)
(* seconds of the code's constants, scaled so that a lease, a retry and a  *)
(* mail's expiry all happen within MaxTime.                                *)
(***************************************************************************)
EXTENDS MailOutbox, TLC

CONSTANTS m1, m2, w1, w2

\* Mails and workers are interchangeable.
Symmetry == Permutations(Mails) \union Permutations(Workers)
=============================================================================
