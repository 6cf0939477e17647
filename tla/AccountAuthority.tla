-------------------------- MODULE AccountAuthority --------------------------
(***************************************************************************)
(* What password sign-in promises, as if every request were one instant.   *)
(*                                                                         *)
(* A user has a standing and, once enrolled, a secret.  A grant is the     *)
(* right to act as a user: it is given to whoever presents the user's      *)
(* secret of that instant while the user is active, and it is over as soon *)
(* as the secret or the standing changes.  A grant that is over stays so.  *)
(*                                                                         *)
(* AccountSessions, where a request reads rows in several statements and   *)
(* decides in a later transaction, implements this specification.          *)
(***************************************************************************)
EXTENDS Naturals

CONSTANTS Users, Sessions, Passwords, NoOne

VARIABLES standing, secret, grant

authorityVars == <<standing, secret, grant>>

Unused == [state |-> "unused", user |-> NoOne, secret |-> NoOne]
Over   == [state |-> "over", user |-> NoOne, secret |-> NoOne]

Given(u, p) == [state |-> "given", user |-> u, secret |-> p]

\* Every grant of u that is given now is over.
Withdrawn(u) == [s \in Sessions |-> IF grant[s].user = u THEN Over ELSE grant[s]]

AuthorityInit ==
  /\ standing = [u \in Users |-> "absent"]
  /\ secret   = [u \in Users |-> NoOne]
  /\ grant    = [s \in Sessions |-> Unused]

Apply(u) ==
  /\ standing[u] = "absent"
  /\ standing' = [standing EXCEPT ![u] = "pending"]
  /\ UNCHANGED <<secret, grant>>

Enrol(u, p) ==
  /\ standing[u] = "pending"
  /\ standing' = [standing EXCEPT ![u] = "active"]
  /\ secret'   = [secret EXCEPT ![u] = p]
  /\ UNCHANGED grant

SignIn(u, s) ==
  /\ standing[u] = "active"
  /\ grant[s] = Unused
  /\ grant' = [grant EXCEPT ![s] = Given(u, secret[u])]
  /\ UNCHANGED <<standing, secret>>

SignOut(s) ==
  /\ grant[s].state = "given"
  /\ grant' = [grant EXCEPT ![s] = Over]
  /\ UNCHANGED <<standing, secret>>

SignOutAll(u) ==
  /\ grant' = Withdrawn(u)
  /\ UNCHANGED <<standing, secret>>

ChangeSecret(u, p) ==
  /\ standing[u] = "active"
  /\ secret' = [secret EXCEPT ![u] = p]
  /\ grant'  = Withdrawn(u)
  /\ UNCHANGED standing

ChangeStanding(u, st) ==
  /\ standing[u] \in {"active", "disabled"}
  /\ standing' = [standing EXCEPT ![u] = st]
  /\ grant'    = Withdrawn(u)
  /\ UNCHANGED secret

AuthorityNext ==
  \/ \E u \in Users : Apply(u) \/ SignOutAll(u)
  \/ \E u \in Users, p \in Passwords : Enrol(u, p) \/ ChangeSecret(u, p)
  \/ \E u \in Users, s \in Sessions : SignIn(u, s)
  \/ \E s \in Sessions : SignOut(s)
  \/ \E u \in Users, st \in {"active", "disabled"} : ChangeStanding(u, st)

AuthoritySpec == AuthorityInit /\ [][AuthorityNext]_authorityVars
=============================================================================
