--------------------------- MODULE SessionRenewal ---------------------------
(***************************************************************************)
(* The expiry of one session and its renewal by AuthenticateSession        *)
(* (internal/modules/account/session.go, user_sessions.sql).               *)
(*                                                                         *)
(* FindSession and TouchSession are two statements: requests of the same   *)
(* session run at the same time, and between the two of one request the    *)
(* session may expire or be revoked.  Whether to touch is decided by the   *)
(* clock of the process (time.Since), everything else by the clock of the  *)
(* database; they differ by at most Skew.  TouchSession tests and writes   *)
(* with now() of its begin; it may wait for the row, and others see what   *)
(* it wrote when it commits, at most MaxWait later (the request's context  *)
(* is cancelled by then).                                                  *)
(***************************************************************************)
EXTENDS Integers

CONSTANTS
    Visits,     \* requests of the session in progress at the same time
    Idle,       \* IdleTTL
    Absolute,   \* MaxTTL
    Minute,     \* the longest renewal interval
    Skew,       \* bound on the difference of the two clocks
    MaxWait,    \* how long a statement may take from its begin to its commit
    MaxTime     \* bound on the clock

ASSUME RenewalConstants ==
    /\ Idle \in Nat \ {0} /\ Absolute \in Nat /\ Absolute >= Idle
    /\ Minute \in Nat \ {0} /\ Skew \in Nat
    /\ MaxWait \in Nat \ {0} /\ MaxTime \in Nat

Least(x, y) == IF x <= y THEN x ELSE y

\* renewalInterval
Renewal == Least(Minute, Idle \div 2)

VARIABLES
    now,       \* clock of the database
    lastSeen,  \* last_seen_at
    idleEnd,   \* idle_expires_at
    end,       \* absolute_expires_at
    revoked,   \* revoked_at is set, or the user's version has moved on
    step,      \* the statement each request is about to run or is waiting for,
               \* and now() of the one under way
    accepted   \* history: when the statement began with which a valid session
               \* last let a request in

renewalVars == <<now, lastSeen, idleEnd, end, revoked, step, accepted>>

AtRest == [at |-> "idle", begun |-> 0]

\* CreateSession
RenewalInit ==
  /\ now = 0 /\ lastSeen = now /\ accepted = now
  /\ idleEnd = now + Idle
  /\ end = now + Absolute
  /\ revoked = FALSE
  /\ step = [r \in Visits |-> AtRest]

----------------------------------------------------------------------------
\* The WHERE clauses of FindSession and TouchSession find the row at time t.
ValidAt(t) == ~revoked /\ idleEnd > t /\ end > t
Valid == ValidAt(now)

\* AuthenticateSession reads the row and looks at the clock of the process,
\* which is off by d; a session seen recently is not touched.
Authenticate(r, d) ==
  /\ step[r].at = "idle"
  /\ Valid
  /\ \/ /\ now + d - lastSeen >= Renewal
        /\ step' = [step EXCEPT ![r].at = "touch"]
        /\ UNCHANGED accepted
     \/ /\ now + d - lastSeen < Renewal
        /\ accepted' = now
        /\ UNCHANGED step
  /\ UNCHANGED <<now, lastSeen, idleEnd, end, revoked>>

\* TouchSession begins, which fixes its now().
BeginTouch(r) ==
  /\ step[r].at = "touch"
  /\ step' = [step EXCEPT ![r] = [at |-> "touching", begun |-> now]]
  /\ UNCHANGED <<now, lastSeen, idleEnd, end, revoked, accepted>>

\* Faulty variant: the statement does not look whether the session is over.
TouchOver(r) ==
  LET t == step[r].begun
  IN /\ step[r].at = "touching"
     /\ IF ~revoked /\ lastSeen <= t - Renewal
          THEN lastSeen' = t /\ idleEnd' = Least(end, t + Idle)
          ELSE UNCHANGED <<lastSeen, idleEnd>>
     /\ accepted' = IF ValidAt(t) /\ t > accepted THEN t ELSE accepted
     /\ step' = [step EXCEPT ![r] = AtRest]
     /\ UNCHANGED <<now, end, revoked>>

\* Faulty variant: the new expiry is counted from the last visit.
TouchFromLastSeen(r) ==
  LET t == step[r].begun
  IN /\ step[r].at = "touching"
     /\ IF ValidAt(t) /\ lastSeen <= t - Renewal
          THEN lastSeen' = t /\ idleEnd' = Least(end, lastSeen + Idle)
          ELSE UNCHANGED <<lastSeen, idleEnd>>
     /\ accepted' = IF ValidAt(t) /\ t > accepted THEN t ELSE accepted
     /\ step' = [step EXCEPT ![r] = AtRest]
     /\ UNCHANGED <<now, end, revoked>>

\* TouchSession takes effect: it renews a session that was valid when the
\* statement began and that nobody renewed or revoked meanwhile; the request
\* goes on whether or not the statement found the row.
Touch(r) ==
  LET t == step[r].begun
  IN /\ step[r].at = "touching"
     /\ IF ValidAt(t) /\ lastSeen <= t - Renewal
          THEN lastSeen' = t /\ idleEnd' = Least(end, t + Idle)
          ELSE UNCHANGED <<lastSeen, idleEnd>>
     /\ accepted' = IF ValidAt(t) /\ t > accepted THEN t ELSE accepted
     /\ step' = [step EXCEPT ![r] = AtRest]
     /\ UNCHANGED <<now, end, revoked>>

\* The statement fails, and with it the request.
TouchFails(r) ==
  /\ step[r].at # "idle"
  /\ step' = [step EXCEPT ![r] = AtRest]
  /\ UNCHANGED <<now, lastSeen, idleEnd, end, revoked, accepted>>

\* RevokeSession, RevokeUserSessions, or a bump of the user's version
Revoke ==
  /\ ~revoked
  /\ revoked' = TRUE
  /\ UNCHANGED <<now, lastSeen, idleEnd, end, step, accepted>>

\* Time passes; no statement outlives its request.
Tick ==
  /\ now < MaxTime
  /\ \A r \in Visits : step[r].at = "touching" => now - step[r].begun < MaxWait
  /\ now' = now + 1
  /\ UNCHANGED <<lastSeen, idleEnd, end, revoked, step, accepted>>

RenewalNext ==
  \/ \E r \in Visits :
       \/ \E d \in -Skew..Skew : Authenticate(r, d)
       \/ BeginTouch(r) \/ Touch(r) \/ TouchFails(r)
  \/ Revoke
  \/ Tick

RenewalSpec == RenewalInit /\ [][RenewalNext]_renewalVars

----------------------------------------------------------------------------
\* Properties

\* Revoked, past its absolute end, or idle beyond its expiry for as long as a
\* statement may take
Over == revoked \/ end <= now \/ idleEnd + MaxWait <= now

\* A session that is over is refused for ever: no renewal on its way brings it
\* back.  One that only just expired may come back, through a TouchSession that
\* began before the expiry and commits after it.
RefusedForGood == [][Over => Over' /\ ~Valid']_renewalVars

\* Requests keep a session alive: after a request was let in, the session lasts,
\* from the begin of the statement that let it in, for the idle time less the
\* renewal interval and the difference of the clocks, or to its absolute end.
KeepsAlive ==
  idleEnd >= Least(end, accepted + Idle - Least(Minute, Idle \div 2) - Skew)
=============================================================================
