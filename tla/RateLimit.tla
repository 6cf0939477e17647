----------------------------- MODULE RateLimit ------------------------------
(***************************************************************************)
(* The rate limits of the account module (rate_limit.go and the statement  *)
(* RateLimit on auth_rate_limits).  An entry point is counted first under  *)
(* the caller's address and then, in most of them, under its subject; each *)
(* count is one UPSERT on a bucket with a window.                          *)
(*                                                                         *)
(* The statement compares with now(), which is when its transaction began; *)
(* it may then wait for the row, so statements are applied in another      *)
(* order than they began in, at most MaxWait later (the request is         *)
(* cancelled by then).  Time advances in ticks, TicksPerSecond each.       *)
(***************************************************************************)
EXTENDS Naturals, FiniteSets, FiniteSetsExt

CONSTANTS
    Requests,        \* calls in progress at the same time
    Limit,           \* ipRequestLimit and subjectRequestLimit, by bucket
    Window,          \* ipRateWindow and subjectRateWindow, in seconds
    CountCap,        \* the largest count a bucket stores
    TicksPerSecond,
    MaxWait,         \* how many ticks a statement may wait for its row
    MaxTime          \* bound on the clock

Buckets == {"ip", "subject"}

ASSUME LimitConstants ==
    /\ Limit \in [Buckets -> Nat] /\ Window \in [Buckets -> Nat \ {0}]
    /\ TicksPerSecond \in Nat \ {0} /\ MaxWait \in Nat \ {0} /\ MaxTime \in Nat
    /\ CountCap \in Nat /\ \A b \in Buckets : Limit[b] < CountCap

Ticks(b) == Window[b] * TicksPerSecond

VARIABLES
    now,     \* clock of the database
    bucket,  \* the row of each bucket; count 0 means there is none; opened is
             \* history: when the window began
    call,    \* where each call is, and now() of its statement
    served,  \* history: the calls that each bucket let pass of late: when, in which
             \* window and as which of its calls
    promise  \* history: when the last refusal of a bucket said to come back,
             \* and the window it ran into

vars == <<now, bucket, call, served, promise>>

Init ==
  /\ now = 0
  /\ bucket = [b \in Buckets |-> [count |-> 0, expires |-> 0, opened |-> 0]]
  /\ call = [r \in Requests |-> [at |-> "idle", start |-> 0]]
  /\ served = [b \in Buckets |-> {}]
  /\ promise = [b \in Buckets |-> [until |-> 0, opened |-> 0]]

----------------------------------------------------------------------------
Idle == [at |-> "idle", start |-> 0]

\* Faulty variant: every request extends the window.
UpsertExtending(b, t) ==
  IF bucket[b].count = 0 \/ bucket[b].expires <= t
    THEN [count |-> 1, expires |-> t + Ticks(b), opened |-> t]
    ELSE [bucket[b] EXCEPT !.count = Min({bucket[b].count + 1, CountCap}),
                           !.expires = t + Ticks(b)]

\* The statement RateLimit, with its own idea t of the time
Upsert(b, t) ==
  IF bucket[b].count = 0 \/ bucket[b].expires <= t
    THEN [count |-> 1, expires |-> t + Ticks(b), opened |-> t]
    ELSE [bucket[b] EXCEPT !.count = Min({bucket[b].count + 1, CountCap})]

\* retry_after_seconds: rounded up, at least one second
RetryAfter(expires, t) ==
  Max({1, (expires - t + TicksPerSecond - 1) \div TicksPerSecond})

\* Every entry point begins with the address.
Begin(r) ==
  /\ call[r].at = "idle"
  /\ call' = [call EXCEPT ![r] = [at |-> "ip", start |-> now]]
  /\ UNCHANGED <<now, bucket, served, promise>>

\* After the address entryLimit counts the subject; StartLogin, VerifyChallenge
\* and Callback count the address only.
AfterPassing(b) ==
  IF b = "ip" THEN {[at |-> "subject", start |-> now], Idle} ELSE {Idle}

\* Faulty variant: the count from before this call is compared.
PassOneMore(r, b) ==
  LET row == Upsert(b, call[r].start)
  IN /\ call[r].at = b
     /\ row.count <= Limit[b] + 1
     /\ bucket' = [bucket EXCEPT ![b] = row]
     /\ served' = [served EXCEPT ![b] =
          @ \union {[at |-> now, opened |-> row.opened, count |-> row.count]}]
     /\ \E next \in AfterPassing(b) : call' = [call EXCEPT ![r] = next]
     /\ UNCHANGED <<now, promise>>

\* limit lets the call pass.
Pass(r, b) ==
  LET row == Upsert(b, call[r].start)
  IN /\ call[r].at = b
     /\ row.count <= Limit[b]
     /\ bucket' = [bucket EXCEPT ![b] = row]
     /\ served' = [served EXCEPT ![b] =
          @ \union {[at |-> now, opened |-> row.opened, count |-> row.count]}]
     /\ \E next \in AfterPassing(b) : call' = [call EXCEPT ![r] = next]
     /\ UNCHANGED <<now, promise>>

\* limit refuses the call with ErrRateLimited.
Refuse(r, b) ==
  LET row == Upsert(b, call[r].start)
  IN /\ call[r].at = b
     /\ row.count > Limit[b]
     /\ bucket' = [bucket EXCEPT ![b] = row]
     /\ promise' = [promise EXCEPT ![b] =
          [until |-> now + TicksPerSecond * RetryAfter(row.expires, call[r].start),
           opened |-> row.opened]]
     /\ call' = [call EXCEPT ![r] = Idle]
     /\ UNCHANGED <<now, served>>

\* The statement fails, or is applied and its answer is lost: ErrUnavailable.
Lose(r, b) ==
  /\ call[r].at = b
  /\ \/ bucket' = [bucket EXCEPT ![b] = Upsert(b, call[r].start)]
     \/ UNCHANGED bucket
  /\ call' = [call EXCEPT ![r] = Idle]
  /\ UNCHANGED <<now, served, promise>>

\* At most a window ago at time t, less what a statement may wait
Recent(b, at, t) == t + MaxWait <= at + Ticks(b)

Tick ==
  /\ now < MaxTime
  /\ \A r \in Requests : call[r].at # "idle" => now - call[r].start < MaxWait
  /\ now' = now + 1
  /\ served' = [b \in Buckets |-> {s \in served[b] : Recent(b, s.at, now')}]
  /\ UNCHANGED <<bucket, call, promise>>

Next ==
  \/ \E r \in Requests : Begin(r) \/ \E b \in Buckets : Pass(r, b) \/ Refuse(r, b) \/ Lose(r, b)
  \/ Tick

Spec == Init /\ [][Next]_vars

----------------------------------------------------------------------------
\* Properties

\* Windows do not slide, so the end of one and the beginning of the next may be
\* crowded; but in any stretch of time that is shorter than the window by what a
\* statement may wait, at most two windows' worth of calls pass (limit), whatever
\* the order in which concurrent statements are applied.
SlidingQuota ==
  \A b \in Buckets :
    Cardinality({s \in served[b] : Recent(b, s.at, now)}) <= 2 * Limit[b]

\* Retry-After is honest: when the time a refused caller was told has come, the
\* window it ran into is over, however many calls were refused meanwhile.
RetryHonest ==
  \A b \in Buckets :
    promise[b].until > 0 /\ now >= promise[b].until /\ bucket[b].opened = promise[b].opened =>
      bucket[b].expires <= now
=============================================================================
