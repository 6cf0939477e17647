----------------------------- MODULE MailOutbox -----------------------------
(***************************************************************************)
(* The mail outbox: rows of table mail_outbox and the worker processes     *)
(* that consume it (internal/modules/mailoutbox, app/worker, the queries   *)
(* of internal/db/queries/mail_outbox.sql).                                *)
(*                                                                         *)
(* Every SQL statement runs in its own transaction, so it is one step on   *)
(* the table.  A statement may fail before it commits, or commit while its *)
(* answer is lost (timeout, cancelled context, broken connection): the     *)
(* worker then goes on as after a failure.  The provider is called between *)
(* the claim and the write back, outside any transaction, and a worker may *)
(* be cancelled or killed anywhere.                                        *)
(*                                                                         *)
(* now is the clock of the database.  A worker computes the deadline of a  *)
(* send on its own clock, which may be up to ClockLag behind (ClockLag     *)
(* also covers the time the sender takes to notice its deadline).          *)
(***************************************************************************)
EXTENDS Integers, FiniteSets

CONSTANTS
    Mails,          \* identities of the messages
    Workers,        \* worker processes, each a sequential consumer
    MaxAttempts,    \* maxDeliveryAttempts
    LeaseDuration,  \* leaseDuration
    SendTimeout,    \* sendTimeout
    FinishReserve,  \* leaseFinishReserve
    BatchSize,      \* expiredMailBatchSize
    RetryBase,      \* retryBaseSeconds
    RetryJitter,    \* retryJitterSeconds
    ClockLag,       \* how far a worker may run behind the database's clock
    TTLs,           \* validity periods a mail is enqueued with
    MaxTime         \* bound: the clock stops there

ASSUME ConstantsAssumption ==
    /\ MaxAttempts \in Nat \ {0}
    /\ LeaseDuration \in Nat /\ SendTimeout \in Nat /\ FinishReserve \in Nat
    /\ BatchSize \in Nat \ {0}
    /\ RetryBase \in Nat /\ RetryJitter \in Nat \ {0}
    /\ ClockLag \in Nat
    /\ TTLs \subseteq Nat \ {0}
    /\ MaxTime \in Nat

\* leaseFinishReserve exists for this: a send that notices its deadline late
\* still ends before its lease does.
ASSUME ReserveAssumption == ClockLag < FinishReserve

VARIABLES
    now,        \* the database's clock
    mail,       \* table mail_outbox
    pc,         \* where each worker is in Run / ProcessOne
    job,        \* what a worker holds in its local variables
    cancelled,  \* workers whose run context has been cancelled by OnStop
    nextLease,  \* identity.NewID never returns the same value twice
    accepted    \* per mail, how often the provider accepted it (history)

vars == <<now, mail, pc, job, cancelled, nextLease, accepted>>

----------------------------------------------------------------------------
\* Rows, workers and their initial state

Statuses == {"none", "pending", "processing", "sent", "failed"}
Terminal == {"sent", "failed"}

NoLease == 0    \* lease_id IS NULL

Row == [status : Statuses, attempts : Nat, availableAt : Int, createdAt : Int,
        expiresAt : Int, lease : Nat, leasedUntil : Int, completedAt : Int]

NoRow == [status |-> "none", attempts |-> 0, availableAt |-> 0, createdAt |-> 0,
          expiresAt |-> 0, lease |-> NoLease, leasedUntil |-> 0, completedAt |-> 0]

Steps == {"stopped", "idle", "claim", "claimed", "sending", "finish"}

\* row and lease of the claim, the instant (on the database's clock) by which
\* the send has returned, and whether the sender reported success.
NoJob == [mail |-> "no mail", lease |-> NoLease, attempts |-> 0, expiresAt |-> 0,
          leasedUntil |-> 0, until |-> 0, ok |-> FALSE]

Init ==
    /\ now = 0
    /\ mail = [m \in Mails |-> NoRow]
    /\ pc = [w \in Workers |-> "stopped"]
    /\ job = [w \in Workers |-> NoJob]
    /\ cancelled = {}
    /\ nextLease = 1
    /\ accepted = [m \in Mails |-> 0]

----------------------------------------------------------------------------
\* The business side

\* EnqueueMail, at the commit of the transaction that calls it.
EnqueueMail(m, ttl) ==
    /\ mail[m].status = "none"
    /\ mail' = [mail EXCEPT ![m] = [NoRow EXCEPT !.status = "pending",
                                                 !.availableAt = now,
                                                 !.createdAt = now,
                                                 !.expiresAt = now + ttl]]
    /\ UNCHANGED <<now, pc, job, cancelled, nextLease, accepted>>

----------------------------------------------------------------------------
\* ProcessOne: the expiry scan

\* Faulty variant: any row in processing may be taken over.
LapsedAnyProcessing(m) == mail[m].status = "processing"

Lapsed(m) == mail[m].status = "processing" /\ mail[m].leasedUntil <= now

\* Faulty variant: a crashed worker's row is left to the claim alone.
ExpirablePendingOnly == {m \in Mails : /\ mail[m].status = "pending"
                                       /\ \/ mail[m].expiresAt <= now
                                          \/ mail[m].attempts >= MaxAttempts}

Expirable == {m \in Mails : /\ mail[m].status = "pending" \/ Lapsed(m)
                            /\ \/ mail[m].expiresAt <= now
                               \/ mail[m].attempts >= MaxAttempts}

\* SKIP LOCKED: the rows that a statement passes over because the statement
\* of another worker holds them; there are none unless two workers are at one.
LockedRows ==
    IF \E v, w \in Workers : v # w /\ pc[v] \in {"idle", "claim"} /\ pc[w] \in {"idle", "claim"}
    THEN SUBSET Mails ELSE {{}}

\* ORDER BY created_at ... LIMIT batch_size
ExpiryBatch(S, candidates) ==
    /\ S \subseteq candidates
    /\ Cardinality(S) <= BatchSize
    /\ Cardinality(S) < BatchSize => S = candidates
    /\ \A m \in S, n \in candidates \ S : mail[m].createdAt <= mail[n].createdAt

Failed(row) == [row EXCEPT !.status = "failed", !.lease = NoLease,
                           !.leasedUntil = 0, !.completedAt = now]

ExpireStatement ==
    \E S \in SUBSET Mails :
        /\ \E locked \in LockedRows : ExpiryBatch(S, Expirable \ locked)
        /\ mail' = [m \in Mails |-> IF m \in S THEN Failed(mail[m]) ELSE mail[m]]

ExpireMail(w) ==
    /\ pc[w] = "idle" /\ w \notin cancelled
    /\ ExpireStatement
    /\ pc' = [pc EXCEPT ![w] = "claim"]
    /\ UNCHANGED <<now, job, cancelled, nextLease, accepted>>

\* The scan commits but the worker sees an error: it waits for the next poll.
ExpireLost(w) ==
    /\ pc[w] = "idle" /\ w \notin cancelled
    /\ ExpireStatement
    /\ UNCHANGED <<now, pc, job, cancelled, nextLease, accepted>>

----------------------------------------------------------------------------
\* ProcessOne: the claim

\* Faulty variant: the claim relies on the scan to remove exhausted rows.
ClaimableUncapped == {m \in Mails : /\ \/ mail[m].status = "pending" /\ mail[m].availableAt <= now
                                       \/ Lapsed(m)
                                    /\ mail[m].expiresAt > now}

Claimable == {m \in Mails : /\ \/ mail[m].status = "pending" /\ mail[m].availableAt <= now
                               \/ Lapsed(m)
                            /\ mail[m].expiresAt > now
                            /\ mail[m].attempts < MaxAttempts}

\* ORDER BY available_at, created_at
Precedes(m, n) ==
    \/ mail[m].availableAt < mail[n].availableAt
    \/ /\ mail[m].availableAt = mail[n].availableAt
       /\ mail[m].createdAt <= mail[n].createdAt

ClaimStatement(m) ==
    /\ \E locked \in LockedRows :
        /\ m \in Claimable \ locked
        /\ \A n \in Claimable \ locked : Precedes(m, n)
    /\ mail' = [mail EXCEPT ![m].status = "processing",
                            ![m].attempts = @ + 1,
                            ![m].lease = nextLease,
                            ![m].leasedUntil = now + LeaseDuration]
    /\ nextLease' = nextLease + 1

ClaimMail(w) ==
    /\ pc[w] = "claim"
    /\ \E m \in Mails :
        /\ ClaimStatement(m)
        /\ job' = [job EXCEPT ![w] = [NoJob EXCEPT !.mail = m,
                                                   !.lease = nextLease,
                                                   !.attempts = mail[m].attempts + 1,
                                                   !.expiresAt = mail[m].expiresAt,
                                                   !.leasedUntil = now + LeaseDuration]]
    /\ pc' = [pc EXCEPT ![w] = "claimed"]
    /\ UNCHANGED <<now, cancelled, accepted>>

\* The row is claimed, its answer is lost: nobody works under this lease.
ClaimLost(w) ==
    /\ pc[w] = "claim"
    /\ \E m \in Mails : ClaimStatement(m)
    /\ pc' = [pc EXCEPT ![w] = "idle"]
    /\ UNCHANGED <<now, job, cancelled, accepted>>

\* No row (pgx.ErrNoRows), or the statement failed.
ClaimNothing(w) ==
    /\ pc[w] = "claim"
    /\ pc' = [pc EXCEPT ![w] = "idle"]
    /\ UNCHANGED <<now, mail, job, cancelled, nextLease, accepted>>

----------------------------------------------------------------------------
\* deliver: the provider is called outside any transaction

Earliest(S) == CHOOSE t \in S : \A u \in S : t <= u

\* Faulty variant: the send is bounded by the lease itself, without reserve.
SendDeadlineNoReserve(w, local) ==
    Earliest({local + SendTimeout, job[w].expiresAt, job[w].leasedUntil})

\* The deadline of a send that a worker starts when its own clock shows local.
SendDeadline(w, local) ==
    Earliest({local + SendTimeout, job[w].expiresAt, job[w].leasedUntil - FinishReserve})

\* Faulty variant: the job is dropped although the write back still needs it.
SendSkippedForgets(w) ==
    /\ pc[w] = "claimed" /\ w \in cancelled
    /\ pc' = [pc EXCEPT ![w] = "finish"]
    /\ job' = [job EXCEPT ![w] = NoJob]
    /\ UNCHANGED <<now, mail, cancelled, nextLease, accepted>>

\* The send context is already done: the sender is not called.
SendSkipped(w) ==
    /\ pc[w] = "claimed"
    /\ \/ w \in cancelled
       \/ \E lag \in 0..ClockLag : SendDeadline(w, now - lag) <= now - lag
    /\ pc' = [pc EXCEPT ![w] = "finish"]
    /\ UNCHANGED <<now, mail, job, cancelled, nextLease, accepted>>

SendStart(w) ==
    /\ pc[w] = "claimed" /\ w \notin cancelled
    /\ \E lag \in 0..ClockLag :
        /\ SendDeadline(w, now - lag) > now - lag
        /\ job' = [job EXCEPT ![w].until = SendDeadline(w, now - lag) + lag]
    /\ pc' = [pc EXCEPT ![w] = "sending"]
    /\ UNCHANGED <<now, mail, cancelled, nextLease, accepted>>

\* The sender returns.  It reports success only for a mail the provider
\* accepted; a send that fails (deadline, cancellation, broken connection)
\* may have been accepted all the same.
SendReturn(w, taken, ok) ==
    /\ pc[w] = "sending"
    /\ ok => taken
    /\ accepted' = [accepted EXCEPT ![job[w].mail] = IF taken THEN @ + 1 ELSE @]
    /\ job' = [job EXCEPT ![w].ok = ok]
    /\ pc' = [pc EXCEPT ![w] = "finish"]
    /\ UNCHANGED <<now, mail, cancelled, nextLease>>

----------------------------------------------------------------------------
\* finishDelivery: the write back, under the lease

\* Faulty variant: the write back matches the row's id and status only.
HoldsLeaseById(m, lease) == mail[m].status = "processing" /\ mail[m].leasedUntil > now

HoldsLease(m, lease) ==
    /\ mail[m].lease = lease
    /\ mail[m].status = "processing"
    /\ mail[m].leasedUntil > now

CompleteMail(m, lease) ==
    mail' = IF HoldsLease(m, lease)
            THEN [mail EXCEPT ![m] = [@ EXCEPT !.status = "sent", !.lease = NoLease,
                                               !.leasedUntil = 0, !.completedAt = now]]
            ELSE mail

\* retryDelaySeconds: exponential in the attempt, clamped, plus a jitter
RetryDelays(attempt) ==
    LET k == IF attempt < 1 THEN 1 ELSE IF attempt > MaxAttempts THEN MaxAttempts ELSE attempt
    IN  {RetryBase * 2^(k - 1) + j : j \in 0..(RetryJitter - 1)}

\* Faulty variant: off by one, the last attempt is never made.
ExhaustedEarly(m) == mail[m].attempts + 1 >= MaxAttempts \/ mail[m].expiresAt <= now

Exhausted(m) == mail[m].attempts >= MaxAttempts \/ mail[m].expiresAt <= now

RetryMail(m, lease, delay) ==
    mail' = IF HoldsLease(m, lease)
            THEN [mail EXCEPT ![m] =
                    [@ EXCEPT !.status = IF Exhausted(m) THEN "failed" ELSE "pending",
                              !.completedAt = IF Exhausted(m) THEN now ELSE 0,
                              !.availableAt = now + delay,
                              !.lease = NoLease, !.leasedUntil = 0]]
            ELSE mail

\* Faulty variant: the send's error is dropped.
FinishDeliveryUnchecked(w) ==
    /\ pc[w] = "finish"
    /\ CompleteMail(job[w].mail, job[w].lease)
    /\ pc' = [pc EXCEPT ![w] = "idle"]
    /\ job' = [job EXCEPT ![w] = NoJob]
    /\ UNCHANGED <<now, cancelled, nextLease, accepted>>

\* Zero updated rows is only an error in the log (stage confirm_lease).
FinishDelivery(w) ==
    /\ pc[w] = "finish"
    /\ IF job[w].ok
       THEN CompleteMail(job[w].mail, job[w].lease)
       ELSE \E delay \in RetryDelays(job[w].attempts) :
                RetryMail(job[w].mail, job[w].lease, delay)
    /\ pc' = [pc EXCEPT ![w] = "idle"]
    /\ job' = [job EXCEPT ![w] = NoJob]
    /\ UNCHANGED <<now, cancelled, nextLease, accepted>>

\* The write back fails: the lease has to lapse.
FinishLost(w) ==
    /\ pc[w] = "finish"
    /\ pc' = [pc EXCEPT ![w] = "idle"]
    /\ job' = [job EXCEPT ![w] = NoJob]
    /\ UNCHANGED <<now, mail, cancelled, nextLease, accepted>>

----------------------------------------------------------------------------
\* Start, graceful stop and crash of a worker process; time

Start(w) ==
    /\ pc[w] = "stopped"
    /\ pc' = [pc EXCEPT ![w] = "idle"]
    /\ UNCHANGED <<now, mail, job, cancelled, nextLease, accepted>>

\* OnStop cancels the run context and waits.
Stop(w) ==
    /\ pc[w] # "stopped" /\ w \notin cancelled
    /\ cancelled' = cancelled \union {w}
    /\ UNCHANGED <<now, mail, pc, job, nextLease, accepted>>

\* Run leaves its loop.
Exit(w) ==
    /\ pc[w] = "idle" /\ w \in cancelled
    /\ pc' = [pc EXCEPT ![w] = "stopped"]
    /\ cancelled' = cancelled \ {w}
    /\ UNCHANGED <<now, mail, job, nextLease, accepted>>

\* The process dies; also what OnStop's timeout amounts to.
Crash(w) ==
    /\ pc[w] # "stopped"
    /\ pc' = [pc EXCEPT ![w] = "stopped"]
    /\ job' = [job EXCEPT ![w] = NoJob]
    /\ cancelled' = cancelled \ {w}
    /\ UNCHANGED <<now, mail, nextLease, accepted>>

\* The sender honours its context: no send is running past its end.
Tick ==
    /\ now < MaxTime
    /\ \A w \in Workers : pc[w] = "sending" => now < job[w].until
    /\ now' = now + 1
    /\ UNCHANGED <<mail, pc, job, cancelled, nextLease, accepted>>

Next ==
    \/ Tick
    \/ \E m \in Mails, ttl \in TTLs : EnqueueMail(m, ttl)
    \/ \E w \in Workers :
        \/ ExpireMail(w) \/ ExpireLost(w)
        \/ ClaimMail(w) \/ ClaimLost(w) \/ ClaimNothing(w)
        \/ SendSkipped(w) \/ SendStart(w)
        \/ \E taken, ok \in BOOLEAN : SendReturn(w, taken, ok)
        \/ FinishDelivery(w) \/ FinishLost(w)
        \/ Start(w) \/ Stop(w) \/ Exit(w) \/ Crash(w)

Spec == Init /\ [][Next]_vars

\* What the deployment and the loop of Run guarantee: the clock moves, a
\* worker that is down is started again, a statement that was issued and a
\* send that was started come to an end (each with some result: nothing is
\* assumed about success), and a worker that is started again and again gets
\* its expiry scan through in the end.
Fairness ==
    /\ WF_vars(Tick)
    /\ \A w \in Workers :
        /\ WF_vars(Start(w))
        /\ WF_vars(Exit(w))
        /\ SF_vars(ExpireMail(w))
        /\ WF_vars(ClaimMail(w) \/ ClaimLost(w) \/ ClaimNothing(w))
        /\ WF_vars(SendSkipped(w) \/ SendStart(w))
        /\ WF_vars(\E taken, ok \in BOOLEAN : SendReturn(w, taken, ok))
        /\ WF_vars(FinishDelivery(w) \/ FinishLost(w))

FairSpec == Spec /\ Fairness

----------------------------------------------------------------------------
\* Properties

Job == [mail : Mails \union {NoJob.mail}, lease : Nat, attempts : Nat, expiresAt : Int,
        leasedUntil : Int, until : Int, ok : BOOLEAN]

\* Type invariant: columns and local variables keep their types, and a worker
\* that has claimed and not yet written back holds a row and a lease.
TypeOK ==
    /\ now \in Nat
    /\ mail \in [Mails -> Row]
    /\ pc \in [Workers -> Steps]
    /\ job \in [Workers -> Job]
    /\ cancelled \in SUBSET Workers
    /\ nextLease \in Nat \ {0}
    /\ accepted \in [Mails -> Nat]
    /\ \A w \in Workers : pc[w] \in {"claimed", "sending", "finish"} =>
            job[w].mail \in Mails /\ job[w].lease # NoLease

\* Two workers never have the same mail at the provider at the same time:
\* deliver ends a send leaseFinishReserve before the lease, and ClaimMail only
\* takes over a lapsed lease.
NoOverlappingSends ==
    \A v, w \in Workers :
        pc[v] = "sending" /\ pc[w] = "sending" /\ job[v].mail = job[w].mail => v = w

\* While a send runs, its row is still processing under that send's lease:
\* neither the expiry scan nor another worker's claim or write back has
\* touched it, so the provider is never called for a mail whose outcome has
\* been recorded.
SendUnderLease ==
    \A w \in Workers : pc[w] = "sending" => HoldsLease(job[w].mail, job[w].lease)

\* Lost answers and crashes multiply deliveries, but each of them has burnt
\* an attempt of its own: the provider accepts a mail at most attempts times,
\* and attempts never passes maxDeliveryAttempts.
DeliveriesBounded ==
    \A m \in Mails : accepted[m] <= mail[m].attempts /\ mail[m].attempts <= MaxAttempts

\* A mail is not given up early: when ExpireMail or RetryMail fails it, its
\* attempts were used up or its validity had ended at that moment, and no
\* worker is still sending it.
FailedOnlyWhenDue ==
    \A m \in Mails : mail[m].status = "failed" =>
        /\ mail[m].attempts = MaxAttempts \/ mail[m].expiresAt <= mail[m].completedAt
        /\ \A w \in Workers : ~(pc[w] = "sending" /\ job[w].mail = m)

\* A consumer whose lease has lapsed, been taken over or been closed cannot
\* write: while a lease is live, its row changes in no step but the write back
\* of the one worker that holds it.
LeaseProtects ==
    [][\A m \in Mails :
        mail[m].status = "processing" /\ mail[m].leasedUntil > now /\ mail'[m] # mail[m] =>
            \E w \in Workers : /\ pc[w] = "finish" /\ pc'[w] = "idle"
                               /\ job[w].mail = m /\ job[w].lease = mail[m].lease]_vars

\* Every enqueued mail reaches an outcome, although workers crash, statements
\* fail, claims are lost and the provider fails (for mails whose validity and
\* last lease end before the clock's bound).
EventuallyClosed ==
    \A m \in Mails :
        mail[m].status \in {"pending", "processing"} /\ mail[m].expiresAt + LeaseDuration <= MaxTime
            ~> mail[m].status \in Terminal

\* What makes the lease safe, as an inductive invariant: a row is processing
\* exactly while it carries a lease; a worker's copy of its lease agrees with
\* the row as long as the row still carries it, and once the row does not, the
\* worker's lease time is over; no two workers hold the same lease; and a send
\* ends before the lease it runs under.
LeaseInv ==
    /\ \A m \in Mails : /\ mail[m].lease < nextLease
                        /\ mail[m].status = "processing" <=> mail[m].lease # NoLease
    /\ \A w \in Workers : pc[w] \in {"claimed", "sending", "finish"} =>
        /\ job[w].lease < nextLease
        /\ mail[job[w].mail].lease = job[w].lease =>
                mail[job[w].mail].leasedUntil = job[w].leasedUntil
        /\ mail[job[w].mail].lease # job[w].lease => job[w].leasedUntil <= now
    /\ \A v, w \in Workers :
        /\ pc[v] \in {"claimed", "sending", "finish"}
        /\ pc[w] \in {"claimed", "sending", "finish"}
        /\ job[v].lease = job[w].lease
        => v = w
    /\ \A w \in Workers : pc[w] = "sending" => now <= job[w].until /\ job[w].until < job[w].leasedUntil

\* What makes attempts a bound on deliveries: a worker that may still call the
\* provider under the row's lease has an attempt in hand that no delivery has
\* used, success is only reported after a delivery, and rows are only closed
\* for their reasons.
AttemptInv ==
    /\ \A m \in Mails :
        /\ mail[m].attempts <= MaxAttempts
        /\ accepted[m] <= mail[m].attempts
        /\ mail[m].status = "sent" => accepted[m] > 0
        /\ mail[m].status = "failed" =>
                mail[m].attempts = MaxAttempts \/ mail[m].expiresAt <= mail[m].completedAt
        /\ mail[m].status = "none" => mail[m].attempts = 0
    /\ \A w \in Workers :
        /\ pc[w] \in {"claimed", "sending"} =>
                /\ ~job[w].ok
                /\ mail[job[w].mail].lease = job[w].lease =>
                        accepted[job[w].mail] < mail[job[w].mail].attempts
        /\ pc[w] = "finish" /\ job[w].ok => accepted[job[w].mail] > 0

\* The promise to the enqueuing code: MailQueue, where leases, workers and
\* time are hidden.
Outcome == [m \in Mails |-> CASE mail[m].status = "none" -> "absent"
                              [] mail[m].status \in {"pending", "processing"} -> "open"
                              [] OTHER -> mail[m].status]

Queue == INSTANCE MailQueue WITH outcome <- Outcome, deliveries <- accepted

ImplementsQueue == Queue!QueueSpec
=============================================================================
