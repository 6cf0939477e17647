-------------------------- MODULE MailOutboxProofs --------------------------
(***************************************************************************)
(* Proofs about MailOutbox, for every set of mails and workers and every   *)
(* value of the policy constants that satisfies the module's assumptions.  *)
(***************************************************************************)
EXTENDS MailOutbox, TLAPS

\* The deadline of deliver is one of its three limits and passes none of them.
LEMMA EarliestOfThree ==
    ASSUME NEW a \in Int, NEW b \in Int, NEW c \in Int
    PROVE  /\ Earliest({a, b, c}) \in Int
           /\ Earliest({a, b, c}) <= a
           /\ Earliest({a, b, c}) <= b
           /\ Earliest({a, b, c}) <= c
<1> DEFINE S == {a, b, c}
<1>1. \E t \in S : \A u \in S : t <= u
  OBVIOUS
<1>2. Earliest(S) \in S /\ \A u \in S : Earliest(S) <= u
  <2> HIDE DEF S
  <2> QED BY <1>1 DEF Earliest
<1> QED BY <1>2

\* retryDelaySeconds yields whole seconds.
LEMMA RetryDelaysType ==
    ASSUME NEW attempt \in Nat
    PROVE  RetryDelays(attempt) \subseteq Int
<1> DEFINE k == IF attempt < 1 THEN 1 ELSE IF attempt > MaxAttempts THEN MaxAttempts ELSE attempt
<1>1. k - 1 \in Nat
  BY ConstantsAssumption
<1>2. ASSUME NEW e \in Nat PROVE RetryBase * 2^e \in Int
  <2>1. 2^e \in Int OBVIOUS
  <2> QED BY <2>1, ConstantsAssumption
<1>3. RetryBase * 2^(k - 1) \in Int
  <2> HIDE DEF k
  <2> QED BY <1>1, <1>2
<1>4. RetryDelays(attempt) = {RetryBase * 2^(k - 1) + j : j \in 0..(RetryJitter - 1)}
  BY DEF RetryDelays
<1>5. ASSUME NEW b \in Int PROVE {b + j : j \in 0..(RetryJitter - 1)} \subseteq Int
  BY ConstantsAssumption
<1> HIDE DEF k
<1> QED BY <1>3, <1>4, <1>5

\* Setting one column of a row to a value of its type leaves a row; the
\* statements' updates are chains of these.
LEMMA RowUpdate ==
    ASSUME NEW row \in Row
    PROVE  /\ \A x \in Statuses : [row EXCEPT !.status = x] \in Row
           /\ \A x \in Nat : /\ [row EXCEPT !.attempts = x] \in Row
                             /\ [row EXCEPT !.lease = x] \in Row
           /\ \A x \in Int : /\ [row EXCEPT !.availableAt = x] \in Row
                             /\ [row EXCEPT !.createdAt = x] \in Row
                             /\ [row EXCEPT !.expiresAt = x] \in Row
                             /\ [row EXCEPT !.leasedUntil = x] \in Row
                             /\ [row EXCEPT !.completedAt = x] \in Row
BY DEF Row

\* The same for what a worker holds.
LEMMA JobUpdate ==
    ASSUME NEW j \in Job
    PROVE  /\ \A x \in Mails : [j EXCEPT !.mail = x] \in Job
           /\ \A x \in Nat : /\ [j EXCEPT !.attempts = x] \in Job
                             /\ [j EXCEPT !.lease = x] \in Job
           /\ \A x \in Int : /\ [j EXCEPT !.expiresAt = x] \in Job
                             /\ [j EXCEPT !.leasedUntil = x] \in Job
                             /\ [j EXCEPT !.until = x] \in Job
           /\ \A x \in BOOLEAN : [j EXCEPT !.ok = x] \in Job
BY DEF Job

\* The empty row and the empty job have the types of rows and jobs.
LEMMA NoValues ==
    /\ NoRow \in Row
    /\ NoJob \in Job
BY DEF NoRow, Row, NoJob, Job, Statuses, NoLease

\* The columns of a row have their types.
LEMMA RowTypes ==
    ASSUME NEW row \in Row
    PROVE  /\ row.status \in Statuses /\ row.attempts \in Nat /\ row.lease \in Nat
           /\ row.availableAt \in Int /\ row.createdAt \in Int /\ row.expiresAt \in Int
           /\ row.leasedUntil \in Int /\ row.completedAt \in Int
BY DEF Row

\* Every step keeps the types.
LEMMA TypeOKStep == TypeOK /\ [Next]_vars => TypeOK'
<1> SUFFICES ASSUME TypeOK, [Next]_vars PROVE TypeOK'
  OBVIOUS
<1> USE ConstantsAssumption, NoValues DEF TypeOK
<1>1. CASE UNCHANGED vars
  BY <1>1 DEF vars
<1>2. CASE Tick
  BY <1>2 DEF Tick
<1>3. ASSUME NEW m \in Mails, NEW ttl \in TTLs, EnqueueMail(m, ttl) PROVE TypeOK'
  <2>1. [NoRow EXCEPT !.status = "pending", !.availableAt = now, !.createdAt = now,
                      !.expiresAt = now + ttl] \in Row
    <3>1. "pending" \in Statuses /\ now \in Int /\ now + ttl \in Int
      BY DEF Statuses
    <3> QED BY <3>1, RowUpdate, NoValues, Zenon
  <2> QED BY <1>3, <2>1 DEF EnqueueMail
<1>4. ASSUME ExpireStatement PROVE mail' \in [Mails -> Row]
  <2>1. ASSUME NEW row \in Row PROVE Failed(row) \in Row
    <3>1. "failed" \in Statuses /\ NoLease \in Nat /\ 0 \in Int /\ now \in Int
      BY DEF Statuses, NoLease
    <3> QED BY <3>1, RowUpdate, Zenon DEF Failed
  <2> QED BY <1>4, <2>1 DEF ExpireStatement
<1>5. ASSUME NEW m \in Mails, ClaimStatement(m)
      PROVE  mail' \in [Mails -> Row] /\ nextLease' \in Nat \ {0}
  <2>1. [mail[m] EXCEPT !.status = "processing", !.attempts = @ + 1,
                        !.lease = nextLease, !.leasedUntil = now + LeaseDuration] \in Row
    <3>1. /\ mail[m] \in Row /\ "processing" \in Statuses /\ mail[m].attempts + 1 \in Nat
          /\ nextLease \in Nat /\ now + LeaseDuration \in Int
      BY RowTypes DEF Statuses
    <3> QED BY <3>1, RowUpdate, Zenon
  <2> QED BY <1>5, <2>1 DEF ClaimStatement
<1>6. ASSUME NEW w \in Workers, ExpireMail(w) PROVE TypeOK'
  BY <1>6, <1>4 DEF ExpireMail, Steps
<1>7. ASSUME NEW w \in Workers, ExpireLost(w) PROVE TypeOK'
  BY <1>7, <1>4 DEF ExpireLost
<1>8. ASSUME NEW w \in Workers, ClaimMail(w) PROVE TypeOK'
  <2> PICK m \in Mails :
        /\ ClaimStatement(m)
        /\ job' = [job EXCEPT ![w] = [NoJob EXCEPT !.mail = m,
                                                   !.lease = nextLease,
                                                   !.attempts = mail[m].attempts + 1,
                                                   !.expiresAt = mail[m].expiresAt,
                                                   !.leasedUntil = now + LeaseDuration]]
    BY <1>8 DEF ClaimMail
  <2>1. [NoJob EXCEPT !.mail = m, !.lease = nextLease,
                      !.attempts = mail[m].attempts + 1,
                      !.expiresAt = mail[m].expiresAt,
                      !.leasedUntil = now + LeaseDuration] \in Job
    <3>1. /\ nextLease \in Nat /\ mail[m].attempts + 1 \in Nat
          /\ mail[m].expiresAt \in Int /\ now + LeaseDuration \in Int
      BY RowTypes
    <3> QED BY <3>1, JobUpdate, NoValues, Zenon
  <2>2. mail' \in [Mails -> Row] /\ nextLease' \in Nat \ {0}
    BY <1>5
  <2>3. job' \in [Workers -> Job] /\ job'[w].mail = m /\ job'[w].lease = nextLease
    BY <2>1 DEF NoJob
  <2>4. pc' = [pc EXCEPT ![w] = "claimed"] /\ UNCHANGED <<now, cancelled, accepted>>
    BY <1>8 DEF ClaimMail
  <2>5. \A v \in Workers : v # w => job'[v] = job[v] /\ pc'[v] = pc[v]
    BY <2>4
  <2> QED BY <2>2, <2>3, <2>4, <2>5 DEF Steps, NoLease
<1>9. ASSUME NEW w \in Workers, ClaimLost(w) PROVE TypeOK'
  BY <1>9, <1>5 DEF ClaimLost, Steps
<1>10. ASSUME NEW w \in Workers, ClaimNothing(w) PROVE TypeOK'
  BY <1>10 DEF ClaimNothing, Steps
<1>11. ASSUME NEW w \in Workers, SendSkipped(w) PROVE TypeOK'
  BY <1>11 DEF SendSkipped, Steps
<1>12. ASSUME NEW w \in Workers, SendStart(w) PROVE TypeOK'
  <2>1. PICK lag \in 0..ClockLag :
            job' = [job EXCEPT ![w].until = SendDeadline(w, now - lag) + lag]
    BY <1>12 DEF SendStart
  <2>2. SendDeadline(w, now - lag) \in Int
    <3>1. /\ now - lag + SendTimeout \in Int
          /\ job[w].expiresAt \in Int
          /\ job[w].leasedUntil - FinishReserve \in Int
      BY DEF Job
    <3> QED BY <3>1, EarliestOfThree DEF SendDeadline
  <2>3. [job[w] EXCEPT !.until = SendDeadline(w, now - lag) + lag] \in Job
    BY <2>2 DEF Job
  <2>4. /\ job' \in [Workers -> Job]
        /\ \A v \in Workers : job'[v].mail = job[v].mail /\ job'[v].lease = job[v].lease
    BY <2>1, <2>3 DEF Job
  <2> QED BY <1>12, <2>4 DEF SendStart, Steps
<1>13. ASSUME NEW w \in Workers, NEW taken \in BOOLEAN, NEW ok \in BOOLEAN,
              SendReturn(w, taken, ok)
       PROVE  TypeOK'
  <2>1. [job[w] EXCEPT !.ok = ok] \in Job
    BY DEF Job
  <2>2. /\ job' \in [Workers -> Job]
        /\ \A v \in Workers : job'[v].mail = job[v].mail /\ job'[v].lease = job[v].lease
    BY <1>13, <2>1 DEF SendReturn, Job
  <2>3. accepted' \in [Mails -> Nat]
    BY <1>13 DEF SendReturn
  <2> QED BY <1>13, <2>2, <2>3 DEF SendReturn, Steps
<1>14. ASSUME NEW w \in Workers, FinishDelivery(w) PROVE TypeOK'
  <2>1. job[w].mail \in Mails
    BY <1>14 DEF FinishDelivery
  <2>2. CASE CompleteMail(job[w].mail, job[w].lease)
    <3>1. mail' \in [Mails -> Row]
      <4>1. ASSUME NEW row \in Row
            PROVE  [row EXCEPT !.status = "sent", !.lease = NoLease,
                               !.leasedUntil = 0, !.completedAt = now] \in Row
        <5>1. "sent" \in Statuses /\ NoLease \in Nat /\ 0 \in Int /\ now \in Int
          BY DEF Statuses, NoLease
        <5> QED BY <5>1, RowUpdate, Zenon
      <4> QED BY <2>1, <2>2, <4>1 DEF CompleteMail
    <3> QED BY <1>14, <3>1 DEF FinishDelivery, Steps
  <2>3. ASSUME NEW delay \in RetryDelays(job[w].attempts),
               RetryMail(job[w].mail, job[w].lease, delay)
        PROVE  TypeOK'
    <3>1. delay \in Int
      BY RetryDelaysType DEF Job
    <3>2. ASSUME NEW row \in Row, NEW st \in Statuses, NEW at \in Int
          PROVE  [row EXCEPT !.status = st, !.completedAt = at, !.availableAt = now + delay,
                             !.lease = NoLease, !.leasedUntil = 0] \in Row
      <4>1. NoLease \in Nat /\ 0 \in Int /\ now + delay \in Int
        BY <3>1 DEF NoLease
      <4> QED BY <4>1, RowUpdate, Zenon
    <3>3. mail' \in [Mails -> Row]
      <4> DEFINE m == job[w].mail
                 st == IF Exhausted(m) THEN "failed" ELSE "pending"
                 at == IF Exhausted(m) THEN now ELSE 0
      <4>1. st \in Statuses /\ at \in Int
        BY DEF Statuses
      <4>2. mail' = IF HoldsLease(m, job[w].lease)
                    THEN [mail EXCEPT ![m] =
                            [mail[m] EXCEPT !.status = st, !.completedAt = at,
                                            !.availableAt = now + delay,
                                            !.lease = NoLease, !.leasedUntil = 0]]
                    ELSE mail
        BY <2>1, <2>3 DEF RetryMail
      <4> HIDE DEF st, at
      <4> QED BY <2>1, <3>2, <4>1, <4>2
    <3> QED BY <1>14, <3>3 DEF FinishDelivery, Steps
  <2> QED BY <1>14, <2>2, <2>3 DEF FinishDelivery
<1>15. ASSUME NEW w \in Workers, FinishLost(w) PROVE TypeOK'
  BY <1>15 DEF FinishLost, Steps
<1>16. ASSUME NEW w \in Workers, Start(w) \/ Stop(w) \/ Exit(w) \/ Crash(w) PROVE TypeOK'
  BY <1>16 DEF Start, Stop, Exit, Crash, Steps
<1> QED
  BY <1>1, <1>2, <1>3, <1>6, <1>7, <1>8, <1>9, <1>10, <1>11, <1>12, <1>13, <1>14, <1>15,
     <1>16 DEF Next

\* Rows and local variables keep their types in every behaviour.
THEOREM TypeCorrect == Spec => []TypeOK
<1>1. Init => TypeOK
  BY NoValues DEF Init, TypeOK, Steps
<1> QED BY <1>1, TypeOKStep, PTL DEF Spec

----------------------------------------------------------------------------
\* What each statement does to the table, column by column

\* What EnqueueMail leaves in the table, as far as the invariants care.
LEMMA EnqueueEffect ==
    ASSUME TypeOK, NEW m \in Mails, NEW ttl \in TTLs, EnqueueMail(m, ttl)
    PROVE  /\ mail[m].status = "none"
           /\ mail'[m].status = "pending" /\ mail'[m].lease = NoLease /\ mail'[m].attempts = 0
           /\ \A n \in Mails : n # m => mail'[n] = mail[n]
BY DEF TypeOK, EnqueueMail, NoRow

\* What the expiry scan does to one row: nothing, or it fails an expirable row.
LEMMA ExpireEffect ==
    ASSUME TypeOK, ExpireStatement, NEW m \in Mails
    PROVE  \/ mail'[m] = mail[m]
           \/ /\ m \in Expirable
              /\ mail'[m].status = "failed" /\ mail'[m].lease = NoLease
              /\ mail'[m].attempts = mail[m].attempts
              /\ mail'[m].expiresAt = mail[m].expiresAt
              /\ mail'[m].completedAt = now
<1>1. PICK S \in SUBSET Mails :
        /\ \E locked \in LockedRows : ExpiryBatch(S, Expirable \ locked)
        /\ mail' = [n \in Mails |-> IF n \in S THEN Failed(mail[n]) ELSE mail[n]]
  BY DEF ExpireStatement
<1>2. CASE m \notin S
  BY <1>1, <1>2
<1>3. CASE m \in S
  <2>1. mail'[m] = Failed(mail[m]) /\ m \in Expirable /\ mail[m] \in Row
    BY <1>1, <1>3 DEF ExpiryBatch, TypeOK
  <2>2. ASSUME NEW row \in Row
        PROVE  /\ Failed(row).status = "failed" /\ Failed(row).lease = NoLease
               /\ Failed(row).attempts = row.attempts
               /\ Failed(row).expiresAt = row.expiresAt
               /\ Failed(row).completedAt = now
    BY DEF Failed, Row
  <2> QED BY <2>1, <2>2
<1> QED BY <1>2, <1>3

\* What ClaimMail does: one row is taken under a fresh lease, with one more attempt.
LEMMA ClaimEffect ==
    ASSUME TypeOK, NEW m \in Mails, ClaimStatement(m)
    PROVE  /\ mail[m].status = "pending" \/ Lapsed(m)
           /\ mail[m].attempts < MaxAttempts
           /\ mail'[m].status = "processing" /\ mail'[m].lease = nextLease
           /\ mail'[m].attempts = mail[m].attempts + 1
           /\ mail'[m].leasedUntil = now + LeaseDuration
           /\ \A n \in Mails : n # m => mail'[n] = mail[n]
           /\ nextLease' = nextLease + 1
BY DEF TypeOK, ClaimStatement, Claimable, Row

\* What the write back does: nothing, or it closes or returns the row it holds.
LEMMA FinishEffect ==
    ASSUME TypeOK, NEW w \in Workers, FinishDelivery(w)
    PROVE  LET m == job[w].mail IN
           \/ mail' = mail
           \/ /\ HoldsLease(m, job[w].lease)
              /\ mail'[m].lease = NoLease
              /\ mail'[m].attempts = mail[m].attempts
              /\ mail'[m].expiresAt = mail[m].expiresAt
              /\ \/ mail'[m].status = "sent" /\ job[w].ok
                 \/ mail'[m].status = "pending"
                 \/ mail'[m].status = "failed" /\ Exhausted(m) /\ mail'[m].completedAt = now
              /\ \A n \in Mails : n # m => mail'[n] = mail[n]
<1> DEFINE m == job[w].mail
<1>0. m \in Mails /\ mail \in [Mails -> Row] /\ mail[m] \in Row
  BY DEF FinishDelivery, TypeOK
<1>1. CASE job[w].ok
  <2>1. CompleteMail(m, job[w].lease)
    BY <1>1 DEF FinishDelivery
  <2> QED BY <1>0, <1>1, <2>1 DEF CompleteMail, Row
<1>2. CASE ~job[w].ok
  <2>1. PICK delay \in RetryDelays(job[w].attempts) : RetryMail(m, job[w].lease, delay)
    BY <1>2 DEF FinishDelivery
  <2> QED BY <1>0, <2>1 DEF RetryMail, Row
<1> QED BY <1>1, <1>2

----------------------------------------------------------------------------
\* The lease invariant

\* A send ends before its lease: deliver keeps leaseFinishReserve and a
\* worker's clock is behind by less than that.
LEMMA SendEndsBeforeLease ==
    ASSUME TypeOK, NEW w \in Workers, SendStart(w)
    PROVE  /\ now <= job'[w].until
           /\ job'[w].until < job[w].leasedUntil
           /\ job'[w].mail = job[w].mail /\ job'[w].lease = job[w].lease
           /\ job'[w].leasedUntil = job[w].leasedUntil /\ job'[w].ok = job[w].ok
           /\ \A v \in Workers : v # w => job'[v] = job[v]
<1>1. PICK lag \in 0..ClockLag :
        /\ SendDeadline(w, now - lag) > now - lag
        /\ job' = [job EXCEPT ![w].until = SendDeadline(w, now - lag) + lag]
  BY DEF SendStart
<1>2. /\ now \in Int /\ lag \in Int /\ lag <= ClockLag /\ job[w].leasedUntil \in Int
      /\ now - lag + SendTimeout \in Int /\ job[w].expiresAt \in Int
      /\ job[w].leasedUntil - FinishReserve \in Int
  BY ConstantsAssumption DEF TypeOK, Job
<1>3. /\ SendDeadline(w, now - lag) \in Int
      /\ SendDeadline(w, now - lag) <= job[w].leasedUntil - FinishReserve
  BY <1>2, EarliestOfThree DEF SendDeadline
<1>4. /\ job'[w].until = SendDeadline(w, now - lag) + lag
      /\ job'[w].mail = job[w].mail /\ job'[w].lease = job[w].lease
      /\ job'[w].leasedUntil = job[w].leasedUntil /\ job'[w].ok = job[w].ok
      /\ \A v \in Workers : v # w => job'[v] = job[v]
  BY <1>1 DEF TypeOK, Job
<1> QED BY <1>1, <1>2, <1>3, <1>4, ConstantsAssumption, ReserveAssumption

\* Every step keeps the lease invariant.
LEMMA LeaseInvStep == TypeOK /\ LeaseInv /\ [Next]_vars => LeaseInv'
<1> SUFFICES ASSUME TypeOK, LeaseInv, [Next]_vars PROVE LeaseInv'
  OBVIOUS
<1>0. /\ now \in Nat /\ nextLease \in Nat /\ NoLease < nextLease /\ NoLease = 0
      /\ LeaseDuration \in Nat
      /\ \A m \in Mails : mail[m].lease \in Nat /\ mail[m].leasedUntil \in Int
      /\ \A w \in Workers : job[w].lease \in Nat /\ job[w].leasedUntil \in Int
                            /\ job[w].until \in Int
      /\ \A w \in Workers : pc[w] \in {"claimed", "sending", "finish"} =>
            job[w].mail \in Mails /\ job[w].lease # NoLease
      /\ pc \in [Workers -> Steps]
      /\ job \in [Workers -> Job]
  BY ConstantsAssumption DEF TypeOK, Row, Job, NoLease
<1>1. CASE UNCHANGED vars
  BY <1>1 DEF vars, LeaseInv
<1>2. CASE Tick
  BY <1>0, <1>2 DEF Tick, LeaseInv
<1>3. ASSUME NEW m \in Mails, NEW ttl \in TTLs, EnqueueMail(m, ttl) PROVE LeaseInv'
  <2>1. UNCHANGED <<now, pc, job, nextLease>>
    BY <1>3 DEF EnqueueMail
  <2>2. /\ mail[m].status = "none" /\ mail'[m].status = "pending" /\ mail'[m].lease = NoLease
        /\ \A n \in Mails : n # m => mail'[n] = mail[n]
    BY <1>3, EnqueueEffect
  <2>3. mail[m].lease = NoLease
    BY <2>2 DEF LeaseInv
  <2> QED BY <1>0, <2>1, <2>2, <2>3 DEF LeaseInv
\* An expired row is pending or lapsed, so its lease time is over.
<1>4. ASSUME ExpireStatement, UNCHANGED <<now, job, nextLease>>,
             NEW w \in Workers, pc[w] = "idle", pc' = pc \/ pc' = [pc EXCEPT ![w] = "claim"]
      PROVE  LeaseInv'
  <2>1. ASSUME NEW m \in Mails
        PROVE  \/ mail'[m] = mail[m]
               \/ /\ mail'[m].status = "failed" /\ mail'[m].lease = NoLease
                  /\ mail[m].lease # NoLease => mail[m].leasedUntil <= now
    BY <1>0, <1>4, ExpireEffect DEF Expirable, Lapsed, LeaseInv
  <2>2. \A v \in Workers : pc'[v] \in {"claimed", "sending", "finish"} => pc'[v] = pc[v]
    BY <1>0, <1>4
  <2> QED BY <1>0, <1>4, <2>1, <2>2 DEF LeaseInv
<1>5. ASSUME NEW w \in Workers, ExpireMail(w) \/ ExpireLost(w) PROVE LeaseInv'
  <2>1. CASE ExpireMail(w)
    BY <1>4, <2>1 DEF ExpireMail
  <2>2. CASE ExpireLost(w)
    BY <1>4, <2>2 DEF ExpireLost
  <2> QED BY <1>5, <2>1, <2>2
\* A claimed row was pending or lapsed, and its new lease is fresh.
<1>6. ASSUME NEW m \in Mails, ClaimStatement(m), UNCHANGED now
      PROVE  /\ \A n \in Mails : /\ mail'[n].lease < nextLease'
                                 /\ mail'[n].status = "processing" <=> mail'[n].lease # NoLease
             /\ \A v \in Workers : pc[v] \in {"claimed", "sending", "finish"} =>
                    /\ job[v].lease < nextLease
                    /\ mail'[job[v].mail].lease = job[v].lease =>
                            mail'[job[v].mail].leasedUntil = job[v].leasedUntil
                    /\ mail'[job[v].mail].lease # job[v].lease => job[v].leasedUntil <= now
             /\ nextLease' = nextLease + 1
  <2>1. mail[m].lease # NoLease => mail[m].leasedUntil <= now
    BY <1>0, <1>6, ClaimEffect DEF Lapsed, LeaseInv
  <2>2. mail'[m].lease = nextLease /\ mail'[m].status = "processing"
        /\ nextLease' = nextLease + 1 /\ \A n \in Mails : n # m => mail'[n] = mail[n]
    BY <1>6, ClaimEffect
  <2> QED BY <1>0, <2>1, <2>2 DEF LeaseInv
<1>7. ASSUME NEW w \in Workers, ClaimMail(w) PROVE LeaseInv'
  <2>1. PICK m \in Mails :
        /\ ClaimStatement(m)
        /\ job' = [job EXCEPT ![w] = [NoJob EXCEPT !.mail = m,
                                                   !.lease = nextLease,
                                                   !.attempts = mail[m].attempts + 1,
                                                   !.expiresAt = mail[m].expiresAt,
                                                   !.leasedUntil = now + LeaseDuration]]
    BY <1>7 DEF ClaimMail
  <2>2. /\ job'[w].mail = m /\ job'[w].lease = nextLease
        /\ job'[w].leasedUntil = now + LeaseDuration
        /\ \A v \in Workers : v # w => job'[v] = job[v] /\ pc'[v] = pc[v]
        /\ pc'[w] = "claimed" /\ now' = now
    BY <1>0, <1>7, <2>1 DEF ClaimMail, NoJob
  <2>3. mail'[m].lease = nextLease /\ mail'[m].leasedUntil = now + LeaseDuration
    BY <2>1, ClaimEffect
  <2> QED BY <1>0, <1>6, <2>1, <2>2, <2>3 DEF LeaseInv
<1>8. ASSUME NEW w \in Workers, ClaimLost(w) PROVE LeaseInv'
  <2>1. \A v \in Workers : pc'[v] \in {"claimed", "sending", "finish"} => pc'[v] = pc[v]
    BY <1>0, <1>8 DEF ClaimLost
  <2> QED BY <1>0, <1>6, <1>8, <2>1 DEF ClaimLost, LeaseInv
<1>9. ASSUME NEW w \in Workers, ClaimNothing(w) \/ Start(w) \/ Stop(w) \/ Exit(w)
      PROVE  LeaseInv'
  BY <1>0, <1>9 DEF ClaimNothing, Start, Stop, Exit, LeaseInv
<1>10. ASSUME NEW w \in Workers, SendSkipped(w) PROVE LeaseInv'
  BY <1>0, <1>10 DEF SendSkipped, LeaseInv
<1>11. ASSUME NEW w \in Workers, SendStart(w) PROVE LeaseInv'
  <2>1. /\ pc[w] = "claimed" /\ pc' = [pc EXCEPT ![w] = "sending"]
        /\ UNCHANGED <<now, mail, nextLease>>
    BY <1>11 DEF SendStart
  <2>2. /\ now <= job'[w].until /\ job'[w].until < job'[w].leasedUntil
        /\ \A v \in Workers : /\ job'[v].mail = job[v].mail /\ job'[v].lease = job[v].lease
                              /\ job'[v].leasedUntil = job[v].leasedUntil
                              /\ v # w => job'[v].until = job[v].until
    BY <1>11, SendEndsBeforeLease
  <2> QED BY <1>0, <2>1, <2>2 DEF LeaseInv
<1>12. ASSUME NEW w \in Workers, NEW taken \in BOOLEAN, NEW ok \in BOOLEAN,
              SendReturn(w, taken, ok)
       PROVE  LeaseInv'
  <2>1. \A v \in Workers : /\ job'[v].mail = job[v].mail /\ job'[v].lease = job[v].lease
                           /\ job'[v].leasedUntil = job[v].leasedUntil
                           /\ job'[v].until = job[v].until
    BY <1>0, <1>12 DEF SendReturn, Job
  <2> QED BY <1>0, <1>12, <2>1 DEF SendReturn, LeaseInv
\* Only the holder of a row's lease writes it back, and it is done with it then.
<1>13. ASSUME NEW w \in Workers, FinishDelivery(w) PROVE LeaseInv'
  <2>1. /\ pc'[w] = "idle" /\ now' = now /\ nextLease' = nextLease
        /\ \A v \in Workers : v # w => job'[v] = job[v] /\ pc'[v] = pc[v]
        /\ pc[w] = "finish" /\ job[w].mail \in Mails
    BY <1>0, <1>13 DEF FinishDelivery
  <2>2. CASE mail' = mail
    BY <1>0, <2>1, <2>2 DEF LeaseInv
  <2>3. CASE /\ HoldsLease(job[w].mail, job[w].lease)
             /\ mail'[job[w].mail].lease = NoLease
             /\ mail'[job[w].mail].status \in {"sent", "pending", "failed"}
             /\ \A n \in Mails : n # job[w].mail => mail'[n] = mail[n]
    <3>1. \A v \in Workers : v # w /\ pc[v] \in {"claimed", "sending", "finish"} =>
                job[v].lease # job[w].lease
      BY <2>1 DEF LeaseInv
    <3>2. \A v \in Workers :
                v # w /\ pc[v] \in {"claimed", "sending", "finish"} /\ job[v].mail = job[w].mail =>
                    job[v].leasedUntil <= now
      BY <1>0, <2>3, <3>1 DEF HoldsLease, LeaseInv
    <3>3. \A n \in Mails : /\ mail'[n].lease < nextLease'
                           /\ mail'[n].status = "processing" <=> mail'[n].lease # NoLease
      BY <1>0, <2>1, <2>3 DEF LeaseInv
    <3> QED BY <1>0, <2>1, <2>3, <3>1, <3>2, <3>3 DEF LeaseInv
  <2> QED BY <1>13, <2>2, <2>3, FinishEffect
<1>14. ASSUME NEW w \in Workers, FinishLost(w) \/ Crash(w) PROVE LeaseInv'
  <2>1. /\ pc'[w] \notin {"claimed", "sending", "finish"} /\ UNCHANGED <<now, mail, nextLease>>
        /\ \A v \in Workers : v # w => job'[v] = job[v] /\ pc'[v] = pc[v]
    BY <1>0, <1>14 DEF FinishLost, Crash
  <2> QED BY <1>0, <2>1 DEF LeaseInv
<1> QED
  BY <1>1, <1>2, <1>3, <1>5, <1>7, <1>8, <1>9, <1>10, <1>11, <1>12, <1>13, <1>14 DEF Next

----------------------------------------------------------------------------
\* A running send owns its row

\* The lease invariant implies what is claimed of running sends.
LEMMA SendersOwnRow == TypeOK /\ LeaseInv => SendUnderLease /\ NoOverlappingSends
<1> SUFFICES ASSUME TypeOK, LeaseInv PROVE SendUnderLease /\ NoOverlappingSends
  OBVIOUS
<1>1. ASSUME NEW w \in Workers, pc[w] = "sending" PROVE HoldsLease(job[w].mail, job[w].lease)
  <2>1. /\ now \in Int /\ job[w].until \in Int /\ job[w].leasedUntil \in Int
        /\ job[w].mail \in Mails /\ job[w].lease # NoLease
    BY <1>1 DEF TypeOK, Job
  <2>2. now < job[w].leasedUntil
    BY <1>1, <2>1 DEF LeaseInv
  <2>3. mail[job[w].mail].lease = job[w].lease
    BY <1>1, <2>1, <2>2 DEF LeaseInv
  <2> QED BY <1>1, <2>1, <2>2, <2>3 DEF HoldsLease, LeaseInv
<1>2. SendUnderLease
  BY <1>1 DEF SendUnderLease
<1>3. NoOverlappingSends
  BY <1>1 DEF NoOverlappingSends, HoldsLease, LeaseInv
<1> QED BY <1>2, <1>3

\* The initial tables, row by row.
LEMMA InitValues ==
    ASSUME Init
    PROVE  /\ \A m \in Mails : /\ mail[m].status = "none" /\ mail[m].lease = 0
                               /\ mail[m].attempts = 0 /\ accepted[m] = 0
           /\ \A w \in Workers : pc[w] = "stopped"
           /\ nextLease = 1
BY DEF Init, NoRow, NoLease

\* The lease invariant holds in every behaviour.
LEMMA LeaseInvariant == Spec => []LeaseInv
<1>1. Init => LeaseInv
  BY InitValues DEF LeaseInv, NoLease
<1> QED BY <1>1, TypeCorrect, LeaseInvStep, PTL DEF Spec

\* Whatever crashes, lost answers and restarts do, a mail is at the provider
\* only under its row's live lease, hence by at most one worker at a time.
THEOREM LeaseSafety == Spec => [](SendUnderLease /\ NoOverlappingSends)
BY TypeCorrect, LeaseInvariant, SendersOwnRow, PTL

----------------------------------------------------------------------------
\* Attempts bound deliveries

\* Every step keeps the attempt invariant.
LEMMA AttemptInvStep == TypeOK /\ LeaseInv /\ AttemptInv /\ [Next]_vars => AttemptInv'
<1> SUFFICES ASSUME TypeOK, LeaseInv, AttemptInv, [Next]_vars PROVE AttemptInv'
  OBVIOUS
<1>0. /\ now \in Nat /\ MaxAttempts \in Nat \ {0}
      /\ \A m \in Mails : /\ mail[m].lease \in Nat /\ mail[m].attempts \in Nat
                          /\ accepted[m] \in Nat
                          /\ mail[m].expiresAt \in Int /\ mail[m].completedAt \in Int
      /\ \A w \in Workers : pc[w] \in {"claimed", "sending", "finish"} =>
            job[w].mail \in Mails /\ job[w].lease # NoLease
      /\ \A w \in Workers : job[w].lease \in Nat /\ job[w].ok \in BOOLEAN
      /\ pc \in [Workers -> Steps] /\ job \in [Workers -> Job]
      /\ nextLease \in Nat
  BY ConstantsAssumption DEF TypeOK, Row, Job
<1>1. CASE UNCHANGED vars
  BY <1>1 DEF vars, AttemptInv
<1>2. CASE Tick
  BY <1>2 DEF Tick, AttemptInv
<1>3. ASSUME NEW m \in Mails, NEW ttl \in TTLs, EnqueueMail(m, ttl) PROVE AttemptInv'
  <2>1. UNCHANGED <<pc, job, accepted>>
    BY <1>3 DEF EnqueueMail
  <2>2. /\ mail[m].status = "none" /\ mail'[m].status = "pending" /\ mail'[m].lease = NoLease
        /\ mail'[m].attempts = 0
        /\ \A n \in Mails : n # m => mail'[n] = mail[n]
    BY <1>3, EnqueueEffect
  <2> QED BY <1>0, <2>1, <2>2 DEF AttemptInv
<1>4. ASSUME NEW w \in Workers, ExpireMail(w) \/ ExpireLost(w) PROVE AttemptInv'
  <2>1. /\ ExpireStatement /\ UNCHANGED <<job, accepted>>
        /\ \A v \in Workers : pc'[v] \in {"claimed", "sending", "finish"} => pc'[v] = pc[v]
    BY <1>0, <1>4 DEF ExpireMail, ExpireLost
  <2>2. ASSUME NEW m \in Mails
        PROVE  \/ mail'[m] = mail[m]
               \/ /\ mail'[m].status = "failed" /\ mail'[m].lease = NoLease
                  /\ mail'[m].attempts = mail[m].attempts
                  /\ mail'[m].attempts = MaxAttempts \/ mail'[m].expiresAt <= mail'[m].completedAt
    BY <1>0, <2>1, ExpireEffect DEF Expirable, AttemptInv
  <2> QED BY <1>0, <2>1, <2>2 DEF AttemptInv
<1>5. ASSUME NEW w \in Workers, ClaimMail(w) PROVE AttemptInv'
  <2>1. PICK m \in Mails :
        /\ ClaimStatement(m)
        /\ job' = [job EXCEPT ![w] = [NoJob EXCEPT !.mail = m,
                                                   !.lease = nextLease,
                                                   !.attempts = mail[m].attempts + 1,
                                                   !.expiresAt = mail[m].expiresAt,
                                                   !.leasedUntil = now + LeaseDuration]]
    BY <1>5 DEF ClaimMail
  <2>2. /\ job'[w].mail = m /\ job'[w].ok = FALSE
        /\ \A v \in Workers : v # w => job'[v] = job[v] /\ pc'[v] = pc[v]
        /\ pc'[w] = "claimed" /\ accepted' = accepted
    BY <1>0, <1>5, <2>1 DEF ClaimMail, NoJob
  <2>3. /\ mail[m].attempts < MaxAttempts
        /\ mail'[m].attempts = mail[m].attempts + 1 /\ mail'[m].status = "processing"
        /\ mail'[m].lease = nextLease
        /\ \A n \in Mails : n # m => mail'[n] = mail[n]
    BY <2>1, ClaimEffect
  <2> QED BY <1>0, <2>2, <2>3 DEF AttemptInv, LeaseInv
<1>6. ASSUME NEW w \in Workers, ClaimLost(w) PROVE AttemptInv'
  <2>1. PICK m \in Mails : ClaimStatement(m)
    BY <1>6 DEF ClaimLost
  <2>2. /\ mail[m].attempts < MaxAttempts
        /\ mail'[m].attempts = mail[m].attempts + 1 /\ mail'[m].status = "processing"
        /\ mail'[m].lease = nextLease
        /\ \A n \in Mails : n # m => mail'[n] = mail[n]
    BY <2>1, ClaimEffect
  <2>3. /\ UNCHANGED <<job, accepted>>
        /\ \A v \in Workers : pc'[v] \in {"claimed", "sending", "finish"} => pc'[v] = pc[v]
    BY <1>0, <1>6 DEF ClaimLost
  <2> QED BY <1>0, <2>2, <2>3 DEF AttemptInv
<1>7. ASSUME NEW w \in Workers, ClaimNothing(w) \/ Start(w) \/ Stop(w) \/ Exit(w)
      PROVE  AttemptInv'
  BY <1>0, <1>7 DEF ClaimNothing, Start, Stop, Exit, AttemptInv
<1>8. ASSUME NEW w \in Workers, SendSkipped(w) PROVE AttemptInv'
  BY <1>0, <1>8 DEF SendSkipped, AttemptInv
<1>9. ASSUME NEW w \in Workers, SendStart(w) PROVE AttemptInv'
  <2>1. /\ pc[w] = "claimed" /\ pc' = [pc EXCEPT ![w] = "sending"]
        /\ UNCHANGED <<mail, accepted>>
    BY <1>9 DEF SendStart
  <2>2. \A v \in Workers : /\ job'[v].mail = job[v].mail /\ job'[v].lease = job[v].lease
                           /\ job'[v].ok = job[v].ok
    BY <1>9, SendEndsBeforeLease
  <2> QED BY <1>0, <2>1, <2>2 DEF AttemptInv
\* The sender uses the attempt of its own claim: no other worker holds this lease.
<1>10. ASSUME NEW w \in Workers, NEW taken \in BOOLEAN, NEW ok \in BOOLEAN,
              SendReturn(w, taken, ok)
       PROVE  AttemptInv'
  <2> DEFINE m == job[w].mail
  <2>1. /\ pc[w] = "sending" /\ m \in Mails /\ mail' = mail
        /\ ok => taken
        /\ pc' = [pc EXCEPT ![w] = "finish"]
        /\ accepted' = [accepted EXCEPT ![m] = IF taken THEN @ + 1 ELSE @]
    BY <1>0, <1>10 DEF SendReturn
  <2>2. /\ job'[w].mail = m /\ job'[w].ok = ok
        /\ \A v \in Workers : v # w => job'[v] = job[v] /\ pc'[v] = pc[v]
    BY <1>0, <1>10 DEF SendReturn, Job
  <2>3. mail[m].lease = job[w].lease
    BY <2>1, SendersOwnRow DEF SendUnderLease, HoldsLease
  <2>4. accepted[m] < mail[m].attempts
    BY <2>1, <2>3 DEF AttemptInv
  <2>5. /\ accepted'[m] = IF taken THEN accepted[m] + 1 ELSE accepted[m]
        /\ \A n \in Mails : n # m => accepted'[n] = accepted[n]
    BY <1>0, <2>1 DEF TypeOK
  <2>6. \A v \in Workers : v # w /\ pc[v] \in {"claimed", "sending", "finish"} =>
            job[v].lease # mail[m].lease
    BY <2>1, <2>3 DEF LeaseInv
  <2>7. \A n \in Mails : accepted'[n] >= accepted[n] /\ accepted'[n] <= mail[n].attempts
    BY <1>0, <2>4, <2>5 DEF AttemptInv
  <2>8. ok => accepted'[m] > 0
    BY <1>0, <1>10, <2>1, <2>5
  <2>9. \A n \in Mails : accepted'[n] \in Nat
    BY <1>0, <2>5
  <2> HIDE DEF m
  <2>10. ASSUME NEW v \in Workers, v # w
         PROVE  /\ pc'[v] \in {"claimed", "sending"} =>
                        /\ ~job'[v].ok
                        /\ mail'[job'[v].mail].lease = job'[v].lease =>
                                accepted'[job'[v].mail] < mail'[job'[v].mail].attempts
                /\ pc'[v] = "finish" /\ job'[v].ok => accepted'[job'[v].mail] > 0
    BY <1>0, <2>1, <2>2, <2>5, <2>6, <2>7, <2>9, <2>10 DEF AttemptInv
  <2>11. pc'[w] = "finish"
    BY <1>0, <2>1
  <2> QED BY <1>0, <2>1, <2>2, <2>7, <2>8, <2>9, <2>10, <2>11 DEF AttemptInv
<1>11. ASSUME NEW w \in Workers, FinishDelivery(w) PROVE AttemptInv'
  <2> DEFINE m == job[w].mail
  <2>1. /\ pc[w] = "finish" /\ pc'[w] = "idle" /\ accepted' = accepted /\ m \in Mails
        /\ \A v \in Workers : v # w => job'[v] = job[v] /\ pc'[v] = pc[v]
    BY <1>0, <1>11 DEF FinishDelivery
  <2>2. CASE mail' = mail
    BY <1>0, <2>1, <2>2 DEF AttemptInv
  <2>3. CASE /\ HoldsLease(m, job[w].lease)
             /\ mail'[m].lease = NoLease
             /\ mail'[m].attempts = mail[m].attempts
             /\ mail'[m].expiresAt = mail[m].expiresAt
             /\ \/ mail'[m].status = "sent" /\ job[w].ok
                \/ mail'[m].status = "pending"
                \/ mail'[m].status = "failed" /\ Exhausted(m) /\ mail'[m].completedAt = now
             /\ \A n \in Mails : n # m => mail'[n] = mail[n]
    BY <1>0, <2>1, <2>3 DEF AttemptInv, Exhausted
  <2> QED BY <1>11, <2>2, <2>3, FinishEffect
<1>12. ASSUME NEW w \in Workers, FinishLost(w) \/ Crash(w) PROVE AttemptInv'
  <2>1. /\ pc'[w] \notin {"claimed", "sending", "finish"} /\ UNCHANGED <<mail, accepted>>
        /\ \A v \in Workers : v # w => job'[v] = job[v] /\ pc'[v] = pc[v]
    BY <1>0, <1>12 DEF FinishLost, Crash
  <2> QED BY <1>0, <2>1 DEF AttemptInv
<1> QED
  BY <1>1, <1>2, <1>3, <1>4, <1>5, <1>6, <1>7, <1>8, <1>9, <1>10, <1>11, <1>12 DEF Next

\* The attempt invariant holds in every behaviour.
LEMMA AttemptInvariant == Spec => []AttemptInv
<1>1. Init => AttemptInv
  BY InitValues, ConstantsAssumption DEF AttemptInv
<1> QED BY <1>1, TypeCorrect, LeaseInvariant, AttemptInvStep, PTL DEF Spec

\* Crashes and lost answers cost attempts, so the provider accepts a mail at
\* most maxDeliveryAttempts times.
THEOREM DeliveriesAreBounded == Spec => []DeliveriesBounded
<1>1. AttemptInv => DeliveriesBounded
  BY DEF AttemptInv, DeliveriesBounded
<1> QED BY <1>1, AttemptInvariant, PTL

\* A mail is given up only when its attempts or its validity are used up, and
\* then nobody is sending it.
THEOREM FailuresAreDue == Spec => []FailedOnlyWhenDue
<1>1. TypeOK /\ LeaseInv /\ AttemptInv => FailedOnlyWhenDue
  BY SendersOwnRow DEF AttemptInv, FailedOnlyWhenDue, SendUnderLease, HoldsLease
<1> QED BY <1>1, TypeCorrect, LeaseInvariant, AttemptInvariant, PTL

----------------------------------------------------------------------------
\* Stale consumers cannot write

\* A row under a live lease changes only by its holder's write back.
LEMMA LiveRowStep ==
    ASSUME TypeOK, [Next]_vars, NEW m \in Mails,
           mail[m].status = "processing", mail[m].leasedUntil > now, mail'[m] # mail[m]
    PROVE  \E w \in Workers : /\ pc[w] = "finish" /\ pc'[w] = "idle"
                              /\ job[w].mail = m /\ job[w].lease = mail[m].lease
<1>0. now \in Int /\ mail[m].leasedUntil \in Int /\ ~(mail[m].leasedUntil <= now)
  BY DEF TypeOK, Row
<1>1. ASSUME mail' = mail PROVE FALSE
  BY <1>1
<1>2. ASSUME NEW n \in Mails, NEW ttl \in TTLs, EnqueueMail(n, ttl) PROVE FALSE
  BY <1>2, EnqueueEffect
<1>3. ASSUME ExpireStatement PROVE FALSE
  BY <1>0, <1>3, ExpireEffect DEF Expirable, Lapsed
<1>4. ASSUME NEW n \in Mails, ClaimStatement(n) PROVE FALSE
  BY <1>0, <1>4, ClaimEffect DEF Lapsed
<1>5. ASSUME NEW w \in Workers, FinishDelivery(w)
      PROVE  /\ pc[w] = "finish" /\ pc'[w] = "idle"
             /\ job[w].mail = m /\ job[w].lease = mail[m].lease
  <2>1. pc[w] = "finish" /\ pc'[w] = "idle"
    BY <1>5 DEF FinishDelivery, TypeOK
  <2>2. job[w].mail = m /\ HoldsLease(m, job[w].lease)
    BY <1>5, FinishEffect
  <2> QED BY <2>1, <2>2 DEF HoldsLease
<1>6. CASE Tick \/ UNCHANGED vars
  BY <1>1, <1>6 DEF Tick, vars
<1>7. ASSUME NEW w \in Workers,
             \/ ExpireMail(w) \/ ExpireLost(w) \/ ClaimMail(w) \/ ClaimLost(w) \/ ClaimNothing(w)
             \/ SendSkipped(w) \/ SendStart(w) \/ FinishLost(w)
             \/ Start(w) \/ Stop(w) \/ Exit(w) \/ Crash(w)
             \/ \E taken, ok \in BOOLEAN : SendReturn(w, taken, ok)
      PROVE  FALSE
  BY <1>1, <1>3, <1>4, <1>7
     DEF ExpireMail, ExpireLost, ClaimMail, ClaimLost, ClaimNothing, SendSkipped, SendStart,
         FinishLost, Start, Stop, Exit, Crash, SendReturn
<1> QED BY <1>2, <1>5, <1>6, <1>7 DEF Next

\* A consumer whose lease has lapsed or been taken over cannot overwrite the
\* state its successor works on.
THEOREM StaleConsumersCannotWrite == Spec => LeaseProtects
<1>1. TypeOK /\ [Next]_vars =>
        [\A m \in Mails :
            mail[m].status = "processing" /\ mail[m].leasedUntil > now /\ mail'[m] # mail[m] =>
                \E w \in Workers : /\ pc[w] = "finish" /\ pc'[w] = "idle"
                                   /\ job[w].mail = m /\ job[w].lease = mail[m].lease]_vars
  BY LiveRowStep
<1> QED BY <1>1, TypeCorrect, PTL DEF Spec, LeaseProtects

----------------------------------------------------------------------------
\* MailOutbox implements MailQueue

\* The outcome of a row under the refinement mapping.
LEMMA OutcomeOf ==
    ASSUME NEW m \in Mails
    PROVE  /\ mail[m].status = "none" => Outcome[m] = "absent"
           /\ mail[m].status \in {"pending", "processing"} => Outcome[m] = "open"
           /\ mail[m].status \in {"sent", "failed"} => Outcome[m] = mail[m].status
           /\ mail'[m].status = "none" => Outcome'[m] = "absent"
           /\ mail'[m].status \in {"pending", "processing"} => Outcome'[m] = "open"
           /\ mail'[m].status \in {"sent", "failed"} => Outcome'[m] = mail'[m].status
           /\ mail'[m] = mail[m] => Outcome'[m] = Outcome[m]
BY DEF Outcome

\* The mapped functions are functions on Mails.
LEMMA OutcomeFunctions ==
    /\ Outcome = [m \in Mails |-> Outcome[m]]
    /\ Outcome' = [m \in Mails |-> Outcome'[m]]
BY DEF Outcome

\* Every step of the outbox is a step of MailQueue or leaves it as it is.
LEMMA QueueStep ==
    ASSUME TypeOK, LeaseInv, AttemptInv, [Next]_vars
    PROVE  [Queue!QueueNext]_(Queue!queueVars)
<1> DEFINE Same == UNCHANGED <<Outcome, accepted>>
<1>0. /\ mail \in [Mails -> Row] /\ accepted \in [Mails -> Nat]
      /\ \A m \in Mails : mail[m].attempts \in Nat /\ accepted[m] \in Nat
      /\ MaxAttempts \in Nat
  BY ConstantsAssumption DEF TypeOK, Row
<1>1. ASSUME \A m \in Mails : Outcome'[m] = Outcome[m], UNCHANGED accepted PROVE Same
  BY <1>1, OutcomeFunctions
<1>2. Same => [Queue!QueueNext]_(Queue!queueVars)
  BY DEF Queue!queueVars
<1>3. UNCHANGED <<mail, accepted>> => Same
  BY DEF Outcome
<1>4. ASSUME NEW m \in Mails, NEW ttl \in TTLs, EnqueueMail(m, ttl)
      PROVE  Queue!Submit(m)
  <2>1. Outcome[m] = "absent" /\ Outcome'[m] = "open"
    BY <1>4, EnqueueEffect, OutcomeOf
  <2>2. \A n \in Mails : n # m => Outcome'[n] = Outcome[n]
    BY <1>4, EnqueueEffect, OutcomeOf
  <2>3. Outcome' = [Outcome EXCEPT ![m] = "open"]
    BY <2>1, <2>2, OutcomeFunctions
  <2> QED BY <1>4, <2>1, <2>3 DEF Queue!Submit, EnqueueMail
<1>5. ASSUME NEW S \in SUBSET Mails, NEW result \in {"sent", "failed"}, UNCHANGED accepted,
             \A m \in S : /\ Outcome[m] = "open" /\ Outcome'[m] = result
                          /\ result = "sent" => accepted[m] > 0,
             \A m \in Mails \ S : Outcome'[m] = Outcome[m]
      PROVE  Same \/ Queue!Close(S, result)
  <2>1. CASE S = {}
    BY <1>1, <1>5, <2>1
  <2>2. CASE S # {}
    <3>1. Outcome' = [m \in Mails |-> IF m \in S THEN result ELSE Outcome[m]]
      BY <1>5, OutcomeFunctions
    <3> QED BY <1>5, <2>2, <3>1 DEF Queue!Close
  <2> QED BY <2>1, <2>2
\* One expiry scan closes several mails.
<1>6. ASSUME ExpireStatement, UNCHANGED accepted
      PROVE  Same \/ \E S \in SUBSET Mails : Queue!Close(S, "failed")
  <2> DEFINE S == {m \in Mails : mail'[m] # mail[m]}
  <2>1. \A m \in S : Outcome[m] = "open" /\ Outcome'[m] = "failed"
    BY <1>6, ExpireEffect, OutcomeOf DEF Expirable, Lapsed
  <2>2. \A m \in Mails \ S : Outcome'[m] = Outcome[m]
    BY OutcomeOf
  <2>3. S \in SUBSET Mails
    OBVIOUS
  <2> HIDE DEF S
  <2> QED BY <1>5, <1>6, <2>1, <2>2, <2>3
<1>7. ASSUME NEW m \in Mails, ClaimStatement(m), UNCHANGED accepted PROVE Same
  <2>1. \A n \in Mails : Outcome'[n] = Outcome[n]
    BY <1>7, ClaimEffect, OutcomeOf DEF Lapsed
  <2> QED BY <1>1, <1>7, <2>1
<1>8. ASSUME NEW w \in Workers, NEW taken \in BOOLEAN, NEW ok \in BOOLEAN,
             SendReturn(w, taken, ok)
      PROVE  Same \/ Queue!Hand(job[w].mail)
  <2> DEFINE m == job[w].mail
  <2>1. /\ pc[w] = "sending" /\ mail' = mail /\ m \in Mails
        /\ accepted' = [accepted EXCEPT ![m] = IF taken THEN @ + 1 ELSE @]
    BY <1>8 DEF SendReturn, TypeOK
  <2>2. mail[m].lease = job[w].lease /\ mail[m].status = "processing"
    BY <2>1, SendersOwnRow DEF SendUnderLease, HoldsLease
  <2>3. Outcome[m] = "open" /\ accepted[m] < MaxAttempts
    BY <1>0, <2>1, <2>2, OutcomeOf DEF AttemptInv
  <2>4. Outcome' = Outcome
    BY <2>1 DEF Outcome
  <2>5. CASE taken
    BY <2>1, <2>3, <2>4, <2>5 DEF Queue!Hand
  <2>6. CASE ~taken
    <3>1. accepted' = accepted
      BY <1>0, <2>1, <2>6
    <3> QED BY <2>4, <3>1
  <2> QED BY <2>5, <2>6
<1>9. ASSUME NEW w \in Workers, FinishDelivery(w)
      PROVE  Same \/ \E S \in SUBSET Mails, result \in {"sent", "failed"} : Queue!Close(S, result)
  <2> DEFINE m == job[w].mail
  <2>1. pc[w] = "finish" /\ accepted' = accepted /\ m \in Mails
    BY <1>9 DEF FinishDelivery, TypeOK
  <2>2. CASE mail' = mail
    BY <1>3, <2>1, <2>2
  <2>3. CASE /\ mail[m].status = "processing"
             /\ \/ mail'[m].status = "sent" /\ job[w].ok
                \/ mail'[m].status \in {"pending", "failed"}
             /\ \A n \in Mails : n # m => mail'[n] = mail[n]
    <3>1. Outcome[m] = "open" /\ \A n \in Mails \ {m} : Outcome'[n] = Outcome[n]
      BY <2>1, <2>3, OutcomeOf
    <3>2. CASE mail'[m].status = "pending"
      <4>1. Outcome'[m] = "open"
        BY <2>1, <3>2, OutcomeOf
      <4> QED BY <1>1, <2>1, <3>1, <4>1
    <3>3. CASE mail'[m].status = "failed"
      <4>1. Outcome'[m] = "failed"
        BY <2>1, <3>3, OutcomeOf
      <4>2. Same \/ Queue!Close({m}, "failed")
        BY <1>5, <2>1, <3>1, <4>1
      <4> QED BY <2>1, <4>2
    <3>4. CASE mail'[m].status = "sent" /\ job[w].ok
      <4>1. Outcome'[m] = "sent" /\ accepted[m] > 0
        BY <2>1, <3>4, OutcomeOf DEF AttemptInv
      <4>2. Same \/ Queue!Close({m}, "sent")
        BY <1>5, <2>1, <3>1, <4>1
      <4> QED BY <2>1, <4>2
    <3> QED BY <2>3, <3>2, <3>3, <3>4
  <2> QED BY <1>9, <2>2, <2>3, FinishEffect DEF HoldsLease
<1>10. CASE Tick \/ UNCHANGED vars
  BY <1>2, <1>3, <1>10 DEF Tick, vars
<1>11. ASSUME NEW w \in Workers,
              \/ ClaimNothing(w) \/ SendSkipped(w) \/ SendStart(w) \/ FinishLost(w)
              \/ Start(w) \/ Stop(w) \/ Exit(w) \/ Crash(w)
       PROVE  Same
  BY <1>3, <1>11 DEF ClaimNothing, SendSkipped, SendStart, FinishLost, Start, Stop, Exit, Crash
<1>12. ASSUME NEW w \in Workers, ClaimMail(w) \/ ClaimLost(w) PROVE Same
  BY <1>7, <1>12 DEF ClaimMail, ClaimLost
<1>13. ASSUME NEW w \in Workers, ExpireMail(w) \/ ExpireLost(w)
       PROVE  Same \/ \E S \in SUBSET Mails : Queue!Close(S, "failed")
  BY <1>6, <1>13 DEF ExpireMail, ExpireLost
<1>14. /\ \A m \in Mails : Queue!Submit(m) \/ Queue!Hand(m) => Queue!QueueNext
       /\ \A S \in SUBSET Mails, result \in {"sent", "failed"} :
            Queue!Close(S, result) => Queue!QueueNext
  BY DEF Queue!QueueNext
<1>15. ASSUME NEW w \in Workers, NEW taken \in BOOLEAN, NEW ok \in BOOLEAN,
              SendReturn(w, taken, ok)
       PROVE  Same \/ Queue!QueueNext
  <2>1. job[w].mail \in Mails
    BY <1>15 DEF SendReturn, TypeOK
  <2> QED BY <1>8, <1>14, <1>15, <2>1
<1> HIDE DEF Same
<1> QED
  BY <1>2, <1>4, <1>9, <1>10, <1>11, <1>12, <1>13, <1>14, <1>15 DEF Next

\* Seen from the code that enqueues, the workers, leases and retries behave
\* like the plain queue of MailQueue.
THEOREM OutboxImplementsQueue == Spec => ImplementsQueue
<1>1. Init => Queue!QueueInit
  <2> SUFFICES ASSUME Init PROVE Queue!QueueInit
    OBVIOUS
  <2>1. \A m \in Mails : Outcome[m] = "absent"
    BY InitValues, OutcomeOf
  <2>2. Outcome = [m \in Mails |-> "absent"]
    BY <2>1, OutcomeFunctions
  <2> QED BY <2>2 DEF Init, Queue!QueueInit
<1> QED
  BY <1>1, QueueStep, TypeCorrect, LeaseInvariant, AttemptInvariant, PTL
     DEF Spec, ImplementsQueue, Queue!QueueSpec
=============================================================================
