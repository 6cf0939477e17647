-------------------------- MODULE LoadLimitsProofs --------------------------
(***************************************************************************)
(* Proofs about what bounds the load of callers: the rate limits, for any  *)
(* limits, windows, lateness of statements and numbers of calls, and the   *)
(* slots of the hasher, for any numbers of slots and callers.              *)
(***************************************************************************)
EXTENDS RateLimit, Hasher, FiniteSetTheorems, SequenceTheorems, TLAPS

\* The types of what the proof speaks about.
LimitTypes ==
  /\ now \in Nat
  /\ bucket \in [Buckets -> [count : Nat, expires : Nat, opened : Nat]]
  /\ call \in [Requests -> [at : Buckets \union {"idle"}, start : Nat]]
  /\ promise \in [Buckets -> [until : Nat, opened : Nat]]

\* A window ends a window's length after it began, a statement is never ahead of
\* the clock, and what a refused caller was told is not before the end of the
\* window it ran into.
LimitInv ==
  /\ LimitTypes
  /\ \A b \in Buckets : bucket[b].count > 0 => bucket[b].expires = bucket[b].opened + Ticks(b)
  /\ \A b \in Buckets : bucket[b].count = 0 => bucket[b].expires = 0
  /\ \A r \in Requests : call[r].start <= now
  /\ \A b \in Buckets : promise[b].until > 0 => promise[b].opened + Ticks(b) <= promise[b].until

----------------------------------------------------------------------------
\* Windows have a length in ticks.
LEMMA TicksType == \A b \in Buckets : Ticks(b) \in Nat
BY LimitConstants DEF Ticks

\* The smaller and the larger of two numbers.
LEMMA MinMax ==
  ASSUME NEW x \in Int, NEW y \in Int
  PROVE  /\ Min({x, y}) = IF x <= y THEN x ELSE y
         /\ Max({x, y}) = IF x >= y THEN x ELSE y
BY DEF Min, Max

\* Rounding up to seconds never shortens the wait (ceil in RateLimit).
LEMMA RoundedUp ==
  ASSUME NEW d \in Nat \ {0}, NEW x \in Int
  PROVE  /\ (x + d - 1) \div d \in Int
         /\ d * ((x + d - 1) \div d) >= x
BY SMTT(30)

\* The promised time is at least what is left of the window, and positive.
LEMMA RetryCovers ==
  ASSUME NEW expires \in Nat, NEW t \in Nat
  PROVE  /\ TicksPerSecond * RetryAfter(expires, t) \in Nat \ {0}
         /\ TicksPerSecond * RetryAfter(expires, t) >= expires - t
<1> DEFINE q == (expires - t + TicksPerSecond - 1) \div TicksPerSecond
<1>1. TicksPerSecond \in Nat \ {0} /\ expires - t \in Int
  BY LimitConstants
<1>2. q \in Int /\ TicksPerSecond * q >= expires - t
  BY <1>1, RoundedUp
<1>3. RetryAfter(expires, t) = Max({1, q})
  BY DEF RetryAfter
<1> HIDE DEF q
<1>4. RetryAfter(expires, t) = IF 1 >= q THEN 1 ELSE q
  <2>1. 1 \in Int
    OBVIOUS
  <2>2. Max({1, q}) = IF 1 >= q THEN 1 ELSE q
    BY <1>2, <2>1, MinMax, Zenon
  <2> QED
    BY <1>3, <2>2
<1>5. CASE 1 >= q
  <2>1. RetryAfter(expires, t) = 1
    BY <1>4, <1>5
  <2>2. TicksPerSecond * q <= TicksPerSecond
    BY <1>1, <1>2, <1>5
  <2> QED
    BY <1>1, <1>2, <2>1, <2>2
<1>6. CASE ~(1 >= q)
  <2>1. RetryAfter(expires, t) = q /\ q \in Nat \ {0}
    BY <1>2, <1>4, <1>6
  <2>2. TicksPerSecond * q \in Nat \ {0}
    BY <1>1, <2>1
  <2> QED
    BY <1>2, <2>1, <2>2
<1> QED
  BY <1>5, <1>6

\* The row that the statement leaves: a window keeps its beginning and end until it
\* is over, and is counted in.
LEMMA UpsertRow ==
  ASSUME LimitInv, NEW b \in Buckets, NEW t \in Nat
  PROVE  LET row == Upsert(b, t)
         IN /\ row \in [count : Nat, expires : Nat, opened : Nat]
            /\ row.count > 0
            /\ row.expires = row.opened + Ticks(b)
<1>1. Ticks(b) \in Nat
  BY TicksType
<1>2. bucket[b] \in [count : Nat, expires : Nat, opened : Nat]
  BY DEF LimitInv, LimitTypes
<1>3. CASE bucket[b].count = 0 \/ bucket[b].expires <= t
  BY <1>1, <1>2, <1>3 DEF Upsert
<1>4. CASE ~(bucket[b].count = 0 \/ bucket[b].expires <= t)
  <2> DEFINE n == Min({bucket[b].count + 1, CountCap})
  <2>1. n \in Nat /\ n > 0
    <3>1. CountCap \in Nat /\ CountCap > 0
      BY LimitConstants DEF Buckets
    <3> QED
      BY <1>2, <3>1, MinMax
  <2>2. Upsert(b, t) = [bucket[b] EXCEPT !.count = n]
    BY <1>4 DEF Upsert
  <2> HIDE DEF n
  <2>3. bucket[b].expires = bucket[b].opened + Ticks(b)
    BY <1>2, <1>4 DEF LimitInv
  <2> QED
    BY <1>2, <2>1, <2>2, <2>3
<1> QED
  BY <1>3, <1>4

----------------------------------------------------------------------------
\* Before the first call there is no row and nothing was promised.
LEMMA LimitInit == Init => LimitInv
BY DEF Init, LimitInv, LimitTypes, Buckets

\* A statement of r on bucket b, whatever becomes of the call.
LEMMA Applied ==
  ASSUME LimitInv, NEW r \in Requests, NEW b \in Buckets,
         bucket' = [bucket EXCEPT ![b] = Upsert(b, call[r].start)]
  PROVE  /\ bucket' \in [Buckets -> [count : Nat, expires : Nat, opened : Nat]]
         /\ \A c \in Buckets : bucket'[c].count > 0 =>
                                 bucket'[c].expires = bucket'[c].opened + Ticks(c)
         /\ \A c \in Buckets : bucket'[c].count = 0 => bucket'[c].expires = 0
<1>1. call[r].start \in Nat
  BY DEF LimitInv, LimitTypes
<1> DEFINE row == Upsert(b, call[r].start)
<1>2. /\ row \in [count : Nat, expires : Nat, opened : Nat]
      /\ row.count > 0
      /\ row.expires = row.opened + Ticks(b)
  BY <1>1, UpsertRow
<1>3. bucket' = [bucket EXCEPT ![b] = row]
  OBVIOUS
<1> HIDE DEF row
<1> QED
  BY <1>2, <1>3 DEF LimitInv, LimitTypes

\* Every step keeps the invariant.
LEMMA LimitStep == LimitInv /\ [Next]_vars => LimitInv'
<1> SUFFICES ASSUME LimitInv, [Next]_vars PROVE LimitInv'
  OBVIOUS
<1>1. ASSUME NEW r \in Requests, Begin(r) PROVE LimitInv'
  BY <1>1 DEF Begin, LimitInv, LimitTypes, Buckets
<1>2. ASSUME NEW r \in Requests, NEW b \in Buckets, Pass(r, b) PROVE LimitInv'
  <2>1. bucket' = [bucket EXCEPT ![b] = Upsert(b, call[r].start)] /\ UNCHANGED <<now, promise>>
    BY <1>2 DEF Pass
  <2>2. /\ call' \in [Requests -> [at : Buckets \union {"idle"}, start : Nat]]
        /\ \A q \in Requests : call'[q].start <= now
    <3>1. PICK next \in AfterPassing(b) : call' = [call EXCEPT ![r] = next]
      BY <1>2 DEF Pass
    <3>2. next \in [at : Buckets \union {"idle"}, start : Nat] /\ next.start <= now
      BY DEF AfterPassing, Idle, LimitInv, LimitTypes, Buckets
    <3> QED
      BY <3>1, <3>2 DEF LimitInv, LimitTypes
  <2> QED
    BY <2>1, <2>2, Applied DEF LimitInv, LimitTypes
<1>3. ASSUME NEW r \in Requests, NEW b \in Buckets, Refuse(r, b) PROVE LimitInv'
  <2> DEFINE row == Upsert(b, call[r].start)
             wait == TicksPerSecond * RetryAfter(row.expires, call[r].start)
  <2>1. bucket' = [bucket EXCEPT ![b] = row] /\ UNCHANGED now
    BY <1>3 DEF Refuse
  <2>2. /\ call' \in [Requests -> [at : Buckets \union {"idle"}, start : Nat]]
        /\ \A q \in Requests : call'[q].start <= now
    BY <1>3 DEF Refuse, Idle, LimitInv, LimitTypes
  <2>3. promise' = [promise EXCEPT ![b] = [until |-> now + wait, opened |-> row.opened]]
    BY <1>3 DEF Refuse
  <2>4. call[r].start \in Nat /\ call[r].start <= now /\ now \in Nat
    BY DEF LimitInv, LimitTypes
  <2>5. /\ row \in [count : Nat, expires : Nat, opened : Nat]
        /\ row.expires = row.opened + Ticks(b)
    BY <2>4, UpsertRow
  <2>6. row.expires \in Nat /\ row.opened \in Nat
    BY <2>5
  <2>7. wait \in Nat \ {0} /\ wait >= row.expires - call[r].start
    BY <2>4, <2>6, RetryCovers
  <2>8. promise' \in [Buckets -> [until : Nat, opened : Nat]]
    BY <2>3, <2>4, <2>6, <2>7 DEF LimitInv, LimitTypes
  <2>9. \A c \in Buckets : promise'[c].until > 0 => promise'[c].opened + Ticks(c) <= promise'[c].until
    <3> HIDE DEF row, wait
    <3>1. promise'[b].until = now + wait /\ promise'[b].opened = row.opened
      BY <2>3 DEF LimitInv, LimitTypes
    <3>2. \A c \in Buckets \ {b} : promise'[c] = promise[c]
      BY <2>3 DEF LimitInv, LimitTypes
    <3>3. row.opened + Ticks(b) <= now + wait
      BY <2>4, <2>5, <2>6, <2>7, TicksType
    <3> QED
      BY <3>1, <3>2, <3>3 DEF LimitInv
  <2> HIDE DEF wait
  <2> QED
    BY <2>1, <2>2, <2>8, <2>9, Applied DEF LimitInv, LimitTypes
<1>4. ASSUME NEW r \in Requests, NEW b \in Buckets, Lose(r, b) PROVE LimitInv'
  <2>1. /\ UNCHANGED <<now, promise>>
        /\ call' \in [Requests -> [at : Buckets \union {"idle"}, start : Nat]]
        /\ \A q \in Requests : call'[q].start <= now
    BY <1>4 DEF Lose, Idle, LimitInv, LimitTypes
  <2>2. CASE bucket' = [bucket EXCEPT ![b] = Upsert(b, call[r].start)]
    BY <2>1, <2>2, Applied DEF LimitInv, LimitTypes
  <2>3. CASE UNCHANGED bucket
    BY <2>1, <2>3 DEF LimitInv, LimitTypes
  <2> QED
    BY <1>4, <2>2, <2>3 DEF Lose
<1>5. CASE Tick
  BY <1>5 DEF Tick, LimitInv, LimitTypes
<1>6. CASE UNCHANGED vars
  BY <1>6 DEF vars, LimitInv, LimitTypes
<1> QED
  BY <1>1, <1>2, <1>3, <1>4, <1>5, <1>6 DEF Next

\* The invariant holds in every reachable state.
LEMMA LimitInvariant == Spec => []LimitInv
BY LimitInit, LimitStep, PTL DEF Spec

----------------------------------------------------------------------------
\* When the time that a refused caller was told has come, the window it ran into is
\* over, whatever statements were applied meanwhile (limit, RateLimit).
THEOREM RetryAfterIsHonest == Spec => []RetryHonest
<1>1. LimitInv => RetryHonest
  <2> SUFFICES ASSUME LimitInv, NEW b \in Buckets, promise[b].until > 0,
                      now >= promise[b].until, bucket[b].opened = promise[b].opened
               PROVE  bucket[b].expires <= now
    BY DEF RetryHonest
  <2>1. /\ bucket[b].count \in Nat /\ bucket[b].expires \in Nat /\ bucket[b].opened \in Nat
        /\ promise[b].until \in Nat /\ now \in Nat /\ Ticks(b) \in Nat
    BY TicksType DEF LimitInv, LimitTypes
  <2>2. promise[b].opened + Ticks(b) <= promise[b].until
    BY DEF LimitInv
  <2>3. CASE bucket[b].count = 0
    BY <2>1, <2>3 DEF LimitInv
  <2>4. CASE bucket[b].count > 0
    BY <2>1, <2>2, <2>4 DEF LimitInv
  <2> QED
    BY <2>1, <2>3, <2>4
<1> QED
  BY <1>1, LimitInvariant, PTL

----------------------------------------------------------------------------
(***************************************************************************)
(* The quota of any stretch of time.  A window numbers its calls, and they *)
(* pass within its length and what a statement may wait; windows are a     *)
(* length apart, so that no three of them meet in one stretch.             *)
(***************************************************************************)

\* What is known of a call that passed: when it may have, and that its window is
\* the present one, or over before the present one began.
PassInv(b, s) ==
  /\ s.at <= now /\ s.opened <= s.at /\ s.at < s.opened + Ticks(b) + MaxWait
  /\ 1 <= s.count /\ s.count <= Limit[b]
  /\ bucket[b].count > 0
  /\ \/ s.opened + Ticks(b) <= bucket[b].opened
     \/ s.opened = bucket[b].opened /\ s.count <= bucket[b].count

\* Two calls that passed: windows do not overlap, and a window numbers its calls.
PairInv(b, s, u) ==
  /\ \/ s.opened = u.opened
     \/ s.opened + Ticks(b) <= u.opened
     \/ u.opened + Ticks(b) <= s.opened
  /\ s.opened = u.opened /\ s.count = u.count => s = u

Passes == [at : Nat, opened : Nat, count : Nat]

QuotaInv ==
  /\ LimitInv
  /\ served \in [Buckets -> SUBSET Passes]
  /\ \A r \in Requests : call[r].at # "idle" => now <= call[r].start + MaxWait
  /\ \A b \in Buckets : bucket[b].opened <= now
  /\ \A b \in Buckets : \A s \in served[b] : PassInv(b, s)
  /\ \A b \in Buckets : \A s, u \in served[b] : PairInv(b, s, u)

\* The numbers that the proof is about.
LEMMA QuotaConstants ==
  /\ MaxWait \in Nat \ {0} /\ CountCap \in Nat
  /\ \A b \in Buckets : Ticks(b) \in Nat \ {0} /\ Limit[b] \in Nat /\ Limit[b] < CountCap
<1>1. \A m, n \in Nat \ {0} : m * n \in Nat \ {0}
  OBVIOUS
<1>2. \A b \in Buckets : Window[b] \in Nat \ {0} /\ TicksPerSecond \in Nat \ {0}
  BY LimitConstants
<1>3. \A b \in Buckets : Ticks(b) \in Nat \ {0}
  BY <1>1, <1>2 DEF Ticks
<1> QED BY <1>3, LimitConstants

\* The row that the statement leaves, against the row that it found.
LEMMA UpsertMoves ==
  ASSUME QuotaInv, NEW b \in Buckets, NEW t \in Nat, t <= now
  PROVE  LET row == Upsert(b, t)
         IN /\ row.opened <= now /\ t < row.opened + Ticks(b)
            /\ bucket[b].count > 0 =>
                 \/ bucket[b].opened + Ticks(b) <= row.opened
                 \/ /\ row.opened = bucket[b].opened
                    /\ row.count = bucket[b].count + 1 \/ row.count = CountCap
<1>1. /\ Ticks(b) \in Nat \ {0} /\ CountCap \in Nat /\ now \in Nat
      /\ bucket[b] \in [count : Nat, expires : Nat, opened : Nat] /\ bucket[b].opened <= now
      /\ bucket[b].count > 0 => bucket[b].expires = bucket[b].opened + Ticks(b)
  BY QuotaConstants DEF QuotaInv, LimitInv, LimitTypes
<1>2. CASE bucket[b].count = 0 \/ bucket[b].expires <= t
  <2>1. Upsert(b, t).opened = t
    BY <1>2 DEF Upsert
  <2> QED BY <1>1, <1>2, <2>1
<1>3. CASE ~(bucket[b].count = 0 \/ bucket[b].expires <= t)
  <2> DEFINE n == Min({bucket[b].count + 1, CountCap})
  <2>1. n = bucket[b].count + 1 \/ n = CountCap
    BY <1>1, MinMax
  <2>2. Upsert(b, t) = [bucket[b] EXCEPT !.count = n]
    BY <1>3 DEF Upsert
  <2> HIDE DEF n
  <2>3. Upsert(b, t).opened = bucket[b].opened /\ Upsert(b, t).count = n
    BY <1>1, <2>2
  <2> QED BY <1>1, <1>3, <2>1, <2>3
<1> QED BY <1>2, <1>3

\* A statement leaves what is known of the earlier passes true.
LEMMA AppliedPasses ==
  ASSUME QuotaInv, NEW r \in Requests, NEW b \in Buckets, UNCHANGED now,
         bucket' = [bucket EXCEPT ![b] = Upsert(b, call[r].start)]
  PROVE  /\ \A c \in Buckets : bucket'[c].opened <= now
         /\ \A c \in Buckets : \A s \in served[c] : PassInv(c, s)'
<1>1. call[r].start \in Nat /\ call[r].start <= now /\ LimitInv
  BY DEF QuotaInv, LimitInv, LimitTypes
<1> DEFINE row == Upsert(b, call[r].start)
<1>2. /\ row.opened <= now
      /\ bucket[b].count > 0 =>
           \/ bucket[b].opened + Ticks(b) <= row.opened
           \/ /\ row.opened = bucket[b].opened
              /\ row.count = bucket[b].count + 1 \/ row.count = CountCap
  BY <1>1, UpsertMoves
<1>3. row.count \in Nat /\ row.count > 0 /\ row.opened \in Nat
  BY <1>1, UpsertRow
<1>4. bucket'[b] = row /\ \A c \in Buckets \ {b} : bucket'[c] = bucket[c]
  BY <1>1 DEF LimitInv, LimitTypes
<1> HIDE DEF row
<1>5. \A c \in Buckets : bucket'[c].opened <= now
  BY <1>2, <1>4 DEF QuotaInv
<1>6. ASSUME NEW c \in Buckets, NEW s \in served[c] PROVE PassInv(c, s)'
  <2>1. PassInv(c, s) /\ s \in Passes
    BY DEF QuotaInv
  <2>2. CASE c # b
    BY <1>4, <2>1, <2>2 DEF PassInv, Ticks
  <2>3. CASE c = b
    <3>1. /\ bucket[b].opened \in Nat /\ bucket[b].count \in Nat /\ s.opened \in Nat
          /\ s.count \in Nat /\ Ticks(b) \in Nat /\ Limit[b] \in Nat /\ Limit[b] < CountCap
          /\ CountCap \in Nat
      BY <1>1, <2>1, QuotaConstants DEF LimitInv, LimitTypes, Passes
    <3>2. /\ bucket[b].count > 0 /\ s.count <= Limit[b]
          /\ \/ s.opened + Ticks(b) <= bucket[b].opened
             \/ s.opened = bucket[b].opened /\ s.count <= bucket[b].count
      BY <2>1, <2>3 DEF PassInv
    <3>3. \/ s.opened + Ticks(b) <= row.opened
          \/ s.opened = row.opened /\ s.count <= row.count
      BY <1>2, <1>3, <3>1, <3>2
    <3> QED BY <1>3, <1>4, <2>1, <2>3, <3>3 DEF PassInv, Ticks
  <2> QED BY <2>2, <2>3
<1> QED BY <1>5, <1>6

\* A call that passes has a number of its own in its window: the history counts
\* every one of them.
LEMMA PassesAreNew ==
  ASSUME QuotaInv, NEW r \in Requests, NEW b \in Buckets, Pass(r, b), NEW new,
         new = [at |-> now, opened |-> Upsert(b, call[r].start).opened,
                count |-> Upsert(b, call[r].start).count]
  PROVE  /\ new \in Passes /\ PassInv(b, new)'
         /\ \A s \in served[b] : /\ s.opened = new.opened => s.count < new.count
                                 /\ PairInv(b, s, new) /\ PairInv(b, new, s)
<1> DEFINE row == Upsert(b, call[r].start)
<1>0. new = [at |-> now, opened |-> row.opened, count |-> row.count]
  OBVIOUS
<1>1. /\ call[r].start \in Nat /\ call[r].start <= now /\ LimitInv /\ now \in Nat
      /\ now <= call[r].start + MaxWait
  <2>1. call[r].at # "idle"
    BY DEF Pass, Buckets
  <2> QED BY <2>1 DEF QuotaInv, LimitInv, LimitTypes
<1>2. /\ row.opened <= now /\ call[r].start < row.opened + Ticks(b)
      /\ bucket[b].count > 0 =>
           \/ bucket[b].opened + Ticks(b) <= row.opened
           \/ /\ row.opened = bucket[b].opened
              /\ row.count = bucket[b].count + 1 \/ row.count = CountCap
  BY <1>1, UpsertMoves
<1>3. row.count \in Nat /\ row.count > 0 /\ row.opened \in Nat
  BY <1>1, UpsertRow
<1>4. row.count <= Limit[b] /\ bucket'[b] = row /\ UNCHANGED now
  BY <1>1 DEF Pass, LimitInv, LimitTypes
<1> HIDE DEF row
<1>5. /\ Ticks(b) \in Nat \ {0} /\ Limit[b] \in Nat /\ Limit[b] < CountCap /\ CountCap \in Nat
      /\ MaxWait \in Nat
  BY QuotaConstants
<1>6. new.at = now /\ new.opened = row.opened /\ new.count = row.count /\ new \in Passes
  BY <1>0, <1>1, <1>3 DEF Passes
<1>7. PassInv(b, new)'
  <2>1. now < row.opened + Ticks(b) + MaxWait
    BY <1>1, <1>2, <1>3, <1>5
  <2>2. 1 <= row.count /\ row.count <= row.count
    BY <1>3
  <2>3. /\ now' = now /\ bucket'[b].count = row.count /\ bucket'[b].opened = row.opened
        /\ now <= now
    BY <1>1, <1>4
  <2> QED BY <1>2, <1>3, <1>4, <1>6, <2>1, <2>2, <2>3 DEF PassInv, Ticks
<1>8. ASSUME NEW s \in served[b]
      PROVE  /\ s.opened = new.opened => s.count < new.count
             /\ PairInv(b, s, new) /\ PairInv(b, new, s)
  <2>1. /\ s.opened \in Nat /\ s.count \in Nat
        /\ bucket[b].opened \in Nat /\ bucket[b].count \in Nat
    BY <1>1 DEF QuotaInv, Passes, LimitInv, LimitTypes
  <2>2. /\ bucket[b].count > 0
        /\ \/ s.opened + Ticks(b) <= bucket[b].opened
           \/ s.opened = bucket[b].opened /\ s.count <= bucket[b].count
    BY DEF QuotaInv, PassInv
  <2>3. \/ s.opened + Ticks(b) <= row.opened
        \/ s.opened = row.opened /\ s.count < row.count
    BY <1>2, <1>3, <1>4, <1>5, <2>1, <2>2
  <2>4. s.opened = row.opened => s.count < row.count
    BY <1>3, <1>5, <2>1, <2>3
  <2>5. s.count # row.count \/ s.opened # row.opened
    BY <1>3, <2>1, <2>4
  <2> QED BY <1>6, <2>3, <2>4, <2>5 DEF PairInv
<1> QED BY <1>6, <1>7, <1>8

\* Every step keeps the invariant.
LEMMA QuotaStep == QuotaInv /\ [Next]_vars => QuotaInv'
<1> SUFFICES ASSUME QuotaInv, [Next]_vars PROVE QuotaInv'
  OBVIOUS
<1>0. /\ LimitInv /\ LimitInv' /\ MaxWait \in Nat /\ now \in Nat
      /\ served \in [Buckets -> SUBSET Passes]
      /\ call \in [Requests -> [at : Buckets \union {"idle"}, start : Nat]]
  BY LimitStep, QuotaConstants DEF QuotaInv, LimitInv, LimitTypes
<1>1. ASSUME NEW r \in Requests, Begin(r) PROVE QuotaInv'
  <2>1. UNCHANGED <<now, bucket, served>>
    BY <1>1 DEF Begin
  <2>2. \A q \in Requests : call'[q].at # "idle" => now <= call'[q].start + MaxWait
    BY <1>0, <1>1 DEF Begin, QuotaInv
  <2> QED BY <1>0, <2>1, <2>2 DEF QuotaInv, PassInv, PairInv, Ticks
<1>2. ASSUME NEW r \in Requests, NEW b \in Buckets, Pass(r, b) PROVE QuotaInv'
  <2> DEFINE row == Upsert(b, call[r].start)
  <2>1. PICK new : new = [at |-> now, opened |-> row.opened, count |-> row.count]
    OBVIOUS
  <2>2. /\ UNCHANGED now /\ bucket' = [bucket EXCEPT ![b] = row]
        /\ served' = [served EXCEPT ![b] = @ \union {new}]
    BY <1>2, <2>1 DEF Pass
  <2>3. \A q \in Requests : call'[q].at # "idle" => now <= call'[q].start + MaxWait
    <3>1. PICK next \in AfterPassing(b) : call' = [call EXCEPT ![r] = next]
      BY <1>2 DEF Pass
    <3>2. next.at # "idle" => now <= next.start + MaxWait
      BY <1>0, QuotaConstants DEF AfterPassing, Idle
    <3> QED
      BY <1>0, <3>1, <3>2 DEF QuotaInv
  <2>4. /\ new \in Passes /\ PassInv(b, new)'
        /\ \A s \in served[b] : PairInv(b, s, new) /\ PairInv(b, new, s)
    BY <1>2, <2>1, PassesAreNew
  <2>5. /\ \A c \in Buckets : bucket'[c].opened <= now
        /\ \A c \in Buckets : \A s \in served[c] : PassInv(c, s)'
    BY <2>2, AppliedPasses
  <2> HIDE DEF row
  <2>6. /\ served' \in [Buckets -> SUBSET Passes] /\ served'[b] = served[b] \union {new}
        /\ \A c \in Buckets \ {b} : served'[c] = served[c]
    BY <1>0, <2>2, <2>4
  <2>7. \A c \in Buckets : \A s \in served'[c] : PassInv(c, s)'
    BY <2>4, <2>5, <2>6
  <2>8. ASSUME NEW c \in Buckets, NEW s \in served'[c], NEW u \in served'[c]
        PROVE  PairInv(c, s, u)'
    <3>1. PairInv(c, s, u)
      <4>1. CASE s \in served[c] /\ u \in served[c]
        BY <4>1 DEF QuotaInv
      <4>2. CASE c = b /\ s = new /\ u = new
        BY <4>2 DEF PairInv
      <4> QED BY <2>4, <2>6, <4>1, <4>2
    <3> QED BY <3>1 DEF PairInv, Ticks
  <2> QED BY <1>0, <2>2, <2>3, <2>5, <2>6, <2>7, <2>8 DEF QuotaInv
<1>3. ASSUME NEW r \in Requests, NEW b \in Buckets, Refuse(r, b) \/ Lose(r, b) PROVE QuotaInv'
  <2>1. UNCHANGED <<now, served>>
    BY <1>3 DEF Refuse, Lose
  <2>2. \A q \in Requests : call'[q].at # "idle" => now <= call'[q].start + MaxWait
    BY <1>0, <1>3 DEF Refuse, Lose, Idle, QuotaInv
  <2>3. /\ \A c \in Buckets : bucket'[c].opened <= now
        /\ \A c \in Buckets : \A s \in served[c] : PassInv(c, s)'
    <3>1. CASE bucket' = [bucket EXCEPT ![b] = Upsert(b, call[r].start)]
      BY <2>1, <3>1, AppliedPasses
    <3>2. CASE UNCHANGED bucket
      BY <2>1, <3>2 DEF QuotaInv, PassInv, Ticks
    <3> QED BY <1>3, <3>1, <3>2 DEF Refuse, Lose
  <2>4. \A c \in Buckets : \A s, u \in served[c] : PairInv(c, s, u)'
    BY DEF QuotaInv, PairInv, Ticks
  <2> QED BY <1>0, <2>1, <2>2, <2>3, <2>4 DEF QuotaInv
<1>4. CASE Tick
  <2>1. now' = now + 1 /\ UNCHANGED <<bucket, call>>
    BY <1>4 DEF Tick
  <2>2. \A c \in Buckets : served'[c] \subseteq served[c]
    BY <1>4 DEF Tick
  <2>3. served' \in [Buckets -> SUBSET Passes]
    BY <1>0, <1>4 DEF Tick
  <2>4. \A q \in Requests : call'[q].at # "idle" => now' <= call'[q].start + MaxWait
    BY <1>0, <1>4, <2>1 DEF Tick
  <2>5. \A c \in Buckets : bucket'[c].opened <= now'
    BY <1>0, <2>1 DEF QuotaInv, LimitInv, LimitTypes
  <2>6. ASSUME NEW c \in Buckets, NEW s \in served'[c] PROVE PassInv(c, s)'
    <3>1. PassInv(c, s) /\ s.at \in Nat
      BY <1>0, <2>2 DEF QuotaInv, Passes
    <3>2. s.at <= now'
      BY <1>0, <2>1, <3>1 DEF PassInv
    <3> QED BY <2>1, <3>1, <3>2 DEF PassInv, Ticks
  <2>7. \A c \in Buckets : \A s, u \in served'[c] : PairInv(c, s, u)'
    BY <2>2 DEF QuotaInv, PairInv, Ticks
  <2> QED BY <1>0, <2>3, <2>4, <2>5, <2>6, <2>7 DEF QuotaInv
<1>5. CASE UNCHANGED vars
  BY <1>0, <1>5 DEF vars, QuotaInv, PassInv, PairInv, Ticks
<1> QED BY <1>1, <1>2, <1>3, <1>4, <1>5 DEF Next

\* The invariant holds in every reachable state.
LEMMA QuotaInvariant == Spec => []QuotaInv
<1>1. Init => QuotaInv
  BY LimitInit DEF Init, QuotaInv, Passes, Buckets
<1> QED BY <1>1, QuotaStep, PTL DEF Spec

\* A window lets no more calls pass than its limit.
LEMMA WindowLoad ==
  ASSUME QuotaInv, NEW b \in Buckets, NEW o
  PROVE  LET load == {s \in served[b] : s.opened = o}
         IN IsFiniteSet(load) /\ Cardinality(load) \in Nat /\ Cardinality(load) <= Limit[b]
<1> DEFINE load == {s \in served[b] : s.opened = o}
           f == [s \in load |-> s.count]
<1>1. Limit[b] \in Nat /\ served[b] \subseteq Passes
  BY QuotaConstants DEF QuotaInv
<1>2. ASSUME NEW s \in load PROVE s.count \in 1..Limit[b]
  BY <1>1 DEF QuotaInv, PassInv, Passes
<1>3. f \in [load -> 1..Limit[b]]
  BY <1>2
<1>4. \A s, u \in load : f[s] = f[u] => s = u
  BY DEF QuotaInv, PairInv
<1>5. f \in Injection(load, 1..Limit[b])
  BY <1>3, <1>4 DEF Injection, IsInjective
<1>6. IsFiniteSet(1..Limit[b]) /\ Cardinality(1..Limit[b]) = Limit[b]
  BY <1>1, FS_Interval
<1> HIDE DEF load, f
<1>7. IsFiniteSet(load) /\ Cardinality(load) <= Limit[b]
  BY <1>5, <1>6, FS_Injection
<1> QED BY <1>7, FS_CardinalityType DEF load

\* In any stretch of time that is shorter than the window by what a statement may
\* wait, at most two windows' worth of calls pass, in whatever order concurrent
\* statements are applied (limit, RateLimit).
THEOREM QuotaHolds == Spec => []SlidingQuota
<1>1. QuotaInv => SlidingQuota
  <2> SUFFICES ASSUME QuotaInv, NEW b \in Buckets
               PROVE  Cardinality({s \in served[b] : Recent(b, s.at, now)}) <= 2 * Limit[b]
    BY DEF SlidingQuota
  <2> DEFINE recent == {s \in served[b] : Recent(b, s.at, now)}
             Load(o) == {s \in served[b] : s.opened = o}
  <2>1. /\ now \in Nat /\ MaxWait \in Nat /\ Ticks(b) \in Nat \ {0} /\ Limit[b] \in Nat
        /\ \A s \in recent : s \in Passes /\ PassInv(b, s)
        /\ \A s, u \in recent : PairInv(b, s, u)
    BY QuotaConstants DEF QuotaInv, LimitInv, LimitTypes
  <2>2. ASSUME NEW s \in recent, NEW u \in recent, NEW v \in recent,
               s.opened + Ticks(b) <= u.opened, u.opened + Ticks(b) <= v.opened
        PROVE  FALSE
    <3>1. /\ s.at \in Nat /\ s.opened \in Nat /\ u.opened \in Nat /\ v.opened \in Nat /\ v.at \in Nat
          /\ s.at < s.opened + Ticks(b) + MaxWait /\ v.opened <= v.at /\ v.at <= now
      BY <2>1 DEF PassInv, Passes
    <3>2. now + MaxWait <= s.at + Ticks(b)
      BY DEF Recent
    <3> QED BY <2>1, <2>2, <3>1, <3>2
  <2>3. \E o, p : recent \subseteq Load(o) \union Load(p)
    <3>1. CASE \E s, u \in recent : s.opened # u.opened
      <4>1. PICK s \in recent, u \in recent : s.opened # u.opened
        BY <3>1
      <4>2. ASSUME NEW v \in recent PROVE v.opened = s.opened \/ v.opened = u.opened
        <5>1. PairInv(b, s, u) /\ PairInv(b, s, v) /\ PairInv(b, u, v)
          BY <2>1
        <5>2. /\ s.opened + Ticks(b) <= u.opened \/ u.opened + Ticks(b) <= s.opened
              /\ \/ s.opened = v.opened \/ s.opened + Ticks(b) <= v.opened
                 \/ v.opened + Ticks(b) <= s.opened
              /\ \/ u.opened = v.opened \/ u.opened + Ticks(b) <= v.opened
                 \/ v.opened + Ticks(b) <= u.opened
          BY <4>1, <5>1 DEF PairInv
        <5>3. s.opened \in Nat /\ u.opened \in Nat /\ v.opened \in Nat
          BY <2>1 DEF Passes
        <5> HIDE DEF recent
        <5> QED BY <2>1, <2>2, <5>2, <5>3
      <4>3. recent \subseteq Load(s.opened) \union Load(u.opened)
        BY <4>2
      <4> QED BY <4>3
    <3>2. CASE \A s, u \in recent : s.opened = u.opened
      <4>1. CASE recent = {}
        BY <4>1
      <4>2. ASSUME NEW s \in recent PROVE recent \subseteq Load(s.opened) \union Load(s.opened)
        BY <3>2
      <4> QED BY <4>1, <4>2
    <3> QED BY <3>1, <3>2
  <2>4. PICK o, p : recent \subseteq Load(o) \union Load(p)
    BY <2>3
  <2>5. /\ IsFiniteSet(Load(o)) /\ Cardinality(Load(o)) \in Nat /\ Cardinality(Load(o)) <= Limit[b]
        /\ IsFiniteSet(Load(p)) /\ Cardinality(Load(p)) \in Nat /\ Cardinality(Load(p)) <= Limit[b]
    BY WindowLoad
  <2> HIDE DEF recent, Load
  <2>6. PICK A, B : A = Load(o) /\ B = Load(p)
    OBVIOUS
  <2>7. /\ IsFiniteSet(A \union B) /\ IsFiniteSet(A \cap B)
        /\ Cardinality(A \union B) = Cardinality(A) + Cardinality(B) - Cardinality(A \cap B)
    BY <2>5, <2>6, FS_Union, FS_Intersection
  <2>8. Cardinality(A \cap B) \in Nat /\ Cardinality(A \union B) \in Nat
    BY <2>7, FS_CardinalityType
  <2>9. Cardinality(A \union B) <= 2 * Limit[b]
    BY <2>1, <2>5, <2>6, <2>7, <2>8
  <2>10. Cardinality(recent) <= Cardinality(A \union B) /\ Cardinality(recent) \in Nat
    BY <2>4, <2>6, <2>7, FS_Subset, FS_CardinalityType
  <2>11. Cardinality(recent) <= 2 * Limit[b]
    BY <2>1, <2>8, <2>9, <2>10
  <2> QED BY <2>11 DEF recent
<1> QED BY <1>1, QuotaInvariant, PTL

----------------------------------------------------------------------------
(***************************************************************************)
(* The slots of the hasher.  A caller is in the queue at most once, so that*)
(* leaving it, by being served or by giving up, takes out that caller only.*)
(***************************************************************************)

\* The types, and no caller waits twice.
SlotTypes ==
  /\ used \in Nat
  /\ waiters \in Seq(Callers)
  /\ pc \in [Callers -> {"idle", "acquire", "waiting", "acquired", "working"}]

SlotInv ==
  /\ SlotTypes
  /\ SlotsHeld
  /\ \A i, j \in 1..Len(waiters) : waiters[i] = waiters[j] => i = j

\* A set is one larger with a new member, and one smaller without one of its own.
LEMMA CountHolders ==
  ASSUME NEW A, NEW B, NEW x, IsFiniteSet(A), x \notin A, B = A \union {x}
  PROVE  Cardinality(B) = Cardinality(A) + 1 /\ Cardinality(A) \in Nat
BY FS_AddElement, FS_CardinalityType

\* Holders are callers.
LEMMA HoldersFinite == ASSUME IsFiniteSet(Callers) PROVE IsFiniteSet(Holders)
BY FS_Subset DEF Holders

\* Moving one caller between places that hold no slot, or that hold one, leaves
\* the holders and the queue as they are.
LEMMA SameHolders ==
  ASSUME SlotInv, UNCHANGED <<used, waiters>>, NEW c \in Callers, NEW to, Goto(c, to),
         \/ pc[c] \in {"idle", "acquire"} /\ to \in {"idle", "acquire"}
         \/ pc[c] = "acquired" /\ to = "working"
  PROVE  SlotInv'
<1>1. SlotTypes'
  BY DEF SlotInv, SlotTypes, Goto
<1>2. Holders' = Holders /\ {d \in Callers : pc[d] = "waiting"}' = {d \in Callers : pc[d] = "waiting"}
  BY DEF SlotInv, SlotTypes, Goto, Holders
<1> QED BY <1>1, <1>2 DEF SlotInv, SlotsHeld, ToSet

\* A place that is given back goes to the first waiter, or becomes free.
LEMMA ReleaseStep ==
  ASSUME SlotInv, IsFiniteSet(Callers), Concurrency \in Nat \ {0},
         NEW c \in Callers, c \in Holders, Release(c)
  PROVE  SlotInv'
<1>1. /\ used \in Nat /\ waiters \in Seq(Callers)
      /\ pc \in [Callers -> {"idle", "acquire", "waiting", "acquired", "working"}]
      /\ used = Cardinality(Holders) /\ used <= Concurrency
      /\ ToSet(waiters) = {d \in Callers : pc[d] = "waiting"}
      /\ \A i, j \in 1..Len(waiters) : waiters[i] = waiters[j] => i = j
  BY DEF SlotInv, SlotTypes, SlotsHeld
<1>2. pc[c] \in {"acquired", "working"}
  BY DEF Holders
<1>3. CASE waiters = <<>>
  <2>1. used' = used - 1 /\ pc' = [pc EXCEPT ![c] = "idle"] /\ waiters' = <<>>
    BY <1>3 DEF Release, Goto
  <2>2. IsFiniteSet(Holders') /\ c \notin Holders' /\ Holders = Holders' \union {c}
    <3>1. Holders' = Holders \ {c}
      BY <1>1, <2>1 DEF Holders
    <3> QED BY <3>1, HoldersFinite, FS_Subset
  <2>3. used = Cardinality(Holders') + 1 /\ Cardinality(Holders') \in Nat
    BY <1>1, <2>2, CountHolders
  <2>4. used' = Cardinality(Holders') /\ used' <= Concurrency /\ used' \in Nat
    BY <1>1, <2>1, <2>3
  <2>5. ToSet(waiters') = {d \in Callers : pc'[d] = "waiting"}
    <3>1. ToSet(waiters') = ToSet(waiters)
      BY <1>3, <2>1
    <3> QED BY <1>1, <1>2, <2>1, <3>1
  <2>6. pc' \in [Callers -> {"idle", "acquire", "waiting", "acquired", "working"}]
    BY <1>1, <2>1
  <2> QED BY <2>1, <2>4, <2>5, <2>6 DEF SlotInv, SlotTypes, SlotsHeld, ToSet
<1>4. CASE waiters # <<>>
  <2> DEFINE w == Head(waiters)
  <2>1. /\ UNCHANGED used /\ waiters' = Tail(waiters)
        /\ pc' = [d \in Callers |-> CASE d = w -> "acquired" [] d = c -> "idle" [] OTHER -> pc[d]]
    BY <1>4 DEF Release
  <2>2. /\ w = waiters[1] /\ w \in ToSet(waiters) /\ waiters' \in Seq(Callers)
        /\ Len(waiters) \in Nat \ {0} /\ Len(waiters') = Len(waiters) - 1
        /\ \A i \in 1..Len(waiters') : waiters'[i] = waiters[i + 1]
    BY <1>1, <1>4, <2>1 DEF ToSet
  <2>3. w \in Callers /\ pc[w] = "waiting" /\ w # c
    BY <1>1, <1>2, <2>2
  <2> HIDE DEF w
  <2>4. /\ pc' \in [Callers -> {"idle", "acquire", "waiting", "acquired", "working"}]
        /\ pc'[w] = "acquired" /\ pc'[c] = "idle"
        /\ \A d \in Callers \ {w, c} : pc'[d] = pc[d]
    BY <1>1, <2>1, <2>3
  <2>5. /\ Holders \ {c} = Holders' \ {w} /\ w \in Holders' /\ w \notin Holders
    BY <1>1, <1>2, <2>3, <2>4 DEF Holders
  <2>6. Cardinality(Holders') = Cardinality(Holders)
    <3> DEFINE A == Holders \ {c}
    <3>1. IsFiniteSet(A) /\ c \notin A /\ w \notin A
      BY <2>5, HoldersFinite, FS_Subset
    <3>2. Holders = A \union {c} /\ Holders' = A \union {w}
      BY <2>5
    <3> HIDE DEF A
    <3>3. Cardinality(Holders) = Cardinality(A) + 1
      BY <3>1, <3>2, CountHolders
    <3>4. Cardinality(Holders') = Cardinality(A) + 1
      BY <3>1, <3>2, CountHolders
    <3> QED BY <3>3, <3>4
  <2>7. ToSet(waiters') = ToSet(waiters) \ {w}
    <3>1. ASSUME NEW d \in ToSet(waiters') PROVE d \in ToSet(waiters) \ {w}
      <4>1. PICK i \in 1..Len(waiters') : waiters'[i] = d
        BY <2>2 DEF ToSet
      <4>2. i + 1 \in 1..Len(waiters) /\ 1 \in 1..Len(waiters) /\ i + 1 # 1
        BY <2>2
      <4>3. waiters[i + 1] = d /\ waiters[i + 1] # waiters[1]
        BY <1>1, <2>2, <4>1, <4>2
      <4>4. DOMAIN waiters = 1..Len(waiters)
        BY <1>1
      <4> QED BY <2>2, <4>2, <4>3, <4>4 DEF ToSet
    <3>2. ASSUME NEW d \in ToSet(waiters) \ {w} PROVE d \in ToSet(waiters')
      <4>1. PICK i \in 1..Len(waiters) : waiters[i] = d
        BY <1>1 DEF ToSet
      <4>2. i # 1
        BY <2>2, <4>1
      <4>3. i - 1 \in 1..Len(waiters') /\ (i - 1) + 1 = i
        BY <2>2, <4>2
      <4>4. waiters'[i - 1] = d
        BY <2>2, <4>1, <4>3
      <4>5. DOMAIN waiters' = 1..Len(waiters')
        BY <2>2
      <4> QED BY <4>3, <4>4, <4>5 DEF ToSet
    <3> QED BY <3>1, <3>2
  <2>8. ToSet(waiters') = {d \in Callers : pc'[d] = "waiting"}
    BY <1>1, <1>2, <2>3, <2>4, <2>7
  <2>9. \A i, j \in 1..Len(waiters') : waiters'[i] = waiters'[j] => i = j
    <3> SUFFICES ASSUME NEW i \in 1..Len(waiters'), NEW j \in 1..Len(waiters'),
                        waiters'[i] = waiters'[j]
                 PROVE  i = j
      OBVIOUS
    <3>1. i + 1 \in 1..Len(waiters) /\ j + 1 \in 1..Len(waiters)
      BY <2>2
    <3>2. i + 1 = j + 1
      BY <1>1, <2>2, <3>1
    <3> QED BY <2>2, <3>2
  <2>10. used = Concurrency
    BY <1>4 DEF SlotInv, SlotsHeld
  <2> QED BY <1>1, <2>1, <2>2, <2>4, <2>6, <2>8, <2>9, <2>10 DEF SlotInv, SlotTypes, SlotsHeld
<1> QED BY <1>3, <1>4

\* A place is taken.
LEMMA TakeStep ==
  ASSUME SlotInv, IsFiniteSet(Callers), Concurrency \in Nat \ {0}, NEW c \in Callers, Take(c)
  PROVE  SlotInv'
<1>1. /\ SlotTypes /\ used = Cardinality(Holders) /\ used < Concurrency /\ used \in Nat
      /\ ToSet(waiters) = {d \in Callers : pc[d] = "waiting"}
      /\ waiters = <<>> /\ waiters' = waiters /\ used' = used + 1 /\ pc[c] = "acquire"
      /\ pc' = [pc EXCEPT ![c] = "acquired"]
  BY DEF SlotInv, SlotTypes, SlotsHeld, Take, Goto
<1>2. SlotTypes'
  BY <1>1 DEF SlotTypes
<1>3. c \notin Holders /\ Holders' = Holders \union {c}
  BY <1>1 DEF Holders, SlotTypes
<1>4. Cardinality(Holders') = used + 1
  BY <1>1, <1>3, HoldersFinite, CountHolders
<1>5. ToSet(waiters)' = {d \in Callers : pc'[d] = "waiting"}
  <2>1. ToSet(waiters)' = ToSet(waiters)
    BY <1>1
  <2> QED BY <1>1, <2>1 DEF SlotTypes
<1>6. used' <= Concurrency
  BY <1>1
<1> QED BY <1>1, <1>2, <1>4, <1>5, <1>6 DEF SlotInv, SlotsHeld

\* A caller joins the queue when every place is taken.
LEMMA WaitStep ==
  ASSUME SlotInv, NEW c \in Callers, Wait(c)
  PROVE  SlotInv'
<1>1. /\ SlotTypes /\ used = Concurrency /\ used' = used /\ pc[c] = "acquire"
      /\ ToSet(waiters) = {d \in Callers : pc[d] = "waiting"}
      /\ \A i, j \in 1..Len(waiters) : waiters[i] = waiters[j] => i = j
      /\ waiters' = Append(waiters, c) /\ pc' = [pc EXCEPT ![c] = "waiting"]
      /\ waiters \in Seq(Callers)
  BY DEF SlotInv, SlotTypes, SlotsHeld, Wait, Goto
<1>2. /\ waiters' \in Seq(Callers) /\ Len(waiters) \in Nat /\ Len(waiters') = Len(waiters) + 1
      /\ waiters'[Len(waiters) + 1] = c
      /\ \A i \in 1..Len(waiters) : waiters'[i] = waiters[i]
      /\ DOMAIN waiters = 1..Len(waiters) /\ DOMAIN waiters' = 1..Len(waiters')
  BY <1>1
<1>3. SlotTypes'
  BY <1>1, <1>2 DEF SlotTypes
<1>4. Holders' = Holders
  BY <1>1 DEF Holders, SlotTypes
<1>5. c \notin ToSet(waiters) /\ \A i \in 1..Len(waiters) : waiters[i] # c
  BY <1>1, <1>2 DEF ToSet
<1>6. ToSet(waiters') = ToSet(waiters) \union {c}
  <2>1. ASSUME NEW d \in ToSet(waiters') PROVE d \in ToSet(waiters) \union {c}
    <3>1. PICK i \in 1..(Len(waiters) + 1) : waiters'[i] = d
      BY <1>2 DEF ToSet
    <3>2. CASE i = Len(waiters) + 1
      BY <1>2, <3>1, <3>2
    <3>3. CASE i \in 1..Len(waiters)
      BY <1>2, <3>1, <3>3 DEF ToSet
    <3> QED BY <1>2, <3>2, <3>3
  <2>2. ASSUME NEW i \in 1..Len(waiters) PROVE waiters[i] \in ToSet(waiters')
    <3>1. i \in DOMAIN waiters' /\ waiters'[i] = waiters[i]
      BY <1>2
    <3> QED BY <3>1 DEF ToSet
  <2>3. c \in ToSet(waiters')
    <3>1. Len(waiters) + 1 \in DOMAIN waiters'
      BY <1>2
    <3> QED BY <1>2, <3>1 DEF ToSet
  <2> QED BY <1>2, <2>1, <2>2, <2>3 DEF ToSet
<1>7. ToSet(waiters') = {d \in Callers : pc'[d] = "waiting"}
  BY <1>1, <1>6 DEF SlotTypes
<1>8. \A i, j \in 1..Len(waiters') : waiters'[i] = waiters'[j] => i = j
  <2> SUFFICES ASSUME NEW i \in 1..(Len(waiters) + 1), NEW j \in 1..(Len(waiters) + 1),
                      waiters'[i] = waiters'[j]
               PROVE  i = j
    BY <1>2
  <2>1. CASE i \in 1..Len(waiters) /\ j \in 1..Len(waiters)
    BY <1>1, <1>2, <2>1
  <2>2. CASE i \in 1..Len(waiters) /\ j = Len(waiters) + 1
    BY <1>2, <1>5, <2>2
  <2>3. CASE i = Len(waiters) + 1 /\ j \in 1..Len(waiters)
    BY <1>2, <1>5, <2>3
  <2> QED BY <1>2, <2>1, <2>2, <2>3
<1> QED BY <1>1, <1>3, <1>4, <1>7, <1>8 DEF SlotInv, SlotsHeld

\* A waiter leaves the queue, the others keep their order.
LEMMA GiveUpStep ==
  ASSUME SlotInv, NEW c \in Callers, GiveUp(c)
  PROVE  SlotInv'
<1>1. /\ SlotTypes /\ used' = used /\ pc[c] = "waiting" /\ waiters \in Seq(Callers)
      /\ ToSet(waiters) = {d \in Callers : pc[d] = "waiting"}
      /\ \A i, j \in 1..Len(waiters) : waiters[i] = waiters[j] => i = j
      /\ pc' = [pc EXCEPT ![c] = "idle"]
  BY DEF SlotInv, SlotTypes, SlotsHeld, GiveUp, Return, Goto
<1>2. PICK k \in DOMAIN waiters : waiters[k] = c /\ waiters' = RemoveAt(waiters, k)
  BY DEF GiveUp
<1>3. DOMAIN waiters = 1..Len(waiters) /\ Len(waiters) \in Nat /\ k \in 1..Len(waiters)
  BY <1>1, <1>2
<1> DEFINE n == Len(waiters)
           from(i) == IF i < k THEN i ELSE i + 1
<1>4. /\ waiters' \in Seq(Callers) /\ Len(waiters') = n - 1
      /\ \A i \in 1..(n - 1) : waiters'[i] = waiters[from(i)]
  <2> DEFINE a == SubSeq(waiters, 1, k - 1)
             b == SubSeq(waiters, k + 1, n)
  <2>1. a \in Seq(Callers) /\ Len(a) = k - 1 /\ \A i \in 1..(k - 1) : a[i] = waiters[i]
    BY <1>1, <1>3
  <2>2. b \in Seq(Callers) /\ Len(b) = n - k /\ \A i \in 1..(n - k) : b[i] = waiters[k + i]
    BY <1>1, <1>3
  <2>3. waiters' = a \o b
    BY <1>2 DEF RemoveAt
  <2> HIDE DEF a, b
  <2>4. waiters' \in Seq(Callers) /\ Len(waiters') = n - 1
    <3>1. a \o b \in Seq(Callers) /\ Len(a \o b) = Len(a) + Len(b)
      BY <2>1, <2>2, ConcatProperties
    <3>2. (k - 1) + (n - k) = n - 1
      BY <1>3
    <3> QED BY <2>1, <2>2, <2>3, <3>1, <3>2
  <2>5. ASSUME NEW i \in 1..(n - 1) PROVE waiters'[i] = waiters[from(i)]
    <3>1. CASE i < k
      BY <1>3, <2>1, <2>2, <2>3, <2>5, <3>1
    <3>2. CASE ~(i < k)
      <4>1. waiters'[i] = b[i - (k - 1)] /\ i - (k - 1) \in 1..(n - k)
        BY <1>3, <2>1, <2>2, <2>3, <2>5, <3>2
      <4>2. k + (i - (k - 1)) = i + 1
        BY <1>3
      <4> QED BY <2>2, <3>2, <4>1, <4>2
    <3> QED BY <3>1, <3>2
  <2> QED BY <2>4, <2>5
<1>5. ASSUME NEW i \in 1..(n - 1)
      PROVE  /\ from(i) \in 1..n /\ from(i) # k
             /\ \A j \in 1..(n - 1) : from(i) = from(j) => i = j
  BY <1>3
<1>6. ASSUME NEW j \in 1..n, j # k PROVE \E i \in 1..(n - 1) : from(i) = j
  <2>1. CASE j < k
    <3>1. j \in 1..(n - 1) /\ from(j) = j
      BY <1>3, <2>1
    <3> QED BY <3>1
  <2>2. CASE ~(j < k)
    <3>1. j - 1 \in 1..(n - 1) /\ from(j - 1) = j
      BY <1>3, <1>6, <2>2
    <3> QED BY <3>1
  <2> QED BY <2>1, <2>2
<1>7. DOMAIN waiters' = 1..(n - 1)
  BY <1>3, <1>4
<1> HIDE DEF from
<1>8. ToSet(waiters') = ToSet(waiters) \ {c}
  <2>1. ASSUME NEW i \in 1..(n - 1) PROVE waiters'[i] \in ToSet(waiters) \ {c}
    <3>1. waiters'[i] = waiters[from(i)] /\ waiters[from(i)] # waiters[k]
      BY <1>1, <1>3, <1>4, <1>5
    <3> QED BY <1>2, <1>3, <1>5, <3>1 DEF ToSet
  <2>2. ASSUME NEW j \in 1..n, waiters[j] # c PROVE waiters[j] \in ToSet(waiters')
    <3>1. PICK i \in 1..(n - 1) : from(i) = j
      BY <1>2, <1>6, <2>2
    <3> QED BY <1>4, <1>7, <3>1 DEF ToSet
  <2> QED BY <1>3, <1>7, <2>1, <2>2 DEF ToSet
<1>9. SlotTypes' /\ Holders' = Holders
  BY <1>1, <1>4 DEF SlotTypes, Holders
<1>10. ToSet(waiters') = {d \in Callers : pc'[d] = "waiting"}
  BY <1>1, <1>8 DEF SlotTypes
<1>11. \A i, j \in 1..Len(waiters') : waiters'[i] = waiters'[j] => i = j
  BY <1>1, <1>4, <1>5
<1>12. waiters # <<>> /\ used = Concurrency
  <2>1. waiters # <<>>
    BY <1>1, <1>2
  <2> QED BY <2>1 DEF SlotInv, SlotsHeld
<1> QED BY <1>1, <1>9, <1>10, <1>11, <1>12 DEF SlotInv, SlotsHeld

\* Every step keeps the invariant.
LEMMA SlotStep ==
  ASSUME IsFiniteSet(Callers), Concurrency \in Nat \ {0}, SlotInv, [SlotNext]_slotVars
  PROVE  SlotInv'
<1>1. ASSUME NEW c \in Callers, Call(c) PROVE SlotInv'
  BY <1>1, SameHolders DEF Call
<1>2. ASSUME NEW c \in Callers, Decline(c) PROVE SlotInv'
  BY <1>2, SameHolders DEF Decline, Return
<1>3. ASSUME NEW c \in Callers, Cancel(c) PROVE SlotInv'
  BY <1>3 DEF Cancel, SlotInv, SlotTypes, SlotsHeld, Holders
<1>4. ASSUME NEW c \in Callers, Recheck(c) PROVE SlotInv'
  <2>1. CASE c \in cancelled
    <3>1. c \in Holders /\ Release(c)
      BY <1>4, <2>1 DEF Recheck, Holders
    <3> QED BY <3>1, ReleaseStep
  <2>2. CASE c \notin cancelled
    BY <1>4, <2>2, SameHolders DEF Recheck
  <2> QED BY <2>1, <2>2
<1>5. ASSUME NEW c \in Callers, Finish(c) PROVE SlotInv'
  <2>1. c \in Holders /\ Release(c)
    BY <1>5 DEF Finish, Holders
  <2> QED BY <2>1, ReleaseStep
<1>6. CASE UNCHANGED slotVars
  BY <1>6 DEF slotVars, SlotInv, SlotTypes, SlotsHeld, Holders
<1> QED BY <1>1, <1>2, <1>3, <1>4, <1>5, <1>6, TakeStep, WaitStep, GiveUpStep DEF SlotNext

\* No place of the hasher is lost or used twice, and nobody waits while one is
\* free, wherever callers are cancelled (acquire, Hash, Verify).
THEOREM SlotsAreKept == SlotSpec => []SlotsHeld
<1>1. IsFiniteSet(Callers) /\ Concurrency \in Nat \ {0}
  BY HasherConstants
<1>2. SlotInit => SlotInv
  <2> SUFFICES ASSUME SlotInit PROVE SlotInv
    OBVIOUS
  <2>1. SlotTypes /\ waiters = <<>>
    BY DEF SlotInit, SlotTypes
  <2>2. Holders = {} /\ used = 0 /\ Cardinality(Holders) = 0
    <3>1. Holders = {}
      BY DEF SlotInit, Holders
    <3> QED BY <3>1, FS_EmptySet DEF SlotInit
  <2>3. ToSet(waiters) = {} /\ {c \in Callers : pc[c] = "waiting"} = {}
    BY <2>1 DEF SlotInit, ToSet
  <2> QED BY <1>1, <2>1, <2>2, <2>3 DEF SlotInv, SlotsHeld
<1>3. SlotInv /\ [SlotNext]_slotVars => SlotInv'
  BY <1>1, SlotStep
<1>4. SlotInv => SlotsHeld
  BY DEF SlotInv
<1> QED BY <1>2, <1>3, <1>4, PTL DEF SlotSpec
=============================================================================
