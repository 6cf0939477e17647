------------------------------- MODULE Locker -------------------------------
(***************************************************************************)
(* The distributed lock (internal/platform/locker) on PostgreSQL session   *)
(* advisory locks (locker/postgres), for one key.                          *)
(*                                                                         *)
(* A caller takes a connection out of a pool, tries the lock on it, runs   *)
(* its task while a goroutine of its own probes the connection, stops that *)
(* goroutine, and unlocks.  The lock belongs to the server's session of    *)
(* the connection: the server frees it when the session ends, which the    *)
(* client learns late, and it keeps it when a client merely stops using    *)
(* the connection.  Any statement may fail, and the lock and unlock        *)
(* statements may take effect without an answer.                           *)
(***************************************************************************)
EXTENDS Naturals, FiniteSets

CONSTANTS
    Callers,   \* goroutines that call TryRun or Run with this key
    Conns,     \* identities of connections
    PoolSize,  \* MaxConns of the pool
    NoConn     \* a caller without a connection; a lock without a holder

ASSUME LockerConstants ==
    /\ PoolSize \in Nat \ {0}
    /\ NoConn \notin Conns

VARIABLES
    pc,        \* where each caller is in TryRun, Run or execute
    retrying,  \* the callers that came through Run
    ctxDone,   \* the callers whose own context is cancelled
    conn,      \* the connection a caller has taken out of the pool
    watch,     \* the goroutine that runs lease.Watch for a caller
    pool,      \* what the pool knows of each connection
    session,   \* whether the server's session of a connection is alive
    holder     \* the session that holds the advisory lock

vars == <<pc, retrying, ctxDone, conn, watch, pool, session, holder>>

PC == {"idle", "acquire", "tryLock", "waiting", "discard",
       "ready", "working", "stopping", "release"}

Watching == {"watching", "probing"}

Init ==
  /\ pc       = [c \in Callers |-> "idle"]
  /\ retrying = {}
  /\ ctxDone  = {}
  /\ conn     = [c \in Callers |-> NoConn]
  /\ watch    = [c \in Callers |-> "off"]
  /\ pool     = [k \in Conns |-> "closed"]
  /\ session  = [k \in Conns |-> FALSE]
  /\ holder   = NoConn

Goto(c, label) == pc' = [pc EXCEPT ![c] = label]

\* The call returns to its caller.
Return(c) ==
  /\ Goto(c, "idle")
  /\ retrying' = retrying \ {c}
  /\ ctxDone'  = ctxDone \ {c}
  /\ conn'     = [conn EXCEPT ![c] = NoConn]
  /\ watch'    = [watch EXCEPT ![c] = "off"]

----------------------------------------------------------------------------
\* Entering, and the caller's context

\* prepare has accepted key, task and context.
Call(c, run) ==
  /\ pc[c] = "idle"
  /\ Goto(c, "acquire")
  /\ retrying' = IF run THEN retrying \union {c} ELSE retrying
  /\ UNCHANGED <<ctxDone, conn, watch, pool, session, holder>>

Cancel(c) ==
  /\ pc[c] # "idle" /\ c \notin ctxDone
  /\ ctxDone' = ctxDone \union {c}
  /\ UNCHANGED <<pc, retrying, conn, watch, pool, session, holder>>

----------------------------------------------------------------------------
\* TryAcquire

\* pool.Acquire hands out an idle connection, or opens one while the pool has room.
PoolAcquire(c, k) ==
  /\ pc[c] = "acquire" /\ c \notin ctxDone
  /\ \/ pool[k] = "idle" /\ UNCHANGED session
     \/ /\ pool[k] = "closed" /\ ~session[k]
        /\ Cardinality({x \in Conns : pool[x] # "closed"}) < PoolSize
        /\ session' = [session EXCEPT ![k] = TRUE]
  /\ pool' = [pool EXCEPT ![k] = "used"]
  /\ conn' = [conn EXCEPT ![c] = k]
  /\ Goto(c, "tryLock")
  /\ UNCHANGED <<retrying, ctxDone, watch, holder>>

\* The pool is exhausted until AcquireTimeout, the context is done, or the
\* database cannot be reached: ErrUnavailable.
PoolUnavailable(c) ==
  /\ pc[c] = "acquire"
  /\ Return(c)
  /\ UNCHANGED <<pool, session, holder>>

\* Faulty variant: the answer of pg_try_advisory_lock is not looked at.
LockUnchecked(c) ==
  /\ pc[c] = "tryLock"
  /\ session[conn[c]]
  /\ holder' = IF holder = NoConn THEN conn[c] ELSE holder
  /\ watch' = [watch EXCEPT ![c] = "watching"]
  /\ Goto(c, "ready")
  /\ UNCHANGED <<retrying, ctxDone, conn, pool, session>>

\* pg_try_advisory_lock returns true; execute starts the watching goroutine.
LockAcquired(c) ==
  /\ pc[c] = "tryLock"
  /\ session[conn[c]] /\ holder = NoConn
  /\ holder' = conn[c]
  /\ watch' = [watch EXCEPT ![c] = "watching"]
  /\ Goto(c, "ready")
  /\ UNCHANGED <<retrying, ctxDone, conn, pool, session>>

\* It returns false: the connection goes back; TryRun returns, Run waits.
LockBusy(c) ==
  /\ pc[c] = "tryLock"
  /\ session[conn[c]] /\ holder # NoConn
  /\ pool' = [pool EXCEPT ![conn[c]] = "idle"]
  /\ IF c \in retrying
       THEN /\ Goto(c, "waiting")
            /\ conn' = [conn EXCEPT ![c] = NoConn]
            /\ UNCHANGED <<retrying, ctxDone, watch>>
       ELSE Return(c)
  /\ UNCHANGED <<session, holder>>

\* Faulty variant: after an error the connection goes back to the pool.
LockFailedPooled(c) ==
  /\ pc[c] = "tryLock"
  /\ \/ UNCHANGED holder
     \/ session[conn[c]] /\ holder = NoConn /\ holder' = conn[c]
  /\ pool' = [pool EXCEPT ![conn[c]] = "idle"]
  /\ Return(c)
  /\ UNCHANGED session

\* The statement fails, perhaps after the server has granted the lock: the
\* connection must not be used again.
LockFailed(c) ==
  /\ pc[c] = "tryLock"
  /\ \/ UNCHANGED holder
     \/ session[conn[c]] /\ holder = NoConn /\ holder' = conn[c]
  /\ Goto(c, "discard")
  /\ UNCHANGED <<retrying, ctxDone, conn, watch, pool, session>>

\* conn.Hijack().Close: the pool forgets the connection.  The server ends the
\* session now, or later if it does not hear of it.
Discard(c) ==
  /\ pc[c] = "discard"
  /\ pool' = [pool EXCEPT ![conn[c]] = "closed"]
  /\ \/ UNCHANGED <<session, holder>>
     \/ /\ session' = [session EXCEPT ![conn[c]] = FALSE]
        /\ holder' = IF holder = conn[c] THEN NoConn ELSE holder
  /\ Return(c)

\* Run's timer fires, or its context ends first.
Retry(c) ==
  /\ pc[c] = "waiting"
  /\ Goto(c, "acquire")
  /\ UNCHANGED <<retrying, ctxDone, conn, watch, pool, session, holder>>

WaitCancelled(c) ==
  /\ pc[c] = "waiting" /\ c \in ctxDone
  /\ Return(c)
  /\ UNCHANGED <<pool, session, holder>>

----------------------------------------------------------------------------
\* execute

\* The task's context is done: the caller's own, or the watcher cancelled it.
WorkCancelled(c) == c \in ctxDone \/ watch[c] = "lost"

TaskStart(c) ==
  /\ pc[c] = "ready" /\ ~WorkCancelled(c)
  /\ Goto(c, "working")
  /\ UNCHANGED <<retrying, ctxDone, conn, watch, pool, session, holder>>

TaskSkipped(c) ==
  /\ pc[c] = "ready" /\ WorkCancelled(c)
  /\ Goto(c, "stopping")
  /\ UNCHANGED <<retrying, ctxDone, conn, watch, pool, session, holder>>

\* The task returns or panics; the deferred function cancels the watch.
TaskEnd(c) ==
  /\ pc[c] = "working"
  /\ Goto(c, "stopping")
  /\ UNCHANGED <<retrying, ctxDone, conn, watch, pool, session, holder>>

\* Faulty variant: a tick is served although the watch is stopped.
WatchProbeAlways(c) ==
  /\ watch[c] = "watching"
  /\ watch' = [watch EXCEPT ![c] = "probing"]
  /\ UNCHANGED <<pc, retrying, ctxDone, conn, pool, session, holder>>

\* lease.Watch: a tick starts a probe, unless the watch is stopped; stopping
\* it later does not interrupt the probe.
WatchProbe(c) ==
  /\ watch[c] = "watching" /\ pc[c] # "stopping"
  /\ watch' = [watch EXCEPT ![c] = "probing"]
  /\ UNCHANGED <<pc, retrying, ctxDone, conn, pool, session, holder>>

ProbeOk(c) ==
  /\ watch[c] = "probing"
  /\ session[conn[c]]
  /\ watch' = [watch EXCEPT ![c] = "watching"]
  /\ UNCHANGED <<pc, retrying, ctxDone, conn, pool, session, holder>>

\* Faulty variant: a failed probe ends the watch and cancels nothing.
ProbeFailedSilently(c) ==
  /\ watch[c] = "probing"
  /\ watch' = [watch EXCEPT ![c] = "stopped"]
  /\ UNCHANGED <<pc, retrying, ctxDone, conn, pool, session, holder>>

\* A probe fails, rightly or by its timeout: the task's context is cancelled.
ProbeFailed(c) ==
  /\ watch[c] = "probing"
  /\ watch' = [watch EXCEPT ![c] = "lost"]
  /\ UNCHANGED <<pc, retrying, ctxDone, conn, pool, session, holder>>

\* Between two probes Watch sees that it has been stopped.
WatchStopped(c) ==
  /\ watch[c] = "watching" /\ pc[c] = "stopping"
  /\ watch' = [watch EXCEPT ![c] = "stopped"]
  /\ UNCHANGED <<pc, retrying, ctxDone, conn, pool, session, holder>>

\* Faulty variant: the release does not wait for the watching goroutine.
StopNoWait(c) ==
  /\ pc[c] = "stopping"
  /\ Goto(c, "release")
  /\ UNCHANGED <<retrying, ctxDone, conn, watch, pool, session, holder>>

\* lost := <-done
WatchJoined(c) ==
  /\ pc[c] = "stopping" /\ watch[c] \notin Watching
  /\ Goto(c, "release")
  /\ UNCHANGED <<retrying, ctxDone, conn, watch, pool, session, holder>>

----------------------------------------------------------------------------
\* Release

\* pg_advisory_unlock returns true: the connection goes back to the pool.
Unlocked(c) ==
  /\ pc[c] = "release"
  /\ session[conn[c]] /\ holder = conn[c]
  /\ holder' = NoConn
  /\ pool' = [pool EXCEPT ![conn[c]] = "idle"]
  /\ Return(c)
  /\ UNCHANGED session

\* Faulty variant: the lease's connection is cleared before it is closed.
UnlockFailedForgets(c) ==
  /\ pc[c] = "release"
  /\ conn' = [conn EXCEPT ![c] = NoConn]
  /\ Goto(c, "discard")
  /\ UNCHANGED <<retrying, ctxDone, watch, pool, session, holder>>

\* It returns false or fails, perhaps after it took effect.
UnlockFailed(c) ==
  /\ pc[c] = "release"
  /\ \/ UNCHANGED holder
     \/ session[conn[c]] /\ holder = conn[c] /\ holder' = NoConn
  /\ Goto(c, "discard")
  /\ UNCHANGED <<retrying, ctxDone, conn, watch, pool, session>>

----------------------------------------------------------------------------
\* The server ends a session (restart, failover, broken connection) and frees
\* its lock.
SessionEnds(k) ==
  /\ session[k]
  /\ session' = [session EXCEPT ![k] = FALSE]
  /\ holder' = IF holder = k THEN NoConn ELSE holder
  /\ UNCHANGED <<pc, retrying, ctxDone, conn, watch, pool>>

\* The pool drops an idle connection (its health check, MaxConnIdleTime).
PoolClose(k) ==
  /\ pool[k] = "idle"
  /\ pool' = [pool EXCEPT ![k] = "closed"]
  /\ UNCHANGED <<pc, retrying, ctxDone, conn, watch, session, holder>>

Step(c) ==
  \/ PoolUnavailable(c)
  \/ LockAcquired(c) \/ LockBusy(c) \/ LockFailed(c) \/ Discard(c)
  \/ Retry(c) \/ WaitCancelled(c)
  \/ TaskStart(c) \/ TaskSkipped(c)
  \/ WatchJoined(c) \/ Unlocked(c) \/ UnlockFailed(c)

WatchStep(c) == WatchProbe(c) \/ ProbeOk(c) \/ ProbeFailed(c) \/ WatchStopped(c)

Next ==
  \/ \E c \in Callers :
       \/ \E run \in BOOLEAN : Call(c, run)
       \/ \E k \in Conns : PoolAcquire(c, k)
       \/ Cancel(c) \/ Step(c) \/ WatchStep(c) \/ TaskEnd(c)
  \/ \E k \in Conns : SessionEnds(k) \/ PoolClose(k)

Spec == Init /\ [][Next]_vars

\* A goroutine runs on, a statement returns within its timeout, and a task
\* follows its context, as Locker requires of callers.  That the pool ever has
\* a connection to give is not assumed: only AcquireTimeout ends the wait.
Fairness ==
  \A c \in Callers :
    /\ WF_vars(Step(c))
    /\ WF_vars(WatchStep(c))
    /\ WF_vars(WorkCancelled(c) /\ TaskEnd(c))

FairSpec == Spec /\ Fairness

----------------------------------------------------------------------------
\* Properties

\* Every variable has its type, and a caller has a connection exactly from
\* pool.Acquire to the moment it is given back or closed.
TypeOK ==
  /\ pc \in [Callers -> PC]
  /\ retrying \in SUBSET Callers
  /\ ctxDone \in SUBSET Callers
  /\ conn \in [Callers -> Conns \union {NoConn}]
  /\ watch \in [Callers -> Watching \union {"off", "stopped", "lost"}]
  /\ pool \in [Conns -> {"closed", "idle", "used"}]
  /\ session \in [Conns -> BOOLEAN]
  /\ holder \in Conns \union {NoConn}
  /\ \A c \in Callers : conn[c] = NoConn <=> pc[c] \in {"idle", "acquire", "waiting"}

\* Two tasks run at the same time only if one of them has lost its session
\* already: the lock is neither given up nor given away while a task whose
\* connection is alive runs (TryAcquire, execute, Release).
Exclusive ==
  \A c, d \in Callers :
    /\ c # d
    /\ pc[c] = "working" /\ pc[d] = "working"
    => ~session[conn[c]] \/ ~session[conn[d]]

\* A connection in the pool holds no lock, whatever failed before: otherwise
\* the lock would stay taken with nobody to release it, and the next user of
\* the connection would be given it (the error paths of TryAcquire, Release).
PoolClean == \A k \in Conns : pool[k] = "idle" => holder # k

\* A connection taken out of the pool has exactly one user: every one is some
\* caller's (none leaks), no two callers share one, and while it is unlocked
\* or closed the watching goroutine does not probe it (execute waits for
\* Watch before it calls Release).
OneUser ==
  /\ \A k \in Conns : pool[k] = "used" <=> \E c \in Callers : conn[c] = k
  /\ \A c, d \in Callers : conn[c] = conn[d] /\ conn[c] # NoConn => c = d
  /\ \A c \in Callers : watch[c] \in Watching => pc[c] \in {"ready", "working", "stopping"}

\* What makes the lock safe, as an inductive invariant: only a live session
\* holds it; from acquisition to release a caller whose session is alive holds
\* it; and neither a pooled connection nor one on which the lock is being
\* tried holds it.
HoldInv ==
  /\ \A k \in Conns : holder = k => session[k]
  /\ \A c \in Callers : /\ pc[c] \in {"ready", "working", "stopping", "release"}
                        /\ session[conn[c]]
                        => holder = conn[c]
  /\ \A c \in Callers : pc[c] = "tryLock" => holder # conn[c]
  /\ PoolClean

\* A task whose lock is lost is stopped: the watcher's probe fails and cancels
\* its context.
LossNoticed ==
  \A c \in Callers :
    pc[c] = "working" /\ ~session[conn[c]] ~> pc[c] # "working"

\* A call whose context is cancelled returns, from the retry loop of Run, from
\* the task or from the release, and leaves no goroutine behind.  And no attempt
\* hangs though nobody cancels it and the pool has nothing to give: the call comes
\* to run its task, to the pause between two attempts of Run, or back to its
\* caller (AcquireTimeout).
CallsReturn ==
  \A c \in Callers :
    /\ c \in ctxDone ~> pc[c] = "idle" /\ watch[c] = "off"
    /\ pc[c] = "acquire" ~> pc[c] \in {"idle", "waiting", "working"}
=============================================================================
