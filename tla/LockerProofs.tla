---------------------------- MODULE LockerProofs ----------------------------
(***************************************************************************)
(* Proofs about Locker, for any number of callers and connections.  The    *)
(* argument: connections have one user (OneUser), hence what one caller    *)
(* does leaves the others' connections alone, and the lock stays where     *)
(* HoldInv says it is.                                                     *)
(***************************************************************************)
EXTENDS Locker, TLAPS

\* Every step keeps the types.
LEMMA LockerTypeStep == TypeOK /\ [Next]_vars => TypeOK'
<1> SUFFICES ASSUME TypeOK, [Next]_vars PROVE TypeOK'
  OBVIOUS
<1> USE LockerConstants DEF TypeOK, PC, Watching
<1>1. CASE UNCHANGED vars
  BY <1>1 DEF vars
<1>2. ASSUME NEW c \in Callers, NEW run \in BOOLEAN, Call(c, run) PROVE TypeOK'
  BY <1>2 DEF Call, Goto
<1>3. ASSUME NEW c \in Callers, NEW k \in Conns, PoolAcquire(c, k) PROVE TypeOK'
  BY <1>3 DEF PoolAcquire, Goto
<1>4. ASSUME NEW c \in Callers, LockAcquired(c) PROVE TypeOK'
  BY <1>4 DEF LockAcquired, Goto
<1>5. ASSUME NEW c \in Callers, LockBusy(c) PROVE TypeOK'
  BY <1>5 DEF LockBusy, Goto, Return
<1>6. ASSUME NEW c \in Callers, LockFailed(c) PROVE TypeOK'
  BY <1>6 DEF LockFailed, Goto
<1>7. ASSUME NEW c \in Callers, Discard(c) PROVE TypeOK'
  BY <1>7 DEF Discard, Goto, Return
<1>8. ASSUME NEW c \in Callers, Retry(c) PROVE TypeOK'
  BY <1>8 DEF Retry, Goto
<1>9. ASSUME NEW c \in Callers, WaitCancelled(c) PROVE TypeOK'
  BY <1>9 DEF WaitCancelled, Goto, Return
<1>10. ASSUME NEW c \in Callers, TaskStart(c) PROVE TypeOK'
  BY <1>10 DEF TaskStart, Goto
<1>11. ASSUME NEW c \in Callers, TaskSkipped(c) PROVE TypeOK'
  BY <1>11 DEF TaskSkipped, Goto
<1>12. ASSUME NEW c \in Callers, WatchJoined(c) PROVE TypeOK'
  BY <1>12 DEF WatchJoined, Goto
<1>13. ASSUME NEW c \in Callers, Unlocked(c) PROVE TypeOK'
  BY <1>13 DEF Unlocked, Goto, Return
<1>14. ASSUME NEW c \in Callers, UnlockFailed(c) PROVE TypeOK'
  BY <1>14 DEF UnlockFailed, Goto
<1>15. ASSUME NEW c \in Callers, WatchProbe(c) PROVE TypeOK'
  BY <1>15 DEF WatchProbe
<1>16. ASSUME NEW c \in Callers, ProbeOk(c) PROVE TypeOK'
  BY <1>16 DEF ProbeOk
<1>17. ASSUME NEW c \in Callers, ProbeFailed(c) PROVE TypeOK'
  BY <1>17 DEF ProbeFailed
<1>18. ASSUME NEW c \in Callers, WatchStopped(c) PROVE TypeOK'
  BY <1>18 DEF WatchStopped
<1>19. ASSUME NEW c \in Callers, TaskEnd(c) PROVE TypeOK'
  BY <1>19 DEF TaskEnd, Goto
<1>20. ASSUME NEW c \in Callers, Cancel(c) PROVE TypeOK'
  BY <1>20 DEF Cancel
<1>21. ASSUME NEW c \in Callers, PoolUnavailable(c) PROVE TypeOK'
  BY <1>21 DEF PoolUnavailable, Goto, Return
<1>22. ASSUME NEW k \in Conns, SessionEnds(k) PROVE TypeOK'
  BY <1>22 DEF SessionEnds
<1>23. ASSUME NEW k \in Conns, PoolClose(k) PROVE TypeOK'
  BY <1>23 DEF PoolClose
<1> QED
  BY <1>1, <1>2, <1>3, <1>4, <1>5, <1>6, <1>7, <1>8, <1>9, <1>10, <1>11, <1>12, <1>13, <1>14, <1>15, <1>16, <1>17, <1>18, <1>19, <1>20, <1>21, <1>22, <1>23
  DEF Next, Step, WatchStep

\* Callers and connections keep their types, and a caller has a connection
\* exactly from pool.Acquire until it is given back or closed.
THEOREM LockerTypes == Spec => []TypeOK
<1>1. Init => TypeOK
  BY LockerConstants DEF Init, TypeOK, PC, Watching
<1> QED BY <1>1, LockerTypeStep, PTL DEF Spec

\* Every step keeps each connection with its one user.
LEMMA OneUserStep == TypeOK /\ OneUser /\ [Next]_vars => OneUser'
<1> SUFFICES ASSUME TypeOK, OneUser, [Next]_vars PROVE OneUser'
  OBVIOUS
<1> USE LockerConstants DEF TypeOK, OneUser, PC, Watching
<1>1. CASE UNCHANGED vars
  BY <1>1 DEF vars
<1>2. ASSUME NEW c \in Callers, NEW run \in BOOLEAN, Call(c, run) PROVE OneUser'
  BY <1>2 DEF Call, Goto
<1>3. ASSUME NEW c \in Callers, NEW k \in Conns, PoolAcquire(c, k) PROVE OneUser'
  BY <1>3 DEF PoolAcquire, Goto
<1>4. ASSUME NEW c \in Callers, LockAcquired(c) PROVE OneUser'
  BY <1>4 DEF LockAcquired, Goto
<1>5. ASSUME NEW c \in Callers, LockBusy(c) PROVE OneUser'
  BY <1>5 DEF LockBusy, Goto, Return
<1>6. ASSUME NEW c \in Callers, LockFailed(c) PROVE OneUser'
  BY <1>6 DEF LockFailed, Goto
<1>7. ASSUME NEW c \in Callers, Discard(c) PROVE OneUser'
  BY <1>7 DEF Discard, Goto, Return
<1>8. ASSUME NEW c \in Callers, Retry(c) PROVE OneUser'
  BY <1>8 DEF Retry, Goto
<1>9. ASSUME NEW c \in Callers, WaitCancelled(c) PROVE OneUser'
  BY <1>9 DEF WaitCancelled, Goto, Return
<1>10. ASSUME NEW c \in Callers, TaskStart(c) PROVE OneUser'
  BY <1>10 DEF TaskStart, Goto
<1>11. ASSUME NEW c \in Callers, TaskSkipped(c) PROVE OneUser'
  BY <1>11 DEF TaskSkipped, Goto
<1>12. ASSUME NEW c \in Callers, WatchJoined(c) PROVE OneUser'
  BY <1>12 DEF WatchJoined, Goto
<1>13. ASSUME NEW c \in Callers, Unlocked(c) PROVE OneUser'
  BY <1>13 DEF Unlocked, Goto, Return
<1>14. ASSUME NEW c \in Callers, UnlockFailed(c) PROVE OneUser'
  BY <1>14 DEF UnlockFailed, Goto
<1>15. ASSUME NEW c \in Callers, WatchProbe(c) PROVE OneUser'
  BY <1>15 DEF WatchProbe
<1>16. ASSUME NEW c \in Callers, ProbeOk(c) PROVE OneUser'
  BY <1>16 DEF ProbeOk
<1>17. ASSUME NEW c \in Callers, ProbeFailed(c) PROVE OneUser'
  BY <1>17 DEF ProbeFailed
<1>18. ASSUME NEW c \in Callers, WatchStopped(c) PROVE OneUser'
  BY <1>18 DEF WatchStopped
<1>19. ASSUME NEW c \in Callers, TaskEnd(c) PROVE OneUser'
  BY <1>19 DEF TaskEnd, Goto
<1>20. ASSUME NEW c \in Callers, Cancel(c) PROVE OneUser'
  BY <1>20 DEF Cancel
<1>21. ASSUME NEW c \in Callers, PoolUnavailable(c) PROVE OneUser'
  BY <1>21 DEF PoolUnavailable, Goto, Return
<1>22. ASSUME NEW k \in Conns, SessionEnds(k) PROVE OneUser'
  BY <1>22 DEF SessionEnds
<1>23. ASSUME NEW k \in Conns, PoolClose(k) PROVE OneUser'
  BY <1>23 DEF PoolClose
<1> QED
  BY <1>1, <1>2, <1>3, <1>4, <1>5, <1>6, <1>7, <1>8, <1>9, <1>10, <1>11, <1>12, <1>13, <1>14, <1>15, <1>16, <1>17, <1>18, <1>19, <1>20, <1>21, <1>22, <1>23
  DEF Next, Step, WatchStep

\* A connection out of the pool is exactly one caller's, and nobody probes it
\* while it is unlocked or closed (execute, lease.Watch, lease.Release).
THEOREM ConnectionsHaveOneUser == Spec => []OneUser
<1>1. Init => OneUser
  BY LockerConstants DEF Init, OneUser, Watching
<1> QED BY <1>1, OneUserStep, LockerTypes, PTL DEF Spec

\* Every step keeps the lock where it belongs.
LEMMA HoldInvStep == TypeOK /\ OneUser /\ HoldInv /\ [Next]_vars => HoldInv'
<1> SUFFICES ASSUME TypeOK, OneUser, HoldInv, [Next]_vars PROVE HoldInv'
  OBVIOUS
<1> USE LockerConstants DEF TypeOK, OneUser, HoldInv, PoolClean, PC, Watching
<1>1. CASE UNCHANGED vars
  BY <1>1 DEF vars
<1>2. ASSUME NEW c \in Callers, NEW run \in BOOLEAN, Call(c, run) PROVE HoldInv'
  BY <1>2 DEF Call, Goto
<1>3. ASSUME NEW c \in Callers, NEW k \in Conns, PoolAcquire(c, k) PROVE HoldInv'
  BY <1>3 DEF PoolAcquire, Goto
<1>4. ASSUME NEW c \in Callers, LockAcquired(c) PROVE HoldInv'
  BY <1>4 DEF LockAcquired, Goto
<1>5. ASSUME NEW c \in Callers, LockBusy(c) PROVE HoldInv'
  BY <1>5 DEF LockBusy, Goto, Return
<1>6. ASSUME NEW c \in Callers, LockFailed(c) PROVE HoldInv'
  BY <1>6 DEF LockFailed, Goto
<1>7. ASSUME NEW c \in Callers, Discard(c) PROVE HoldInv'
  BY <1>7 DEF Discard, Goto, Return
<1>8. ASSUME NEW c \in Callers, Retry(c) PROVE HoldInv'
  BY <1>8 DEF Retry, Goto
<1>9. ASSUME NEW c \in Callers, WaitCancelled(c) PROVE HoldInv'
  BY <1>9 DEF WaitCancelled, Goto, Return
<1>10. ASSUME NEW c \in Callers, TaskStart(c) PROVE HoldInv'
  BY <1>10 DEF TaskStart, Goto
<1>11. ASSUME NEW c \in Callers, TaskSkipped(c) PROVE HoldInv'
  BY <1>11 DEF TaskSkipped, Goto
<1>12. ASSUME NEW c \in Callers, WatchJoined(c) PROVE HoldInv'
  BY <1>12 DEF WatchJoined, Goto
<1>13. ASSUME NEW c \in Callers, Unlocked(c) PROVE HoldInv'
  BY <1>13 DEF Unlocked, Goto, Return
<1>14. ASSUME NEW c \in Callers, UnlockFailed(c) PROVE HoldInv'
  BY <1>14 DEF UnlockFailed, Goto
<1>15. ASSUME NEW c \in Callers, WatchProbe(c) PROVE HoldInv'
  BY <1>15 DEF WatchProbe
<1>16. ASSUME NEW c \in Callers, ProbeOk(c) PROVE HoldInv'
  BY <1>16 DEF ProbeOk
<1>17. ASSUME NEW c \in Callers, ProbeFailed(c) PROVE HoldInv'
  BY <1>17 DEF ProbeFailed
<1>18. ASSUME NEW c \in Callers, WatchStopped(c) PROVE HoldInv'
  BY <1>18 DEF WatchStopped
<1>19. ASSUME NEW c \in Callers, TaskEnd(c) PROVE HoldInv'
  BY <1>19 DEF TaskEnd, Goto
<1>20. ASSUME NEW c \in Callers, Cancel(c) PROVE HoldInv'
  BY <1>20 DEF Cancel
<1>21. ASSUME NEW c \in Callers, PoolUnavailable(c) PROVE HoldInv'
  BY <1>21 DEF PoolUnavailable, Goto, Return
<1>22. ASSUME NEW k \in Conns, SessionEnds(k) PROVE HoldInv'
  BY <1>22 DEF SessionEnds
<1>23. ASSUME NEW k \in Conns, PoolClose(k) PROVE HoldInv'
  BY <1>23 DEF PoolClose
<1> QED
  BY <1>1, <1>2, <1>3, <1>4, <1>5, <1>6, <1>7, <1>8, <1>9, <1>10, <1>11, <1>12, <1>13, <1>14, <1>15, <1>16, <1>17, <1>18, <1>19, <1>20, <1>21, <1>22, <1>23
  DEF Next, Step, WatchStep

\* The inductive invariant holds in every behaviour.
LEMMA HoldInvariant == Spec => []HoldInv
<1>1. Init => HoldInv
  BY LockerConstants DEF Init, HoldInv, PoolClean
<1> QED BY <1>1, HoldInvStep, LockerTypes, ConnectionsHaveOneUser, PTL DEF Spec

\* No connection in the pool holds the lock, whatever statement failed or took
\* effect without an answer (TryAcquire and Release close such connections).
THEOREM PooledConnectionsHoldNoLock == Spec => []PoolClean
<1>1. HoldInv => PoolClean
  BY DEF HoldInv
<1> QED BY <1>1, HoldInvariant, PTL

\* Two tasks overlap only if one of them has lost its session: mutual exclusion
\* as far as an advisory lock without fencing can give it.
THEOREM TasksAreExclusive == Spec => []Exclusive
<1>1. TypeOK /\ OneUser /\ HoldInv => Exclusive
  BY LockerConstants DEF TypeOK, OneUser, HoldInv, Exclusive
<1> QED BY <1>1, HoldInvariant, LockerTypes, ConnectionsHaveOneUser, PTL
=============================================================================
