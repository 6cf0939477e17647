-------------------------- MODULE LifecycleProofs ---------------------------
(***************************************************************************)
(* Proofs about starting and stopping a process, for any set of requests   *)
(* and any timeouts.                                                       *)
(***************************************************************************)
EXTENDS Lifecycle, TLAPS

\* The types of what the proofs speak about.
LifecycleTypes ==
  /\ now \in Nat /\ stopBy \in Nat /\ drainBy \in Nat
  /\ pc \in {"starting", "waiting", "stopping", "exited"}
  /\ started \in 0..3
  /\ inHook \in BOOLEAN /\ serving \in BOOLEAN
  /\ lifetime \in {"live", "cancelled"}
  /\ pool \in {"none", "open", "closing", "closed"}
  /\ job \in [Jobs -> {"none", "open", "running", "query"}]

\* How far the hooks are: an OnStart runs only for a hook that is not started,
\* and the application waits when all are.
HookInv ==
  /\ pc = "starting" /\ inHook => started < Service
  /\ pc = "waiting" => started = Service /\ ~inHook
  /\ pool = "open" => started >= Database
  /\ pool \in {"closing", "closed"} => started <= Database /\ pc \in {"stopping", "exited"}
  /\ pc = "stopping" /\ started = Database /\ inHook => pool # "open"

\* Work is accepted only while the service is started and not stopping; what is
\* left when it is stopped was cancelled.
JobInv ==
  /\ serving => started = Service /\ (pc = "stopping" => ~inHook)
  /\ started < Service => lifetime = "cancelled" \/ \A j \in Jobs : job[j] = "none"

\* The deadlines: whoever stops a hook before the telemetry has time left for the
\* next one.
DeadlineInv ==
  /\ pc = "starting" => now <= StartTimeout
  /\ pc = "stopping" /\ started = Service /\ ~inHook => now + ShutdownTimeout < stopBy
  /\ pc = "stopping" /\ started = Service /\ inHook => now <= drainBy /\ drainBy < stopBy
  /\ pc = "stopping" /\ started = Database /\ ~inHook => now < stopBy

LifecycleInv == LifecycleTypes /\ HookInv /\ JobInv /\ DeadlineInv /\ Released

\* The steps of jobs and of the outside that move neither hooks nor time.
Outside ==
  \/ PoolClosed \/ Signal \/ ServiceFails
  \/ \E j \in Jobs : Accept(j) \/ Work(j) \/ Finish(j)

----------------------------------------------------------------------------
\* A process that has not begun to start satisfies the invariant.
LEMMA LifecycleInit == Init => LifecycleInv
<1> SUFFICES ASSUME Init PROVE LifecycleInv
  OBVIOUS
<1>1. inHook \in BOOLEAN /\ serving \in BOOLEAN
  BY DEF Init
<1>2. LifecycleTypes
  BY <1>1 DEF Init, LifecycleTypes
<1>3. HookInv /\ JobInv /\ Released
  BY DEF Init, HookInv, JobInv, Released, Service, Database
<1>4. DeadlineInv
  BY LifecycleConstants DEF Init, DeadlineInv
<1> QED
  BY <1>2, <1>3, <1>4 DEF LifecycleInv

\* Every step keeps the types.
LEMMA TypesStep == LifecycleInv /\ [Next]_vars => LifecycleTypes'
<1> SUFFICES ASSUME LifecycleInv, [Next]_vars PROVE LifecycleTypes'
  OBVIOUS
<1> USE LifecycleConstants DEF LifecycleInv, LifecycleTypes, Service, Database, Telemetry
<1>1. CASE BeginStart
  BY <1>1 DEF BeginStart
<1>2. CASE EndStart
  <2>1. Consumer \in Jobs
    BY DEF Jobs
  <2>2. job' \in [Jobs -> {"none", "open", "running", "query"}]
    BY <1>2, <2>1 DEF EndStart
  <2>3. started' \in 0..3 /\ serving' \in BOOLEAN
    BY <1>2 DEF EndStart, HookInv
  <2> QED
    BY <1>2, <2>2, <2>3 DEF EndStart
<1>3. CASE StartFails
  <2>1. inHook' \in BOOLEAN /\ serving' \in BOOLEAN
    BY <1>3, Zenon DEF StartFails
  <2>2. now' \in Nat /\ stopBy' \in Nat /\ drainBy' \in Nat /\ started' \in 0..3
    BY <1>3 DEF StartFails, StopTimeout
  <2>3. job' \in [Jobs -> {"none", "open", "running", "query"}]
    BY <1>3 DEF StartFails
  <2> QED
    BY <1>3, <2>1, <2>2, <2>3 DEF StartFails
<1>4. CASE Started
  BY <1>4 DEF Started, StopTimeout
<1>5. CASE Wake
  BY <1>5 DEF Wake, StopTimeout
<1>6. CASE BeginStop
  <2>1. inHook' \in BOOLEAN /\ serving' \in BOOLEAN
    BY <1>6, Zenon DEF BeginStop
  <2>2. now' \in Nat /\ stopBy' \in Nat /\ drainBy' \in Nat /\ started' \in 0..3
    BY <1>6 DEF BeginStop
  <2>3. job' \in [Jobs -> {"none", "open", "running", "query"}]
    BY <1>6 DEF BeginStop
  <2> QED
    BY <1>6, <2>1, <2>2, <2>3 DEF BeginStop
<1>7. CASE StopService
  <2>1. inHook' \in BOOLEAN /\ serving' \in BOOLEAN
    BY <1>7, Zenon DEF StopService
  <2>2. now' \in Nat /\ stopBy' \in Nat /\ drainBy' \in Nat /\ started' \in 0..3
    BY <1>7 DEF StopService
  <2>3. job' \in [Jobs -> {"none", "open", "running", "query"}]
    BY <1>7 DEF StopService
  <2> QED
    BY <1>7, <2>1, <2>2, <2>3 DEF StopService
<1>8. CASE StopDatabase
  <2>1. inHook' \in BOOLEAN /\ serving' \in BOOLEAN
    BY <1>8, Zenon DEF StopDatabase
  <2>2. now' \in Nat /\ stopBy' \in Nat /\ drainBy' \in Nat /\ started' \in 0..3
    BY <1>8 DEF StopDatabase
  <2>3. job' \in [Jobs -> {"none", "open", "running", "query"}]
    BY <1>8 DEF StopDatabase
  <2> QED
    BY <1>8, <2>1, <2>2, <2>3 DEF StopDatabase
<1>9. CASE StopTelemetry
  <2>1. inHook' \in BOOLEAN /\ serving' \in BOOLEAN
    BY <1>9, Zenon DEF StopTelemetry
  <2>2. now' \in Nat /\ stopBy' \in Nat /\ drainBy' \in Nat /\ started' \in 0..3
    BY <1>9 DEF StopTelemetry
  <2>3. job' \in [Jobs -> {"none", "open", "running", "query"}]
    BY <1>9 DEF StopTelemetry
  <2> QED
    BY <1>9, <2>1, <2>2, <2>3 DEF StopTelemetry
<1>10. CASE Exit
  BY <1>10 DEF Exit
<1>11. CASE PoolClosed
  BY <1>11 DEF PoolClosed
<1>12. CASE Signal
  BY <1>12 DEF Signal
<1>13. CASE ServiceFails
  BY <1>13 DEF ServiceFails
<1>14. CASE Tick
  BY <1>14 DEF Tick
<1>15. ASSUME NEW j \in Jobs, Accept(j) \/ Work(j) \/ Finish(j) PROVE LifecycleTypes'
  BY <1>15 DEF Accept, Work, Finish
<1>16. CASE UNCHANGED vars
  BY <1>16 DEF vars
<1> QED
  BY <1>1, <1>2, <1>3, <1>4, <1>5, <1>6, <1>7, <1>8, <1>9, <1>10, <1>11, <1>12, <1>13, <1>14,
     <1>15, <1>16 DEF Next, Main

\* The steps of jobs and of the outside touch neither hooks nor deadlines.
LEMMA OutsideStep ==
  ASSUME LifecycleInv, LifecycleTypes', Outside \/ UNCHANGED vars
  PROVE  HookInv' /\ DeadlineInv' /\ Released'
<1>1. UNCHANGED <<now, pc, started, inHook, stopBy, drainBy>>
  BY Zenon DEF Outside, PoolClosed, Signal, ServiceFails, Accept, Work, Finish, vars
<1>2. pool' = pool \/ (pool = "closing" /\ pool' = "closed")
  <2>1. CASE PoolClosed
    BY <2>1 DEF PoolClosed
  <2>2. CASE ~PoolClosed
    BY <2>2 DEF Outside, Signal, ServiceFails, Accept, Work, Finish, vars
  <2> QED
    BY <2>1, <2>2
<1> QED
  BY <1>1, <1>2 DEF LifecycleInv, LifecycleTypes, HookInv, DeadlineInv, Released, Service, Database

\* Every step keeps the order of the hooks.
LEMMA HookStep == LifecycleInv /\ LifecycleTypes' /\ [Next]_vars => HookInv'
<1> SUFFICES ASSUME LifecycleInv, LifecycleTypes', [Next]_vars PROVE HookInv'
  OBVIOUS
<1> USE DEF LifecycleInv, LifecycleTypes, HookInv, Service, Database, Telemetry
<1>1. CASE BeginStart
  BY <1>1 DEF BeginStart
<1>2. CASE EndStart
  BY <1>2 DEF EndStart
<1>3. CASE StartFails
  BY <1>3 DEF StartFails
<1>4. CASE Started
  BY <1>4 DEF Started
<1>5. CASE Wake
  BY <1>5 DEF Wake
<1>6. CASE BeginStop
  BY <1>6 DEF BeginStop
<1>7. CASE StopService
  BY <1>7 DEF StopService
<1>8. CASE StopDatabase
  BY <1>8 DEF StopDatabase
<1>9. CASE StopTelemetry
  BY <1>9 DEF StopTelemetry
<1>10. CASE Exit
  BY <1>10 DEF Exit
<1>11. CASE Tick
  BY <1>11 DEF Tick
<1>12. CASE Outside \/ UNCHANGED vars
  BY <1>12, OutsideStep
<1> QED
  BY <1>1, <1>2, <1>3, <1>4, <1>5, <1>6, <1>7, <1>8, <1>9, <1>10, <1>11, <1>12
     DEF Next, Main, Outside

\* Every step keeps what is known of the jobs.
LEMMA JobStep == LifecycleInv /\ LifecycleTypes' /\ [Next]_vars => JobInv'
<1> SUFFICES ASSUME LifecycleInv, LifecycleTypes', [Next]_vars PROVE JobInv'
  OBVIOUS
<1> USE DEF LifecycleInv, LifecycleTypes, HookInv, JobInv, Service, Database, Telemetry
<1>1. CASE BeginStart
  BY <1>1 DEF BeginStart
<1>2. CASE EndStart
  BY <1>2 DEF EndStart
<1>3. CASE StartFails
  BY <1>3 DEF StartFails
<1>4. CASE Started
  BY <1>4 DEF Started
<1>5. CASE Wake
  BY <1>5 DEF Wake
<1>6. CASE BeginStop
  BY <1>6 DEF BeginStop
<1>7. CASE StopService
  BY <1>7 DEF StopService
<1>8. CASE StopDatabase
  BY <1>8 DEF StopDatabase
<1>9. CASE StopTelemetry
  BY <1>9 DEF StopTelemetry
<1>10. CASE Exit
  BY <1>10 DEF Exit
<1>11. CASE PoolClosed
  BY <1>11 DEF PoolClosed
<1>12. CASE Signal
  BY <1>12 DEF Signal
<1>13. CASE ServiceFails
  BY <1>13 DEF ServiceFails, Jobs
<1>14. CASE Tick
  BY <1>14 DEF Tick
<1>15. ASSUME NEW j \in Jobs, Accept(j) \/ Work(j) \/ Finish(j) PROVE JobInv'
  BY <1>15 DEF Accept, Work, Finish
<1>16. CASE UNCHANGED vars
  BY <1>16 DEF vars
<1> QED
  BY <1>1, <1>2, <1>3, <1>4, <1>5, <1>6, <1>7, <1>8, <1>9, <1>10, <1>11, <1>12, <1>13, <1>14,
     <1>15, <1>16 DEF Next, Main

\* Every step keeps the deadlines: the budget of a stop is longer than the drain by
\* the grace, and a rollback has the budget of a stop beyond the start.
LEMMA DeadlineStep == LifecycleInv /\ LifecycleTypes' /\ [Next]_vars => DeadlineInv' /\ Released'
<1> SUFFICES ASSUME LifecycleInv, LifecycleTypes', [Next]_vars PROVE DeadlineInv' /\ Released'
  OBVIOUS
<1> USE LifecycleConstants
    DEF LifecycleInv, LifecycleTypes, HookInv, DeadlineInv, Released, Service, Database, Telemetry
<1>1. CASE BeginStart
  BY <1>1 DEF BeginStart
<1>2. CASE EndStart
  BY <1>2 DEF EndStart
<1>3. CASE StartFails
  BY <1>3 DEF StartFails, StopTimeout
<1>4. CASE Started
  BY <1>4 DEF Started, StopTimeout
<1>5. CASE Wake
  BY <1>5 DEF Wake, StopTimeout
<1>6. CASE BeginStop
  BY <1>6 DEF BeginStop
<1>7. CASE StopService
  BY <1>7 DEF StopService
<1>8. CASE StopDatabase
  BY <1>8 DEF StopDatabase
<1>9. CASE StopTelemetry
  BY <1>9 DEF StopTelemetry
<1>10. CASE Exit
  BY <1>10 DEF Exit
<1>11. CASE Tick
  BY <1>11 DEF Tick
<1>12. CASE Outside \/ UNCHANGED vars
  BY <1>12, OutsideStep
<1> QED
  BY <1>1, <1>2, <1>3, <1>4, <1>5, <1>6, <1>7, <1>8, <1>9, <1>10, <1>11, <1>12
     DEF Next, Main, Outside

\* The invariant holds in every reachable state.
LEMMA LifecycleInvariant == Spec => []LifecycleInv
<1>1. LifecycleInv /\ [Next]_vars => LifecycleInv'
  BY TypesStep, HookStep, JobStep, DeadlineStep DEF LifecycleInv
<1> QED
  BY <1>1, LifecycleInit, PTL DEF Spec

----------------------------------------------------------------------------
\* The database pool is taken away only from requests and consumers whose context
\* is cancelled (newHTTPService, newMailConsumer, newDatabase).
THEOREM PoolClosesLast == Spec => []PoolOutlivesJobs
<1>1. LifecycleInv => PoolOutlivesJobs
  BY DEF LifecycleInv, LifecycleTypes, HookInv, JobInv, PoolOutlivesJobs, Service, Database
<1> QED
  BY <1>1, LifecycleInvariant, PTL

\* A process that ends has stopped what it started, or at least cancelled its jobs
\* and closed the pool to them, for any timeouts (runApplication).
THEOREM ProcessReleases == Spec => []Released
BY LifecycleInvariant, PTL DEF LifecycleInv
=============================================================================
