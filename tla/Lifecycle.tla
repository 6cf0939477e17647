----------------------------- MODULE Lifecycle ------------------------------
(***************************************************************************)
(* Starting and stopping one process, the API or the worker (app/appfx,    *)
(* app/api/server.go, app/worker/module.go).  Three hooks start in order:  *)
(* telemetry, the database pool and the service; Fx, a library, stops the  *)
(* started ones in reverse order.  Beside them run the jobs that use the   *)
(* pool: HTTP requests, or the mail consumer.                              *)
(*                                                                         *)
(* Time advances in ticks, and only while the process starts or stops.     *)
(* What waits for a deadline reacts to it before the next tick, but a hook *)
(* that ends at the deadline may end either way.  A job may ignore that    *)
(* its context is cancelled for as long as it likes.                       *)
(***************************************************************************)
EXTENDS Naturals

CONSTANTS
    Requests,         \* HTTP requests of the API
    Consumer,         \* the mail consumer of the worker
    StartTimeout,     \* of Fx, in ticks, as all the times below
    ShutdownTimeout,  \* SHUTDOWN_TIMEOUT
    Grace             \* infrastructureShutdownGrace

ASSUME LifecycleConstants ==
    /\ Consumer \notin Requests
    /\ StartTimeout \in Nat \ {0}
    /\ ShutdownTimeout \in Nat \ {0}
    /\ Grace \in Nat \ {0}

Telemetry == 1
Database == 2
Service == 3

VARIABLES
    kind,       \* which process this is: "api" or "worker"
    now,        \* clock
    pc,         \* runApplication: "starting", "waiting", "stopping" or "exited"
    started,    \* how many hooks are started; Fx stops the last of them next
    inHook,     \* a hook is running: the next one's OnStart, or the last one's OnStop
    stopBy,     \* deadline of the context the OnStop hooks get
    drainBy,    \* deadline of the service's OnStop
    signalled,  \* the command's context is cancelled
    events,     \* the channel of Failures holds an error
    serving,    \* the service's goroutine accepts work
    lifetime,   \* the context of the jobs: "live" or "cancelled"
    pool,       \* "none", "open", "closing" or "closed"
    job,        \* each job: "none", "open" (accepted), "running" or "query" (it
                \* has a connection)
    cause       \* the error to return: "none", "start" or "failure"

vars == <<kind, now, pc, started, inHook, stopBy, drainBy, signalled, events,
          serving, lifetime, pool, job, cause>>

Jobs == Requests \union {Consumer}

Init ==
  /\ kind \in {"api", "worker"}
  /\ now = 0
  /\ pc = "starting"
  /\ started = 0
  /\ inHook = FALSE
  /\ stopBy = 0
  /\ drainBy = 0
  /\ signalled = FALSE
  /\ events = FALSE
  /\ serving = FALSE
  /\ lifetime = "live"
  /\ pool = "none"
  /\ job = [j \in Jobs |-> "none"]
  /\ cause = "none"

----------------------------------------------------------------------------
\* StopTimeout
StopTimeout == ShutdownTimeout + Grace

\* startupCtx is cancelled with the command's context or by StartTimeout.
StartupDone == signalled \/ now >= StartTimeout

\* The wrapper around OnStart runs it only while the startup context is live.
BeginStart ==
  /\ pc = "starting" /\ ~inHook /\ started < Service
  /\ ~StartupDone
  /\ inHook' = TRUE
  /\ UNCHANGED <<kind, now, pc, started, stopBy, drainBy, signalled, events,
                 serving, lifetime, pool, job, cause>>

\* OnStart of the next hook succeeds, perhaps after its context was cancelled.
EndStart ==
  /\ pc = "starting" /\ inHook
  /\ inHook' = FALSE
  /\ started' = started + 1
  /\ pool' = IF started' = Database THEN "open" ELSE pool
  /\ serving' = (started' = Service)
  /\ job' = IF started' = Service /\ kind = "worker"
              THEN [job EXCEPT ![Consumer] = "running"] ELSE job
  /\ UNCHANGED <<kind, now, pc, stopBy, drainBy, signalled, events, lifetime, cause>>

\* Faulty variant: the rollback inherits the startup context.
StartFailsSameContext ==
  /\ pc = "starting" /\ started < Service
  /\ inHook \/ StartupDone
  /\ pc' = "stopping"
  /\ inHook' = FALSE
  /\ stopBy' = IF StartupDone THEN now ELSE StartTimeout
  /\ cause' = "start"
  /\ UNCHANGED <<kind, now, started, drainBy, signalled, events, serving, lifetime,
                 pool, job>>

\* OnStart fails, or is not even called, and Fx rolls back what had started.
\* It uses the context given to app.Start, which has time for both.
StartFails ==
  /\ pc = "starting" /\ started < Service
  /\ inHook \/ StartupDone
  /\ pc' = "stopping"
  /\ inHook' = FALSE
  /\ stopBy' = StartTimeout + StopTimeout
  /\ cause' = "start"
  /\ UNCHANGED <<kind, now, started, drainBy, signalled, events, serving, lifetime,
                 pool, job>>

\* app.Start returned nil.  The startup context may be done all the same.
Started ==
  /\ pc = "starting" /\ started = Service
  /\ \/ /\ StartupDone
        /\ pc' = "stopping"
        /\ stopBy' = now + StopTimeout
        /\ cause' = "start"
     \/ /\ ~StartupDone
        /\ pc' = "waiting"
        /\ UNCHANGED <<stopBy, cause>>
  /\ UNCHANGED <<kind, now, started, inHook, drainBy, signalled, events, serving,
                 lifetime, pool, job>>

\* The select of runApplication; either case may be taken when both are ready.
Wake ==
  /\ pc = "waiting"
  /\ \/ signalled /\ UNCHANGED <<events, cause>>
     \/ events /\ events' = FALSE /\ cause' = "failure"
  /\ pc' = "stopping"
  /\ stopBy' = now + StopTimeout
  /\ UNCHANGED <<kind, now, started, inHook, drainBy, signalled, serving, lifetime,
                 pool, job>>

\* OnStop of the last started hook begins: the API stops listening and waits for
\* its requests, the worker cancels the consumer and waits for it, the pool
\* refuses new queries.
BeginStop ==
  /\ pc = "stopping" /\ ~inHook /\ started > 0
  /\ now < stopBy
  /\ inHook' = TRUE
  /\ IF started = Service
       THEN /\ drainBy' = IF now + ShutdownTimeout < stopBy THEN now + ShutdownTimeout ELSE stopBy
            /\ serving' = FALSE
            /\ lifetime' = IF kind = "worker" THEN "cancelled" ELSE lifetime
       ELSE UNCHANGED <<drainBy, serving, lifetime>>
  /\ pool' = IF started = Database THEN "closing" ELSE pool
  /\ UNCHANGED <<kind, now, pc, started, stopBy, signalled, events, job, cause>>

\* Faulty variant: when draining takes too long the server is closed, which
\* leaves the contexts of its handlers alone.
StopServiceNoCancel ==
  /\ pc = "stopping" /\ inHook /\ started = Service
  /\ \/ (\A j \in Jobs : job[j] = "none") /\ UNCHANGED job
     \/ /\ now >= drainBy
        /\ job' = [j \in Jobs |-> IF job[j] = "open" THEN "none" ELSE job[j]]
  /\ lifetime' = lifetime
  /\ inHook' = FALSE
  /\ started' = started - 1
  /\ UNCHANGED <<kind, now, pc, stopBy, drainBy, signalled, events, serving, pool, cause>>

\* OnStop of the service ends: the jobs are done, or it took too long.  Then the
\* API cancels the requests and closes their connections; a handler that runs
\* goes on until it notices.
StopService ==
  /\ pc = "stopping" /\ inHook /\ started = Service
  /\ \/ (\A j \in Jobs : job[j] = "none") /\ UNCHANGED job
     \/ /\ now >= drainBy
        /\ job' = [j \in Jobs |-> IF job[j] = "open" THEN "none" ELSE job[j]]
  /\ lifetime' = "cancelled"
  /\ inHook' = FALSE
  /\ started' = started - 1
  /\ UNCHANGED <<kind, now, pc, stopBy, drainBy, signalled, events, serving, pool, cause>>

\* OnStop of the database ends: all connections are back, or time is up.
StopDatabase ==
  /\ pc = "stopping" /\ inHook /\ started = Database
  /\ \/ pool = "closed"
     \/ now >= stopBy
  /\ inHook' = FALSE
  /\ started' = started - 1
  /\ UNCHANGED <<kind, now, pc, stopBy, drainBy, signalled, events, serving, lifetime,
                 pool, job, cause>>

\* The goroutine that runs pool.Close has all connections back.
PoolClosed ==
  /\ pc # "exited" /\ pool = "closing"
  /\ \A j \in Jobs : job[j] # "query"
  /\ pool' = "closed"
  /\ UNCHANGED <<kind, now, pc, started, inHook, stopBy, drainBy, signalled, events,
                 serving, lifetime, job, cause>>

\* OnStop of the telemetry ends, with or without an error.
StopTelemetry ==
  /\ pc = "stopping" /\ inHook /\ started = Telemetry
  /\ inHook' = FALSE
  /\ started' = started - 1
  /\ UNCHANGED <<kind, now, pc, stopBy, drainBy, signalled, events, serving, lifetime,
                 pool, job, cause>>

\* runApplication returns: nothing is left to stop, or the context is done, even
\* though a hook may still be running.
Exit ==
  /\ pc = "stopping"
  /\ (started = 0 /\ ~inHook) \/ now >= stopBy
  /\ pc' = "exited"
  /\ UNCHANGED <<kind, now, started, inHook, stopBy, drainBy, signalled, events,
                 serving, lifetime, pool, job, cause>>

----------------------------------------------------------------------------
\* SIGINT or SIGTERM
Signal ==
  /\ pc # "exited" /\ ~signalled
  /\ signalled' = TRUE
  /\ UNCHANGED <<kind, now, pc, started, inHook, stopBy, drainBy, events, serving,
                 lifetime, pool, job, cause>>

\* Faulty variant: the channel has no buffer, and Report finds nobody waiting.
ServiceFailsUnbuffered ==
  /\ serving
  /\ serving' = FALSE
  /\ events' = (pc = "waiting")
  /\ job' = [job EXCEPT ![Consumer] = "none"]
  /\ UNCHANGED <<kind, now, pc, started, inHook, stopBy, drainBy, signalled, lifetime,
                 pool, cause>>

\* Serve, or the consumer's Run, returns an error and its goroutine reports it.
ServiceFails ==
  /\ serving
  /\ serving' = FALSE
  /\ events' = TRUE
  /\ job' = [job EXCEPT ![Consumer] = "none"]
  /\ UNCHANGED <<kind, now, pc, started, inHook, stopBy, drainBy, signalled, lifetime,
                 pool, cause>>

\* A connection to the API is accepted; its request may come later, while the
\* server drains.
Accept(j) ==
  /\ kind = "api" /\ serving /\ j \in Requests /\ job[j] = "none"
  /\ job' = [job EXCEPT ![j] = "open"]
  /\ UNCHANGED <<kind, now, pc, started, inHook, stopBy, drainBy, signalled, events,
                 serving, lifetime, pool, cause>>

\* The request arrives, a job gets a connection from the pool or gives it back.
\* A cancelled job may still get one: the record of a failure, the release of a
\* claimed flow and the write back of a delivery are not cancelled with it.
Work(j) ==
  /\ pc # "exited"
  /\ \/ job[j] = "open" /\ job' = [job EXCEPT ![j] = "running"]
     \/ job[j] = "running" /\ pool = "open" /\ job' = [job EXCEPT ![j] = "query"]
     \/ job[j] = "query" /\ job' = [job EXCEPT ![j] = "running"]
  /\ UNCHANGED <<kind, now, pc, started, inHook, stopBy, drainBy, signalled, events,
                 serving, lifetime, pool, cause>>

\* A job ends: the consumer only when it is cancelled, a request for any reason,
\* a closed pool included.
Finish(j) ==
  /\ pc # "exited" /\ job[j] \in {"open", "running"}
  /\ j = Consumer => lifetime = "cancelled"
  /\ job' = [job EXCEPT ![j] = "none"]
  /\ UNCHANGED <<kind, now, pc, started, inHook, stopBy, drainBy, signalled, events,
                 serving, lifetime, pool, cause>>

\* Time passes in a hook; nobody sleeps beyond a deadline or when what it waits
\* for has come.
Tick ==
  /\ inHook
  /\ \/ pc = "starting" /\ now < StartTimeout
     \/ /\ pc = "stopping" /\ now < stopBy
        /\ started = Service => now < drainBy /\ \E j \in Jobs : job[j] # "none"
        /\ started = Database => \E j \in Jobs : job[j] = "query"
  /\ now' = now + 1
  /\ UNCHANGED <<kind, pc, started, inHook, stopBy, drainBy, signalled, events,
                 serving, lifetime, pool, job, cause>>

Main ==
  \/ BeginStart \/ EndStart \/ StartFails \/ Started \/ Wake
  \/ BeginStop \/ StopService \/ StopDatabase \/ StopTelemetry \/ Exit

Next ==
  \/ Main \/ PoolClosed \/ Signal \/ ServiceFails \/ Tick
  \/ \E j \in Jobs : Accept(j) \/ Work(j) \/ Finish(j)

\* The goroutine of runApplication and the one that closes the pool run on, and
\* time passes.  Nothing is asked of the jobs: a handler that never ends must not
\* keep the process from exiting.
Fairness == WF_vars(Main) /\ WF_vars(PoolClosed) /\ WF_vars(Tick)

Spec == Init /\ [][Next]_vars /\ Fairness

----------------------------------------------------------------------------
\* Properties

\* The pool is only taken away from jobs that were told to stop: as long as a
\* request's or the consumer's context is live, queries are possible, through the
\* whole drain (BeginStop and StopService, newHTTPService and newDatabase).
PoolOutlivesJobs ==
  pool \in {"closing", "closed"} =>
    \A j \in Jobs : job[j] \in {"running", "query"} => lifetime = "cancelled"

\* When the process ends everything that had started is stopped, whether it was
\* rolled back by a start that was cancelled or stopped later.  If a job keeps its
\* connection until the very end, or the telemetry is slow, then at least the jobs
\* are cancelled and the pool is closed to them (runApplication, StopTimeout).
Released ==
  pc = "exited" =>
    \/ started = 0
    \/ now >= stopBy /\ started <= Database /\ pool # "open"

\* A signal and a failure of the service, even one that comes before the process
\* waits for it, end the process, and without a signal it returns an error.
Ends ==
  /\ (signalled \/ events) ~> (pc = "exited")
  /\ (started = Service /\ ~serving) ~> (pc = "exited" /\ (cause # "none" \/ signalled))
=============================================================================
