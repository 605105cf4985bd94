---------------------------- MODULE PluginLifecycle ----------------------------
(***************************************************************************)
(* The life of the plugin: InitializeResources (apollo.go), the phases of  *)
(* startupTasksContext with cancellation and roll-back, the steps of       *)
(* cleanupTasksContext (lifecycle_context.go, cleanup.go), and reads of    *)
(* configuration that run through all of it (config.go).                   *)
(*                                                                         *)
(* The n-th client built is n, and 0 is nil.  p.mu is held by startup from *)
(* its first line to its last, calls of the framework included; everybody  *)
(* else holds it for one step.  The framework is external: it initializes  *)
(* and starts the plugin from one goroutine and never while a stop runs,   *)
(* but it may stop the plugin while it starts, and from several goroutines *)
(* ("concurrent shutdown").  Watchers are in WatchRegistry.                *)
(***************************************************************************)
EXTENDS Naturals

CONSTANTS
    Stoppers,           \* goroutines of the framework that call Stop
    Readers,            \* goroutines that call GetConfigValue
    FrameworkReads,     \* whether the framework, called by startup, may read
                        \* configuration from the plugin before it returns
    MaxStarts           \* bound: clients built

ASSUME LifecycleAssumption == FrameworkReads \in BOOLEAN /\ MaxStarts \in Nat

VARIABLES
    initialized, destroyed,     \* the plugin's flags
    components,     \* retryManager, circuitBreaker and metrics are not nil
    registered,     \* the metrics are in Prometheus' default registry
    client,         \* p.client
    built,          \* clients built so far
    closed,         \* the clients whose Close was called
    mu,             \* startup holds p.mu
    cancelled,      \* the context of the startup under way is done
    boot,           \* the goroutine that initializes and starts the plugin
    stop,           \* per stopper: where cleanupTasksContext is
    taken,          \* the client closeClientConnection took from p.client
    healthCheckCh,  \* the channel is open, and not nil
    cache,          \* the client the cached value came from
    reader,         \* per reader: where it is, the client it works with, and
                    \* (history) whether a teardown was over when it began
    asked,          \* history: a stop has found the plugin initialized
    tornDown        \* history: a teardown has come to its end

flags == <<initialized, destroyed>>
clientVars == <<client, built, closed>>
startVars == <<mu, cancelled, boot>>
stopVars == <<stop, taken, healthCheckCh, asked, tornDown>>
readVars == <<cache, reader>>
vars == <<flags, components, registered, clientVars, startVars, stopVars, readVars>>

Clients == 0..MaxStarts

\* "ready": initialized, not started; "lock": Start was called; then the phases in
\* order; "reentered": the framework waits, in a phase, for a read of the plugin.
Phases == {"control", "config", "publish", "load"}
BootStates == {"off", "ready", "unusable", "lock", "reentered", "rollback", "unwind",
               "up", "failed"} \union Phases

StopStates == {"idle", "swap", "health", "watchers", "client", "close", "memory", "cache",
               "background", "clear"}

Reader == [at : {"idle", "called", "snapshot", "attempt", "lookup", "send", "wait", "store",
                 "value", "error", "failed"},
           client : Clients, late : BOOLEAN]

TypeOK == /\ initialized \in BOOLEAN /\ destroyed \in BOOLEAN
          /\ components \in BOOLEAN /\ registered \in BOOLEAN
          /\ client \in Clients /\ built \in Clients /\ closed \subseteq 1..built
          /\ mu \in BOOLEAN /\ cancelled \in BOOLEAN
          /\ boot \in BootStates
          /\ stop \in [Stoppers -> StopStates]
          /\ taken \in Clients
          /\ healthCheckCh \in BOOLEAN /\ asked \in BOOLEAN /\ tornDown \in BOOLEAN
          /\ cache \in Clients
          /\ reader \in [Readers -> Reader]
          /\ \A r \in Readers : reader[r].at \in {"send", "wait", "store"}
                                   => reader[r].client # 0

\* NewApolloConfigCenter.
Init == /\ initialized = FALSE /\ destroyed = FALSE
        /\ components = FALSE /\ registered = FALSE
        /\ client = 0 /\ built = 0 /\ closed = {}
        /\ mu = FALSE /\ cancelled = FALSE /\ boot = "off"
        /\ stop = [s \in Stoppers |-> "idle"]
        /\ taken = 0
        /\ healthCheckCh = TRUE /\ asked = FALSE /\ tornDown = FALSE
        /\ cache = 0
        /\ reader = [r \in Readers |-> [at |-> "idle", client |-> 0, late |-> FALSE]]

NoStopRuns == \A s \in Stoppers : stop[s] = "idle"
Halted == {"ready", "up", "failed"}

--------------------------------------------------------------------------------
(* InitializeResources and startupTasksContext. *)

\* Mutant: every life has metrics of its own, in a registry of its own.
InitializeFresh ==
    /\ boot = "off" \/ boot \in Halted
    /\ NoStopRuns
    /\ destroyed' = FALSE
    /\ components' = TRUE /\ registered' = TRUE /\ boot' = "ready"
    /\ UNCHANGED <<initialized, clientVars, mu, cancelled, stopVars, readVars>>

\* The configuration is valid: see PluginConfig for those that are not.  A second
\* call panics in NewApolloMetrics, as the default registry has the metrics; the
\* framework then does not start the plugin.
Initialize ==
    /\ boot = "off" \/ boot \in Halted
    /\ NoStopRuns
    /\ destroyed' = FALSE
    /\ IF registered
       THEN boot' = "unusable" /\ UNCHANGED <<components, registered>>
       ELSE components' = TRUE /\ registered' = TRUE /\ boot' = "ready"
    /\ UNCHANGED <<initialized, clientVars, mu, cancelled, stopVars, readVars>>

Start == /\ boot \in Halted
         /\ NoStopRuns
         /\ built < MaxStarts
         /\ boot' = "lock"
         /\ cancelled' = FALSE
         /\ UNCHANGED <<flags, components, registered, clientVars, mu, stopVars, readVars>>

\* The deadline of the startup passes, or its caller gives up.
CancelStart == /\ boot \in Phases \union {"lock", "reentered"}
               /\ ~cancelled
               /\ cancelled' = TRUE
               /\ UNCHANGED <<flags, components, registered, clientVars, mu, boot,
                              stopVars, readVars>>

\* Mutant: the early return leaves p.mu locked.
StartRefusedLocked ==
    /\ boot = "lock" /\ ~mu
    /\ cancelled \/ initialized
    /\ boot' = "failed"
    /\ mu' = TRUE
    /\ UNCHANGED <<flags, components, registered, clientVars, cancelled, stopVars,
                   readVars>>

\* The head of startupTasksContext: it gives up, or builds the client and sets
\* the flag before anything else is done.
StartRefused == /\ boot = "lock" /\ ~mu
                /\ cancelled \/ initialized
                /\ boot' = "failed"
                /\ UNCHANGED <<flags, components, registered, clientVars, mu,
                               cancelled, stopVars, readVars>>

StartBuild == /\ boot = "lock" /\ ~mu
              /\ ~cancelled /\ ~initialized
              /\ mu' = TRUE
              /\ built' = built + 1
              /\ client' = built'
              /\ initialized' = TRUE
              /\ boot' = "control"
              /\ UNCHANGED <<destroyed, components, registered, closed, cancelled,
                             stopVars, readVars>>

NextPhase == [control |-> "config", config |-> "publish", publish |-> "load", load |-> "up"]

\* A phase looks at the context and then calls the framework: SetControlPlane,
\* InitControlPlaneConfig, publishRuntimeResources, LoadPlugins.  The last one
\* that succeeds lets p.mu go.
PhaseDone == /\ boot \in Phases /\ ~cancelled
             /\ boot' = NextPhase[boot]
             /\ mu' = (boot # "load")
             /\ UNCHANGED <<flags, components, registered, clientVars, cancelled,
                            stopVars, readVars>>

\* The context is done, or the framework reports an error.
PhaseFails == /\ boot \in Phases
              /\ boot' = "rollback"
              /\ UNCHANGED <<flags, components, registered, clientVars, mu, cancelled,
                             stopVars, readVars>>

\* In InitControlPlaneConfig or LoadPlugins the framework waits for a call of
\* GetConfig or GetConfigValue, which wants p.mu: there is no step out of this.
PhaseReenters == /\ FrameworkReads
                 /\ boot \in {"config", "load"} /\ ~cancelled
                 /\ boot' = "reentered"
                 /\ UNCHANGED <<flags, components, registered, clientVars, mu,
                                cancelled, stopVars, readVars>>

\* Mutant: the client is dropped without being closed.
RollbackForgets == /\ boot = "rollback"
                   /\ initialized' = FALSE
                   /\ boot' = "unwind"
                   /\ UNCHANGED <<destroyed, components, registered, clientVars, mu,
                                  cancelled, stopVars, readVars>>

\* The deferred roll-back: the flag, Close, nil, and then p.mu.
Rollback == /\ boot = "rollback"
            /\ initialized' = FALSE
            /\ closed' = closed \union {client}
            /\ boot' = "unwind"
            /\ UNCHANGED <<destroyed, components, registered, client, built, mu,
                           cancelled, stopVars, readVars>>

Unwind == /\ boot = "unwind"
          /\ client' = 0
          /\ mu' = FALSE
          /\ boot' = "failed"
          /\ UNCHANGED <<flags, components, registered, built, closed, cancelled,
                         stopVars, readVars>>

StartStep == \/ StartRefused \/ StartBuild \/ PhaseDone \/ PhaseFails \/ PhaseReenters
             \/ Rollback \/ Unwind

--------------------------------------------------------------------------------
(* cleanupTasksContext. *)

StopGoto(s, to) == stop' = [stop EXCEPT ![s] = to]

\* Mutant: no look at initialized, only the swap of destroyed.
StopCalledBlindly(s) ==
    /\ stop[s] = "idle" /\ boot # "off"
    /\ StopGoto(s, "swap")
    /\ asked' = (asked \/ initialized)
    /\ UNCHANGED <<flags, components, registered, clientVars, startVars, taken,
                   healthCheckCh, tornDown, readVars>>

\* A plugin that is not initialized has nothing to clean up.
StopCalled(s) ==
    /\ stop[s] = "idle" /\ boot # "off"
    /\ initialized
    /\ StopGoto(s, "swap")
    /\ asked' = TRUE
    /\ UNCHANGED <<flags, components, registered, clientVars, startVars, taken,
                   healthCheckCh, tornDown, readVars>>

\* The swap of destroyed, a step later: one of several calls wins, and even a
\* startup that has rolled back in between is marked.
StopSwap(s) ==
    /\ stop[s] = "swap"
    /\ destroyed' = TRUE
    /\ StopGoto(s, IF destroyed THEN "idle" ELSE "health")
    /\ UNCHANGED <<initialized, components, registered, clientVars, startVars, taken,
                   healthCheckCh, asked, tornDown, readVars>>

\* stopHealthCheck, the first to want p.mu.
StopHealthCheck(s) ==
    /\ stop[s] = "health" /\ ~mu
    /\ healthCheckCh' = FALSE
    /\ StopGoto(s, "watchers")
    /\ UNCHANGED <<flags, components, registered, clientVars, startVars, taken,
                   asked, tornDown, readVars>>

\* cleanupWatchers: see WatchRegistry.
StopWatchers(s) ==
    /\ stop[s] = "watchers"
    /\ StopGoto(s, "client")
    /\ UNCHANGED <<flags, components, registered, clientVars, startVars, taken,
                   healthCheckCh, asked, tornDown, readVars>>

\* Mutant: without a client the teardown ends here.
TakeClientOrReturn(s) ==
    /\ stop[s] = "client" /\ ~mu
    /\ taken' = client
    /\ client' = 0
    /\ StopGoto(s, IF client = 0 THEN "idle" ELSE "close")
    /\ UNCHANGED <<flags, components, registered, built, closed, startVars,
                   healthCheckCh, asked, tornDown, readVars>>

\* closeClientConnection takes the client away under p.mu and closes it after.
TakeClient(s) ==
    /\ stop[s] = "client" /\ ~mu
    /\ taken' = client
    /\ client' = 0
    /\ StopGoto(s, "close")
    /\ UNCHANGED <<flags, components, registered, built, closed, startVars,
                   healthCheckCh, asked, tornDown, readVars>>

CloseClient(s) ==
    /\ stop[s] = "close"
    /\ closed' = closed \union ({taken} \ {0})
    /\ taken' = 0
    /\ StopGoto(s, "memory")
    /\ UNCHANGED <<flags, components, registered, client, built, startVars,
                   healthCheckCh, asked, tornDown, readVars>>

\* releaseMemoryResources: the components under p.mu, then the cache.
ReleaseMemory(s) ==
    /\ stop[s] = "memory" /\ ~mu
    /\ components' = FALSE
    /\ StopGoto(s, "cache")
    /\ UNCHANGED <<flags, registered, clientVars, startVars, taken, healthCheckCh,
                   asked, tornDown, readVars>>

ClearConfigCache(s) ==
    /\ stop[s] = "cache"
    /\ cache' = 0
    /\ StopGoto(s, "background")
    /\ UNCHANGED <<flags, components, registered, clientVars, startVars, taken,
                   healthCheckCh, asked, tornDown, reader>>

\* stopBackgroundTasks finds everything nil already.
StopBackgroundTasks(s) ==
    /\ stop[s] = "background" /\ ~mu
    /\ components' = FALSE
    /\ StopGoto(s, "clear")
    /\ UNCHANGED <<flags, registered, clientVars, startVars, taken, healthCheckCh,
                   asked, tornDown, readVars>>

ClearInitialized(s) ==
    /\ stop[s] = "clear"
    /\ initialized' = FALSE
    /\ tornDown' = TRUE
    /\ StopGoto(s, "idle")
    /\ UNCHANGED <<destroyed, components, registered, clientVars, startVars, taken,
                   healthCheckCh, asked, readVars>>

StopStep(s) == \/ StopSwap(s) \/ StopHealthCheck(s) \/ StopWatchers(s)
               \/ TakeClient(s) \/ CloseClient(s) \/ ReleaseMemory(s)
               \/ ClearConfigCache(s) \/ StopBackgroundTasks(s) \/ ClearInitialized(s)

--------------------------------------------------------------------------------
(* GetConfigValue, with enable_cache and one key. *)

ReadGoto(r, to) == reader' = [reader EXCEPT ![r].at = to]
OnlyReads == UNCHANGED <<flags, components, registered, clientVars, startVars, stopVars>>

\* checkInitialized loads one flag, and then the other.
ReadCalled(r) ==
    /\ reader[r].at \in {"idle", "value", "error", "failed"}
    /\ initialized
    /\ reader' = [reader EXCEPT ![r] = [at |-> "called", client |-> 0, late |-> tornDown]]
    /\ OnlyReads /\ UNCHANGED cache

ReadBegin(r) ==
    /\ reader[r].at = "called"
    /\ ReadGoto(r, IF destroyed THEN "failed" ELSE "snapshot")
    /\ OnlyReads /\ UNCHANGED cache

\* The breaker and the retry manager are copied, once for the whole call.
ReadSnapshot(r) ==
    /\ reader[r].at = "snapshot" /\ ~mu
    /\ ReadGoto(r, IF components THEN "attempt" ELSE "failed")
    /\ OnlyReads /\ UNCHANGED cache

\* Mutant: the client of an attempt is not looked at.
ReadAttemptUnchecked(r) ==
    /\ reader[r].at = "attempt" /\ ~mu
    /\ reader' = [reader EXCEPT ![r].client = client, ![r].at = "lookup"]
    /\ OnlyReads /\ UNCHANGED cache

\* Each attempt copies the client anew; without one it fails.
ReadAttempt(r) ==
    /\ reader[r].at = "attempt" /\ ~mu
    /\ reader' = [reader EXCEPT ![r].client = client,
                                ![r].at = IF client = 0 THEN "error" ELSE "lookup"]
    /\ OnlyReads /\ UNCHANGED cache

ReadLookup(r) ==
    /\ reader[r].at = "lookup"
    /\ ReadGoto(r, IF cache = 0 THEN "send" ELSE "value")
    /\ OnlyReads /\ UNCHANGED cache

\* A closed client refuses; one that is closed later goes on with its request.
ReadSend(r) ==
    /\ reader[r].at = "send"
    /\ ReadGoto(r, IF reader[r].client \in closed THEN "error" ELSE "wait")
    /\ OnlyReads /\ UNCHANGED cache

ReadReturned(r) ==
    /\ reader[r].at = "wait"
    /\ \E to \in {"store", "error"} : ReadGoto(r, to)
    /\ OnlyReads /\ UNCHANGED cache

ReadStore(r) ==
    /\ reader[r].at = "store"
    /\ cache' = reader[r].client
    /\ ReadGoto(r, "value")
    /\ OnlyReads

\* A failed attempt that is not the last one.
ReadRetry(r) ==
    /\ reader[r].at = "error"
    /\ ReadGoto(r, "attempt")
    /\ OnlyReads /\ UNCHANGED cache

ReadStep(r) == \/ ReadBegin(r) \/ ReadSnapshot(r) \/ ReadAttempt(r) \/ ReadLookup(r) \/ ReadSend(r)
               \/ ReadReturned(r) \/ ReadStore(r)

--------------------------------------------------------------------------------

Next == \/ Initialize \/ Start \/ CancelStart \/ StartStep
        \/ \E s \in Stoppers : StopCalled(s) \/ StopStep(s)
        \/ \E r \in Readers : ReadCalled(r) \/ ReadRetry(r) \/ ReadStep(r)

Spec == Init /\ [][Next]_vars

\* Startup and the stops go on: calls of the framework return, unless it waits for
\* the plugin itself, and the watchers' Stop returns (see WatchRegistry).
Fairness == WF_vars(StartStep) /\ \A s \in Stoppers : WF_vars(StopStep(s))

FairSpec == Spec /\ Fairness

--------------------------------------------------------------------------------
(* Properties. *)

\* No client is lost and none is handed out closed: whenever p.mu is free, the
\* clients that are not closed are p.client and the one a teardown is about to
\* close, whatever startups failed, were cancelled or were stopped half-way.
ClientsAccountedFor ==
    ~mu => \A c \in 1..built : c \notin closed <=> c \in {client, taken}

\* A startup that succeeds leaves a plugin that can be used, also after earlier
\* ones that failed or were cancelled, provided no stop has met the plugin
\* initialized.
StartedIsUsable ==
    boot = "up" /\ ~asked => /\ initialized /\ ~destroyed /\ components
                             /\ client # 0 /\ client \notin closed

\* After a teardown no read succeeds any more, whatever the framework starts
\* again: so no value of an earlier life is ever served, although a read under
\* way fills the cache after it was cleared.
NoReadAfterTeardown == \A r \in Readers : reader[r].late => reader[r].at # "value"

\* A startup comes to its end, unless the framework waits for the plugin, which
\* waits for p.mu, which startup holds.
StartReturns == boot = "lock" ~> boot \in Halted \/ [](boot = "reentered")

\* A stop that has marked the plugin tears it down ("teardown always runs to
\* completion"), also when it meets a startup under way, with the same exception.
StopTearsDown ==
    \A s \in Stoppers : stop[s] = "health"
        ~> (~initialized /\ client = 0 /\ ~components) \/ [](boot = "reentered")
================================================================================
