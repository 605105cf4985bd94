----------------------------- MODULE WatchRegistry -----------------------------
(***************************************************************************)
(* The plugin's registry of watchers: WatchConfig and ConfigWatcher of     *)
(* watchers.go, the watcher part of cleanupTasksContext                    *)
(* (lifecycle_context.go, cleanup.go), and the flags the two share.        *)
(*                                                                         *)
(* Each call of WatchConfig may create one ConfigWatcher; the watcher is   *)
(* named after the call.  A ConfigWatcher owns an ApolloConfigWatcher,     *)
(* here reduced to whether its loop runs and whether it has been told to   *)
(* stop: ApolloConfigWatcher.tla is the whole of it.                       *)
(***************************************************************************)
EXTENDS Naturals

CONSTANTS
    Calls,          \* calls of WatchConfig, and the watchers they create
    Namespaces,
    None,           \* no watcher
    CallbackDoes,   \* what onChange may do: "evict", "watch" (call WatchConfig
                    \* for its own namespace), "stop" (call Stop on its watcher)
    UserStops,      \* whether users stop the watchers they were given
    MaxStartups     \* bound: times the plugin begins to start

ASSUME RegistryAssumption ==
    /\ None \notin Calls
    /\ CallbackDoes \subseteq {"evict", "watch", "stop"}
    /\ UserStops \in BOOLEAN
    /\ MaxStartups \in Nat \ {0}

VARIABLES
    initialized, destroyed,  \* the plugin's flags
    hasClient,      \* p.client is not nil
    starting,       \* startupTasksContext is under way: it holds p.mu
    startups,       \* times it has begun
    rolledBack,     \* history: it has failed and rolled back
    cleanup,        \* cleanupTasksContext: "idle", "called" (initialized was seen),
                    \* "marked" (destroyed is set), "stopping" (cleanupWatchers holds
                    \* watcherMutex), "closing"
    cleaning,       \* the watcher whose Stop cleanupWatchers is in, or None
    registry,       \* p.configWatchers
    call,           \* where each call of WatchConfig is
    ns,             \* its namespace
    result,         \* the watcher it returned
    client,         \* per watcher: it was given a client
    stopCh,         \* per watcher: ConfigWatcher.stopCh is closed
    stop,           \* per watcher, inside stopOnce: "none", "begun" (stopCh is
                    \* closed), "joining" (aw.Stop), "waiting" (wg.Wait), "done"
    aw,             \* per watcher, the ApolloConfigWatcher: "none", "attached"
                    \* (w.apolloWatcher is set), "running", "exited"
    awStopped,      \* per watcher: aw.Stop has closed its stop channel
    dispatch,       \* where dispatchLoop is
    errors          \* calls of onError, each of which starts retryConfigWatch

vars == <<initialized, destroyed, hasClient, starting, startups, rolledBack, cleanup,
          cleaning, registry, call, ns, result, client, stopCh, stop, aw, awStopped,
          dispatch, errors>>

flags == <<initialized, destroyed, hasClient, starting, startups, rolledBack>>
pluginVars == <<flags, cleanup, cleaning>>
callVars == <<call, ns, result>>
stopVars == <<stopCh, stop>>
loopVars == <<aw, awStopped>>
dispatchVars == <<dispatch, errors>>
watcherVars == <<client, stopVars, loopVars, dispatchVars>>

TypeOK ==
    /\ initialized \in BOOLEAN /\ destroyed \in BOOLEAN /\ hasClient \in BOOLEAN
    /\ starting \in BOOLEAN /\ rolledBack \in BOOLEAN
    /\ startups \in 0..MaxStartups
    /\ cleanup \in {"idle", "called", "marked", "stopping", "closing"}
    /\ cleaning \in Calls \union {None}
    /\ registry \in [Namespaces -> Calls \union {None}]
    /\ call \in [Calls -> {"idle", "enter", "lookup", "create", "register", "start", "startLoop",
                           "startDispatch", "done", "failed"}]
    /\ ns \in [Calls -> Namespaces]
    /\ result \in [Calls -> Calls \union {None}]
    /\ \A c \in Calls : call[c] = "done" => result[c] \in Calls
    /\ client \in [Calls -> BOOLEAN] /\ stopCh \in [Calls -> BOOLEAN]
    /\ stop \in [Calls -> {"none", "begun", "joining", "waiting", "done"}]
    /\ aw \in [Calls -> {"none", "attached", "running", "exited"}]
    /\ awStopped \in [Calls -> BOOLEAN]
    /\ dispatch \in [Calls -> {"none", "check", "next", "callback", "watching",
                            "selfStop", "exited"}]
    /\ errors \in Nat

\* The plugin is initialized but not started yet.
Init == /\ initialized = FALSE /\ destroyed = FALSE /\ hasClient = FALSE
        /\ starting = FALSE /\ startups = 0 /\ rolledBack = FALSE
        /\ cleanup = "idle" /\ cleaning = None
        /\ registry = [n \in Namespaces |-> None]
        /\ call = [c \in Calls |-> "idle"]
        /\ ns \in [Calls -> Namespaces]
        /\ result = [c \in Calls |-> None]
        /\ client = [c \in Calls |-> FALSE]
        /\ stopCh = [c \in Calls |-> FALSE]
        /\ stop = [c \in Calls |-> "none"]
        /\ aw = [c \in Calls |-> "none"]
        /\ awStopped = [c \in Calls |-> FALSE]
        /\ dispatch = [c \in Calls |-> "none"]
        /\ errors = 0

\* cleanupWatchers holds watcherMutex for writing while it stops the watchers.
MutexFree == cleanup # "stopping"

--------------------------------------------------------------------------------
(* Startup, as far as the registry sees it: destroyed is not looked at.  The  *)
(* framework does not start the plugin while it stops it.                    *)

\* Under p.mu, the client is built and the flag set before the phases run.
StartupBegin == /\ ~initialized /\ ~starting
                /\ cleanup = "idle"
                /\ startups < MaxStartups
                /\ startups' = startups + 1
                /\ initialized' = TRUE
                /\ hasClient' = TRUE
                /\ starting' = TRUE
                /\ UNCHANGED <<destroyed, rolledBack, cleanup, cleaning, registry, callVars,
                               watcherVars>>

\* The phases succeed, or one fails or is cancelled and all is rolled back but the
\* registry.
StartupEnd == /\ starting
              /\ starting' = FALSE
              /\ \/ UNCHANGED <<initialized, hasClient, rolledBack>>
                 \/ /\ initialized' = FALSE
                    /\ hasClient' = FALSE
                    /\ rolledBack' = TRUE
              /\ UNCHANGED <<destroyed, startups, cleanup, cleaning, registry, callVars,
                             watcherVars>>

--------------------------------------------------------------------------------
(* WatchConfig. *)

\* It asks only whether the plugin is initialized, not whether it is destroyed.
WatchConfig(c) ==
    /\ call[c] = "idle"
    /\ call' = [call EXCEPT ![c] = IF initialized THEN "enter" ELSE "failed"]
    /\ UNCHANGED <<pluginVars, registry, ns, result, watcherVars>>

\* The metrics are copied under p.mu: a call made during a startup waits for its end,
\* and goes on whichever way that ends.
Enter(c) == /\ call[c] = "enter" /\ ~starting
            /\ call' = [call EXCEPT ![c] = "lookup"]
            /\ UNCHANGED <<pluginVars, registry, ns, result, watcherVars>>

\* The fast path, under the read lock.
Lookup(c) ==
    /\ call[c] = "lookup"
    /\ MutexFree
    /\ IF registry[ns[c]] # None
       THEN /\ result' = [result EXCEPT ![c] = registry[ns[c]]]
            /\ call' = [call EXCEPT ![c] = "done"]
       ELSE /\ call' = [call EXCEPT ![c] = "create"]
            /\ UNCHANGED result
    /\ UNCHANGED <<pluginVars, registry, ns, watcherVars>>

\* The client is copied, under p.mu, into the new watcher; it is nil once cleanup
\* has closed it.
Create(c) ==
    /\ call[c] = "create" /\ ~starting
    /\ client' = [client EXCEPT ![c] = hasClient]
    /\ call' = [call EXCEPT ![c] = "register"]
    /\ UNCHANGED <<pluginVars, registry, ns, result, stopVars, loopVars,
                   dispatchVars>>

\* Mutant: no second look under the write lock.
RegisterBlindly(c) ==
    /\ call[c] = "register"
    /\ MutexFree
    /\ registry' = [registry EXCEPT ![ns[c]] = c]
    /\ call' = [call EXCEPT ![c] = "start"]
    /\ UNCHANGED <<pluginVars, ns, result, watcherVars>>

\* Mutant: the caller that loses the race gets nil.
RegisterReturnsNil(c) ==
    /\ call[c] = "register"
    /\ MutexFree
    /\ IF registry[ns[c]] # None
       THEN /\ stopCh' = [stopCh EXCEPT ![c] = TRUE]
            /\ stop' = [stop EXCEPT ![c] = "done"]
            /\ call' = [call EXCEPT ![c] = "done"]
            /\ UNCHANGED <<registry, result>>
       ELSE /\ registry' = [registry EXCEPT ![ns[c]] = c]
            /\ call' = [call EXCEPT ![c] = "start"]
            /\ UNCHANGED <<result, stopVars>>
    /\ UNCHANGED <<pluginVars, ns, client, loopVars, dispatchVars>>

\* The second look, under the write lock: a watcher registered meanwhile wins,
\* and the new one, never started, is stopped.
Register(c) ==
    /\ call[c] = "register"
    /\ MutexFree
    /\ IF registry[ns[c]] # None
       THEN /\ stopCh' = [stopCh EXCEPT ![c] = TRUE]
            /\ stop' = [stop EXCEPT ![c] = "done"]
            /\ result' = [result EXCEPT ![c] = registry[ns[c]]]
            /\ call' = [call EXCEPT ![c] = "done"]
            /\ UNCHANGED registry
       ELSE /\ registry' = [registry EXCEPT ![ns[c]] = c]
            /\ call' = [call EXCEPT ![c] = "start"]
            /\ UNCHANGED <<result, stopVars>>
    /\ UNCHANGED <<pluginVars, ns, client, loopVars, dispatchVars>>

Finished(c) == /\ call' = [call EXCEPT ![c] = "done"]
               /\ result' = [result EXCEPT ![c] = c]

\* ConfigWatcher.Start, after the lock is released: without a client it does
\* nothing; else it creates the ApolloConfigWatcher without looking at stopCh.
StartAttach(c) ==
    /\ call[c] = "start"
    /\ IF client[c]
       THEN /\ aw' = [aw EXCEPT ![c] = "attached"]
            /\ call' = [call EXCEPT ![c] = "startLoop"]
            /\ UNCHANGED result
       ELSE Finished(c) /\ UNCHANGED aw
    /\ UNCHANGED <<pluginVars, registry, ns, client, stopVars, awStopped,
                   dispatchVars>>

\* Mutant: Start returns without launching dispatchLoop.
StartLoopOnly(c) ==
    /\ call[c] = "startLoop"
    /\ aw' = [aw EXCEPT ![c] = IF awStopped[c] THEN "exited" ELSE "running"]
    /\ Finished(c)
    /\ UNCHANGED <<pluginVars, registry, ns, client, stopVars, awStopped, dispatchVars>>

\* aw.Start launches the loop, which looks at its own stop channel first.
StartLoop(c) ==
    /\ call[c] = "startLoop"
    /\ aw' = [aw EXCEPT ![c] = IF awStopped[c] THEN "exited" ELSE "running"]
    /\ call' = [call EXCEPT ![c] = "startDispatch"]
    /\ UNCHANGED <<pluginVars, registry, ns, result, client, stopVars, awStopped,
                   dispatchVars>>

StartDispatch(c) ==
    /\ call[c] = "startDispatch"
    /\ dispatch' = [dispatch EXCEPT ![c] = "check"]
    /\ Finished(c)
    /\ UNCHANGED <<pluginVars, registry, ns, client, stopVars, loopVars, errors>>

--------------------------------------------------------------------------------
(* dispatchLoop. *)

DispatchGoto(w, to) ==
    /\ dispatch' = [dispatch EXCEPT ![w] = to]
    /\ UNCHANGED <<pluginVars, registry, callVars, client, stopVars, loopVars,
                   errors>>

\* Mutant: the look at stopCh at the head of the loop is missing.
DispatchCheckMissing(w) == /\ dispatch[w] = "check"
                           /\ DispatchGoto(w, "next")

DispatchCheck(w) == /\ dispatch[w] = "check"
                    /\ DispatchGoto(w, IF stopCh[w] THEN "exited" ELSE "next")

\* Next returns a change, possibly the one left in the channel of a loop that
\* has exited since.
DispatchValue(w) == /\ dispatch[w] = "next"
                    /\ aw[w] \in {"running", "exited"}
                    /\ DispatchGoto(w, "callback")

\* Next returns "watcher stopped".  If the ConfigWatcher is not being stopped it
\* is an error: onError, handleConfigWatchError, go retryConfigWatch.
DispatchError(w) == /\ dispatch[w] = "next"
                    /\ awStopped[w]
                    /\ dispatch' = [dispatch EXCEPT ![w] = "exited"]
                    /\ errors' = IF stopCh[w] THEN errors ELSE errors + 1
                    /\ UNCHANGED <<pluginVars, registry, callVars, client, stopVars,
                                   loopVars>>

\* onChange, the plugin's own, takes p.mu, evicts a cache entry and returns.
CallbackReturns(w) == /\ dispatch[w] = "callback" /\ ~starting
                      /\ "evict" \in CallbackDoes
                      /\ DispatchGoto(w, "check")

\* An onChange set by a user calls WatchConfig for its own namespace, which needs
\* p.mu and the registry's lock if the plugin is initialized.
CallbackWatches(w) == /\ dispatch[w] = "callback"
                      /\ "watch" \in CallbackDoes
                      /\ DispatchGoto(w, IF initialized THEN "watching" ELSE "check")

CallbackWatched(w) == /\ dispatch[w] = "watching"
                      /\ ~starting /\ MutexFree
                      /\ DispatchGoto(w, "check")

--------------------------------------------------------------------------------
(* ConfigWatcher.Stop. *)

\* Mutant: Stop leaves stopCh open and relies on aw.Stop.
StopOnceOpen(w) == /\ stop[w] = "none"
                   /\ stop' = [stop EXCEPT ![w] = "begun"]
                   /\ UNCHANGED stopCh

\* The body of stopOnce begins; later calls of Stop wait for it to end.
StopOnce(w) == /\ stop[w] = "none"
               /\ stop' = [stop EXCEPT ![w] = "begun"]
               /\ stopCh' = [stopCh EXCEPT ![w] = TRUE]

\* A user stops the watcher a call returned.
UserStop(c) == /\ UserStops
               /\ call[c] = "done"
               /\ StopOnce(result[c])
               /\ UNCHANGED <<pluginVars, registry, callVars, client, loopVars,
                              dispatchVars>>

\* onChange calls Stop on its own watcher.  That call waits for dispatchLoop,
\* which is the goroutine it runs on, so there is no step by which it returns.
CallbackStops(w) == /\ "stop" \in CallbackDoes
                    /\ dispatch[w] = "callback"
                    /\ dispatch' = [dispatch EXCEPT ![w] = "selfStop"]
                    /\ IF stop[w] = "none" THEN StopOnce(w) ELSE UNCHANGED stopVars
                    /\ UNCHANGED <<pluginVars, registry, callVars, client, loopVars,
                                   errors>>

\* Mutant: the ApolloConfigWatcher is not stopped.
StopApolloForgotten(w) ==
    /\ stop[w] = "begun"
    /\ stop' = [stop EXCEPT ![w] = "waiting"]
    /\ UNCHANGED <<pluginVars, registry, callVars, client, stopCh, loopVars,
                   dispatchVars>>

\* It reads w.apolloWatcher and stops it if there is one: a Start that has not
\* attached its own yet goes unnoticed.
StopApollo(w) ==
    /\ stop[w] = "begun"
    /\ IF aw[w] = "none"
       THEN stop' = [stop EXCEPT ![w] = "waiting"] /\ UNCHANGED awStopped
       ELSE /\ stop' = [stop EXCEPT ![w] = "joining"]
            /\ awStopped' = [awStopped EXCEPT ![w] = TRUE]
    /\ UNCHANGED <<pluginVars, registry, callVars, client, stopCh, aw, dispatchVars>>

\* aw.Stop has joined the loop, or found none launched.
StopJoined(w) ==
    /\ stop[w] = "joining"
    /\ aw[w] # "running"
    /\ stop' = [stop EXCEPT ![w] = "waiting"]
    /\ UNCHANGED <<pluginVars, registry, callVars, client, stopCh, loopVars,
                   dispatchVars>>

\* w.wg.Wait(): dispatchLoop has returned, or is not launched.
StopWaited(w) ==
    /\ stop[w] = "waiting"
    /\ dispatch[w] \in {"none", "exited"}
    /\ stop' = [stop EXCEPT ![w] = "done"]
    /\ UNCHANGED <<pluginVars, registry, callVars, client, stopCh, loopVars,
                   dispatchVars>>

\* The long-poll loop sees its stop channel.
ApolloLoopExits(w) ==
    /\ aw[w] = "running" /\ awStopped[w]
    /\ aw' = [aw EXCEPT ![w] = "exited"]
    /\ UNCHANGED <<pluginVars, registry, callVars, client, stopVars, awStopped,
                   dispatchVars>>

--------------------------------------------------------------------------------
(* cleanupTasksContext. *)

\* A plugin that is not initialized is not cleaned up.
CleanupCalled == /\ cleanup = "idle" /\ initialized
                 /\ cleanup' = "called"
                 /\ UNCHANGED <<flags, cleaning, registry, callVars, watcherVars>>

\* The swap of destroyed, a step later; one that is destroyed is not cleaned up again.
CleanupBegin == /\ cleanup = "called"
                /\ destroyed' = TRUE
                /\ cleanup' = IF destroyed THEN "idle" ELSE "marked"
                /\ UNCHANGED <<initialized, hasClient, starting, startups, rolledBack,
                               cleaning, registry, callVars, watcherVars>>

\* stopHealthCheck waits for p.mu; then cleanupWatchers takes the lock.
CleanupLock == /\ cleanup = "marked" /\ ~starting
               /\ cleanup' = "stopping"
               /\ UNCHANGED <<flags, cleaning, registry, callVars, watcherVars>>

Registered == {registry[n] : n \in Namespaces} \ {None}

\* It calls Stop on the registered watchers, in any order and one at a time; a
\* watcher that a user is stopping already is waited for.
CleanupStop(w) == /\ cleanup = "stopping"
                  /\ cleaning = None
                  /\ w \in Registered /\ stop[w] # "done"
                  /\ cleaning' = w
                  /\ IF stop[w] = "none" THEN StopOnce(w) ELSE UNCHANGED stopVars
                  /\ UNCHANGED <<flags, cleanup, registry, callVars, client,
                                 loopVars, dispatchVars>>

CleanupStopped == /\ cleaning # None
                  /\ stop[cleaning] = "done"
                  /\ cleaning' = None
                  /\ UNCHANGED <<flags, cleanup, registry, callVars, watcherVars>>

CleanupUnlock == /\ cleanup = "stopping" /\ cleaning = None
                 /\ \A w \in Registered : stop[w] = "done"
                 /\ registry' = [n \in Namespaces |-> None]
                 /\ cleanup' = "closing"
                 /\ UNCHANGED <<flags, cleaning, callVars, watcherVars>>

\* closeClientConnection and the rest, up to clearInitialized.
CleanupEnd == /\ cleanup = "closing"
              /\ hasClient' = FALSE
              /\ initialized' = FALSE
              /\ cleanup' = "idle"
              /\ UNCHANGED <<destroyed, starting, startups, rolledBack, cleaning, registry,
                             callVars, watcherVars>>

--------------------------------------------------------------------------------

CallStep(c) == \/ Enter(c) \/ Lookup(c) \/ Create(c) \/ Register(c)
               \/ StartAttach(c) \/ StartLoop(c) \/ StartDispatch(c)

DispatchStep(w) == \/ DispatchCheck(w) \/ DispatchError(w)
                   \/ CallbackReturns(w) \/ CallbackWatches(w) \/ CallbackWatched(w)
                   \/ CallbackStops(w)

StopStep(w) == StopApollo(w) \/ StopJoined(w) \/ StopWaited(w) \/ ApolloLoopExits(w)

CleanupStep == \/ CleanupBegin \/ CleanupLock \/ CleanupStopped \/ CleanupUnlock \/ CleanupEnd
               \/ \E w \in Calls : CleanupStop(w)

Next == \/ StartupBegin \/ StartupEnd
        \/ CleanupCalled \/ CleanupStep
        \/ \E c \in Calls : WatchConfig(c) \/ CallStep(c) \/ UserStop(c)
        \/ \E w \in Calls : DispatchStep(w) \/ DispatchValue(w) \/ StopStep(w)

Spec == Init /\ [][Next]_vars

\* Every goroutine that can run does: the calls under way, the dispatch loops,
\* Stop, the cleanup, and a startup, if the framework comes back from it (see
\* PluginLifecycle).  Nobody has to call anything, and no change has to come.
Fairness == /\ WF_vars(StartupEnd) /\ WF_vars(CleanupStep)
            /\ \A c \in Calls : /\ WF_vars(CallStep(c))
                                /\ WF_vars(DispatchStep(c))
                                /\ WF_vars(StopStep(c))

FairSpec == Spec /\ Fairness

--------------------------------------------------------------------------------
(* Properties. *)

\* The calls for one namespace share one watcher: until cleanup empties the
\* registry, at most one long-poll loop runs per namespace.
OneLoopPerNamespace ==
    destroyed \/ \A v, w \in Calls :
        aw[v] = "running" /\ aw[w] = "running" /\ ns[v] = ns[w] => v = w

\* Once Stop has returned its watcher calls back no more, even when a Start it
\* overtook launches the dispatch loop after it.
NoCallbackAfterStop ==
    \A w \in Calls : stop[w] = "done" => dispatch[w] \in {"none", "check", "exited"}

\* Stopping a watcher is never taken for an error: no stop, whoever makes it and
\* whatever Start and dispatchLoop are doing, schedules a retry of the watch.
NoSpuriousRetry == errors = 0

\* A watcher that WatchConfig finds in the registry and hands out is at work: both
\* of its loops run unless it is being stopped.  The exceptions are a plugin that
\* has been destroyed, and one that has failed to start before: a call that waited
\* for that startup has registered a watcher without a client, which stays.
ListedWatches ==
    initialized /\ ~starting /\ ~destroyed /\ ~rolledBack =>
        \A w \in Registered : call[w] = "done" /\ stop[w] = "none"
            => aw[w] = "running" /\ dispatch[w] \notin {"none", "exited"}

\* Cleanup comes to its end ("teardown always runs to completion", the comment
\* on cleanupTasksContext), unless a callback is stuck for ever: in WatchConfig,
\* which waits for the lock cleanup holds, or in the Stop of its own watcher,
\* which waits for the goroutine the callback runs on.  Nothing else can hold
\* cleanup up.
CleanupCompletes ==
    cleanup = "marked" ~> \/ cleanup = "idle"
                          \/ \E w \in Calls : \/ [](dispatch[w] = "watching")
                                               \/ [](dispatch[w] = "selfStop")

--------------------------------------------------------------------------------
(* Statements of the source's comments and documents that the code does not  *)
(* keep.                                                                     *)

\* "Stop() tears both down", the long-poll watcher and the dispatch goroutine
\* (the comment on ConfigWatcher).
StopTearsBothDown == \A w \in Calls : stop[w] = "done" => aw[w] # "running"
================================================================================
