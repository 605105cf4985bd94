# A TLA+ development of lynx-apollo

lynx-apollo is a plugin of the go-lynx framework that makes an Apollo server the
application's configuration centre. It reads configuration values over HTTP
through a circuit breaker with retries, keeps a cache, and watches namespaces
for changes with Apollo's long-poll protocol. This directory holds TLA+ modules
that model the concurrent core of the plugin, configurations that check them
with TLC, and proofs checked by TLAPS.

    tlc -workers 2 -config MCCircuitBreaker.cfg MCCircuitBreaker
    tlapm CircuitBreakerProofs.tla

`PROJECT.json` lists the components, every run, the source lines behind each
definition, the disagreements found, the hazards and the theorems.

## 1. Inventory of the system

| Component (source) | State | Operations | Modelled in |
|---|---|---|---|
| Circuit breaker (`resilience.go:101-296`) | state, two slices of timestamps, time of the last failure, a channel used as a lock | `Do` (`beforeAttempt`, operation without the lock, `afterAttempt`), `GetFailureRate`, `ForceOpen`, `ForceClose`, `GetState` | `CircuitBreaker`, `BreakerContract` |
| Retry manager (`resilience.go:12-99`) | none | `DoWithRetry`, `DoWithRetryContext`, `calculateBackoff` | `RetryManager`, and `ConfigRead` around the breaker |
| Long-poll watcher (`watcher_adapter.go`, `client.go`) | contexts, `startOnce`, `stopOnce`, `closed`, `stopCh`, `notifyCh` of capacity 1, `notificationId` | `Start`, `Stop`, `Next`, `watchLoop` | `ApolloConfigWatcher`, `ChangeFeed` |
| Watcher registry (`watchers.go`, `cleanup.go:28-44`) | map namespace -> `ConfigWatcher` under `watcherMutex`; per watcher `stopCh`, `apolloWatcher`, two goroutines | `WatchConfig`, `ConfigWatcher.Start`/`Stop`, `dispatchLoop`, `cleanupWatchers`, `retryConfigWatch` | `WatchRegistry` |
| Configuration cache (`config.go:264-313`, `watchers.go:227-245`) | map key -> value under `cacheMutex` | look-up and fill in `getConfigValueFromApollo`, eviction in `handleConfigChanged`, `clearConfigCache` | `ConfigCache`, `PluginLifecycle` |
| Plugin lifecycle (`apollo.go`, `lifecycle_context.go`, `cleanup.go`) | `initialized`, `destroyed`, client, metrics, resilience components under `p.mu` | initialization, `startupTasksContext` with roll-back, `cleanupTasksContext` | `PluginLifecycle`; what the registry sees of it in `WatchRegistry` |
| HTTP client (`client.go`) | `closed`, cached config server | `getConfigServer`, `GetConfig`, `GetConfigValue`, `WatchNotifications`, `Close` | the look-up in `ConfigRead`, `Close` in `PluginLifecycle`, outcomes where they are used |
| Configuration sources (`config.go`) | none | `GetConfig`, `GetConfigSources`, `GetConfigWatchTargets`, `WatchControlPlaneConfig` | `PluginConfig`, but the last |
| Health check (`health.go`) | none of its own | `CheckHealth`: a read through the breaker and a look at the registry | `ConfigRead` |
| Validator, defaults, components (`validator.go`, `conf/defaults.go`, `apollo.go`) | the configuration | `setDefaultConfig`, `ValidateConfig`, `initComponents` | `PluginConfig` |
| Control plane stubs, errors, metrics, plugin registration | none that matters | | no |

How they interact. `GetConfigValue` runs the retry manager around `Do` of the
breaker, and the breaker around the cache look-up and the HTTP fetch. `WatchConfig`
creates a `ConfigWatcher`, which owns an `ApolloConfigWatcher`: the goroutine of
the latter polls the server, reloads the namespace and hands the values over
`notifyCh`; the goroutine of the former (`dispatchLoop`) takes them with `Next`
and calls `onChange` per key, which evicts cache entries. Cleanup stops every
registered watcher while it holds the registry's lock, then closes the client
and drops the resilience components. The framework drives startup and cleanup,
and may also open an `ApolloConfigWatcher` itself (`WatchControlPlaneConfig`).

What is hard, and what must hold:

* *Breaker*: attempts overlap, because the lock is not held while the operation
  runs; an outcome may arrive in any state. It must open exactly when the rate of
  the last 60 s says so, must reject during the open period, and must recover.
* *Long-poll watcher*: `Stop`, a second `Start`, cancellation, a deadline, a
  failing poll or reload and a slow consumer can come at every point of the loop.
  No request may outlive `Stop`, `Stop` and `Next` must return, and no announced
  release may be lost.
* *Reads*: two retry loops around one breaker, which rejected attempts use up and
  which health checks share with readers. Every call must return, and once the server
  is back reads must succeed again, within the open period. A cancelled call must not
  go on.
* *Registry*: callers race for one namespace, a watcher is started after the
  lock is released, users and cleanup stop the same watcher, and callbacks call
  back. One loop per namespace, no callback after `Stop`, no stop mistaken for an
  error, and cleanup must end.
* *Cache*: a fill is not atomic with the fetch, and evictions come per key of a
  reload. An entry must not stay out of date once all changes are dispatched.
* *Lifecycle*: startup holds `p.mu` while it calls the framework, and may fail or
  be cancelled after each phase; stops come from several goroutines and at any
  point; reads go on through all of it; a plugin may be started again. No client may
  be lost or handed out closed, a startup that succeeds must leave a usable plugin,
  nothing may be read after a teardown, and starts and stops must end.
* *Configuration*: values are defaulted, checked by whole seconds, passed through
  `float32`, and namespaces fall back in two places. What is accepted must fit
  together and must be what the components get.

The list of hazards, each at its line, is in `PROJECT.json`.

## 2. Plan

Order: what runs concurrently and carries the program's promises comes first.

1. Done: `BreakerContract`, `CircuitBreaker`, `ApolloConfigWatcher` with `ChangeFeed`,
   `WatchRegistry`, `ConfigCache`; `ConfigRead`, which composes retries, health check
   and the look-up of the server with the breaker; `PluginLifecycle`; `RetryManager`
   and `PluginConfig`. Proofs of type correctness and of every safety property of
   every passing run, and of the refinements `ContractSpec` and `FeedSpec`.
2. To come: the behaviours that the hazards without a property name, and
   properties of the addresses the client keeps.

## 3. The modules

### BreakerContract

What callers may rely on, without windows and rates: an open breaker lets nobody
through until more than the open period has passed since it was last tripped; a
success can close a half-open breaker and moves no other; a failure reopens a
half-open one and restarts the wait of an open one.

### CircuitBreaker (`resilience.go`)

`Do` is two atomic steps, `BeforeAttempt(c)` and `AfterAttempt(c, ok)`, each one
critical section of the code; between them anything may happen. `GetFailureRate`
is an action because it prunes. Timestamps are ages in ticks; they stop at
`Window + 1`, since all the code asks of a timestamp is whether it is older than
the window or the open period. With a window of 60 s and an open period of 30 s
a tick is 30 s.
The threshold is a fraction, so comparisons are exact. `GetState` changes nothing
and has no action.

### ApolloConfigWatcher (`watcher_adapter.go`, with the outcomes of `client.go`)

The loop is a program counter (`check`, `snapshot`, `poll`, `backoff`, `reload`,
`send`) with one action per outcome of each call. `Start` is two steps, since the
lock is released before `startOnce`; `Stop` is four. The contexts are states of
their own: a caller may cancel his or let its deadline pass, a second `Start` or a
`Stop` cancels the one in place. A release is a number, and a reload hands over
the newest one. Requests may fail (`Faults`) and polls may time out:
`PollTimesOut` compares the timeout of the poll, the constant 60 s of
`NewApolloConfigWatcher`, with that of the HTTP client (`ClientTimeout`). The
server answers with one notification for the namespace; `Stop` is called once,
for a second call waits in `stopOnce` and then for the same loop.

### ChangeFeed

What the watcher promises the caller of `Next`, with its goroutines, contexts and
requests left out: releases arrive in order, may be left out or repeated (a reload
may be newer than the notification that caused it, whose successor then brings the same
release), never run ahead of the server, at most one waits, and after `Stop` nothing
new is handed over. `FeedSpec` is the refinement: `channel` is `notifyCh`, `stopped`
is that `Stop` has returned.

### WatchRegistry (`watchers.go`, `cleanup.go`, `lifecycle_context.go`)

A watcher is named after the call of `WatchConfig` that creates it. The call is
cut where the locks are taken and released, `ConfigWatcher.Start` where it
publishes `apolloWatcher` and launches each goroutine, `Stop` where it closes
`stopCh`, reads `apolloWatcher` and waits. The long-poll watcher is reduced to
whether its loop runs and whether it was told to stop: it ends some time after
that, which `StopReturns` of the module above justifies. `CallbackDoes` says
what callbacks do: `evict` is the plugin's own, `watch` and `stop` are callbacks
a user may install with `SetOnConfigChanged`. A callback that watches waits for
the registry's lock; one that stops its own watcher never returns, because `Stop`
waits for the goroutine it runs on.
Startup and cleanup appear with the flags, the client and `p.mu`, which is all the
registry sees of them: `StartupBegin` sets the flag and takes the lock, `StartupEnd`
succeeds or rolls back and lets it go, and a call of `WatchConfig` made in between
waits in `Enter` and goes on whichever way the startup ended. Cleanup looks at
`initialized` (`CleanupCalled`) and swaps `destroyed` a step later (`CleanupBegin`), and
a startup may roll back in between. `retryConfigWatch` is not an action: it is reached
only from `onError`, and `NoSpuriousRetry` shows that this is never called.

### ConfigRead (`resilience.go`, `config.go`, `health.go`)

`Breaker == INSTANCE CircuitBreaker` on the same variables; `Attempt` and `Returned`
are `BeforeAttempt` and `AfterAttempt` of the breaker together with what the caller
does with the result. `job` holds the loop counters of both `DoWithRetry`s: the one
in `GetConfigValue`, and for a prober the one in `checkApolloHealth` around it. A
rejected attempt is a failed one, leaves `lastErr` alone, and is retried. Readers ask
for keys that exist, probers for one that does not, which the request reports as an
error and the health check then accepts. The operation looks for the address of the
config server first (`FindServer`): with none it asks the meta server (`AskMetaServer`),
and stores the answer (`StoreServer`) over whatever another call has stored meanwhile; the
server may move (`ServerMoves`), and the client then keeps the old address. A request is
answered in one step (`Answer`) and recorded in another (`Returned`), so a failing answer may
reach the breaker long after the server is back. There is no cache: a hit
is a request that succeeds at once. Sleeps take any time; their length is in
`RetryManager`. `calm` is history: the ticks since anything was wrong (`Trouble`), where an
address out of date in use and a failing answer not yet recorded count as well.

### ConfigCache (`config.go`, `watchers.go`, `client.go`)

A value is the number of its key's last change. Readers look up, fetch and store
in three steps with no lock in between; the watcher's side reloads, dispatches
and evicts one key at a time. At most two reloads are queued: one in `notifyCh`,
one in the loop, blocked on the send. A reload is the set of the keys it found,
since the callbacks evict and store nothing. `raced` is history, used by the property
alone. Clearing at shutdown is in `PluginLifecycle`.

### PluginLifecycle (`apollo.go`, `lifecycle_context.go`, `cleanup.go`, `config.go`)

`boot` is the goroutine in which the framework initializes and starts the plugin,
`stop` the goroutines in which it stops it, one action per step of
`cleanupTasksContext` between two uses of `p.mu`; `mu` is true from the client's
construction to the end of startup. Clients are numbered as they are built, and
`closed` has those whose `Close` was called, so that a client that is neither closed nor
reachable shows. Each phase may succeed, fail, find the context cancelled, or, with
`FrameworkReads`, be a call of the framework that waits for a read of the plugin, which
waits for `p.mu`: that state has no way out. A second `InitializeResources` clears
`destroyed` and then panics in `NewApolloMetrics`, because the metrics are registered
already; the components stay nil. A read is cut where `GetConfigValue` and
`getConfigValueFromApollo` take their snapshots, and between the two flags that
`checkInitialized` loads, and may run on through any number of lives. `asked`,
`tornDown` and a reader's `late` are history.

### RetryManager (`resilience.go`)

One call of `DoWithRetryContext` after the other, with the loop counter and the
length of each sleep in milliseconds; the context may be cancelled at any step, and
when the timer is ready too, `select` takes either. The look at the context
(`CheckContext`) and the call of the operation (`BeginOperation`) are two steps.
`cancelledAt` is that the context is cancelled, and where the call was then; `late` is
history, the operations begun since. `DoWithRetry` is the call whose
context nobody cancels. The multiplication is exact: with the intervals and retries
that are accepted, `float64` has room for it.

### PluginConfig (`apollo.go`, `validator.go`, `config.go`; extends `RetryManager`)

A configuration goes through `setDefaultConfig`, the validator and `initComponents`,
one action each, and then its retry manager is used. The checks keep their names and
what they compare: whole seconds (`Truncated`) in all but one of them. Strings are
reduced to the kinds the checks tell apart. `Float32` is the nearest
`float32` of the threshold, computed with integers, and `Trips` the comparison of the
breaker with it. `GetConfigSources` and `GetConfigWatchTargets` are the two lists of
namespaces, each with the fallbacks of its own code; `Present` is the `continue` of the
latter. The configurations tried vary one
group of fields at a time (`Configurations`): fields of different groups meet in no check.

## 4. The runs

Passing runs:

| Run | What it shows |
|---|---|
| `breaker` | `TypeOK`, `WindowOrdered`, `OpensExactlyAtRate`: with overlapping attempts and overrides, the breaker opens at the end of an attempt exactly when the outcomes of the last window, counted one by one, reach the threshold. `ContractSpec`: it implements `BreakerContract`. `Recovers`: once calls stop failing it is closed again and again |
| `watcher` | `TypeOK`, `QuietAfterStop`: after `Stop` no request is in flight, with every fault. `StopReturns`, `NextUnblocks`: nobody waits for ever. `CancelledLoopEnds`: a cancelled loop ends, unless it gets a new context in time or is blocked on the channel |
| `watcher_delivers` | `AnnouncedIsHanded`: unless a reload fails, whoever polls for newer changes has handed over all the older ones. `ReleasesArrive`: releases reach a consumer that keeps reading although polls fail and time out. `FeedSpec`: what it reads is a `ChangeFeed` |
| `registry` | `TypeOK`, `OneLoopPerNamespace`, `NoCallbackAfterStop`, `NoSpuriousRetry`, with two calls, callbacks that watch and stop, users that stop, cleanup, and startups of which each may fail. `ListedWatches`: a watcher found in the registry is at work, unless it is being stopped or a startup has failed before. `CleanupCompletes`: cleanup ends, unless a callback is stuck for ever in `WatchConfig` (which waits for the lock cleanup holds, `cleanup.go:37`) or in the `Stop` of its own watcher |
| `reads` | `TypeOK`, `ReadsBackInTime`: once nothing has been wrong for longer than the open period (no outage, no address out of date in use, no failing answer on its way), no read is refused, fails or has to be retried, whatever window and retries were left with. `CallsReturn`: the nested retries end. `ReadsSucceedAgain`: with servers that can be reached, at the address the client has, and no health checks, what is left of the failures dies out |
| `cache` | `TypeOK`, `ChangesEvict`: with two readers, an entry that was up to date when stored, of a key that exists, is up to date again once every change is dispatched |
| `lifecycle` | `ClientsAccountedFor`: a client that is not closed is the plugin's or about to be closed, and never both. `StartedIsUsable`: a startup that succeeds leaves a usable plugin, also after others that failed. `NoReadAfterTeardown`: no read begun after a teardown ever returns a value, although an earlier one may fill the cache after it is cleared. `StartReturns`, `StopTearsDown`: starts and stops end and stops leave nothing behind, unless the framework waits for the plugin |
| `configuration` | `AcceptedTimeoutsFit`, `ValidatorsAgree`, `ThresholdHonoured`, `SourcesMatchTargets`: see the comments in `PluginConfig`; `CancelHeard`: after a cancellation no operation begins, even when the timer wins the `select`, but for one that was about to be called; `BackoffGrows`: the sleeps are within the interval and 30 s |

Runs that refute a statement of the source, each by one counterexample:

| Run | Statement, and what happens |
|---|---|
| `watcher_reload_loss` | "delivering reloaded key/values" (`watcher_adapter.go:15-17`): after a failing reload the release is not asked for again |
| `watcher_quiet_poll` | "Timeout is expected in long polling" (`client.go:240`): the timeout of the HTTP client (10 s, at most 30 s) comes before that of the poll (60 s) and is an error |
| `registry_stop_race` | "Stop() tears both down" (`watchers.go:17`): not when it overtakes `Start` |
| `reads_health_probe` | "If the key doesn't exist, that's fine" (`health.go:97`): the breaker counts it as a failure, opens, and rejects reads |

Other disagreements met while reading, for which no run is kept:

* `resilience.go:177`: the log line says a half-open breaker allows one attempt; it
  admits everybody, as `BreakerContract` states (`Admit`).
* `VALIDATION.md:33`: the breaker "opens as soon as" the rate reaches the threshold.
  When successes age out the rate rises, and nobody compares it before the next
  failure; `OpensExactlyAtRate` is therefore about the ends of attempts.
* `watcher_adapter.go:142-143`: "Back off briefly before re-polling so a persistent error
  does not spin the loop". Once the deadline of the context has passed, `client.go:240` makes
  each poll an empty answer at once, and the loop does spin (`PollQuiet`).
* `watchers.go:227-228`: "evicts the stale cache entry so the next read re-fetches". A read
  that fetched before the change stores after the eviction (`config.go:302`), and the
  old value stays until the next change; two readers may then read a newer value before an
  older one. `ChangesEvict` excepts such entries (`raced`).
* `apollo.go:163`: 0.1, 0.2, 0.3, 0.4, 0.6 and 0.8 are slightly larger as `float32`, so
  exactly that rate of failures does not open the breaker (`ThresholdHonoured` leaves
  the rate itself open).
* `conf/defaults.go:30`: the least `retry_interval` is 100 ms, but the check sees whole seconds:
  anything below 1 s is rejected, and 30.9 s passes though the most is 30 s.
* `conf/defaults.go:27`: `max_retry_times` may be 0, which `apollo.go:152` takes for
  "omitted", so that it means 3.
* `VALIDATION.md:32`: "plugin validation and direct config validation stay consistent". Only
  for the threshold: `ValidateConfig` does not fill in timeouts and `cache_dir`, so the two
  differ when one timeout is omitted, or `cache_dir` is (`ValidatorsAgree`).
* `watcher_adapter.go:48`: `notification_timeout` is validated and then used nowhere; every
  poll gets 60 s.
* `validator.go:236`: "Flag plain-HTTP meta servers" is an error, so no `http://` address is
  ever accepted.
* `client.go:105`: addresses are said to be "comma-separated", and are split at line ends. An empty
  answer has one empty line, which becomes the address `http://`, kept for good; no address
  is looked up a second time.
* `lifecycle_context.go:35-36`: a failed startup is said to leave "a clean uninitialized
  state". A call of `WatchConfig` that waited for it registers a watcher without a client
  after it, which later calls are handed (`ListedWatches` excepts it), and nothing takes back
  the control plane or what was published.
* `config.go:129`: cleanup does not know the watchers of `WatchControlPlaneConfig`; their loops
  poll a closed client until the framework stops them.
* `lifecycle_context.go:132-136`: a stop that found the plugin initialized sets `destroyed`
  even if the startup has rolled back in between, and the next startup succeeds into a
  plugin that refuses every read (`StartedIsUsable` excepts it by `asked`).
* `apollo.go:149`: a plugin that was stopped cannot be initialized again, because the metrics
  are registered twice; started without that, it refuses every read (`destroyed`).
* `watcher_adapter.go:95`: a second `Start` cancels the context of a loop that is
  polling, and the loop ends although the new context is live.
* `watchers.go:163`: a call of `WatchConfig` that was past its check registers after
  cleanup, and its loop is stopped by nobody (`OneLoopPerNamespace` excepts it).
* `watchers.go:184`: a watcher its user has stopped stays registered and is handed out
  to the next caller.
* `watchers.go:132`: a key deleted on the server is in no reload, is never dispatched,
  and its cache entry stays (`ChangesEvict` speaks of keys that exist).

### Bounds

* `breaker`: two callers, so that an attempt can be overtaken by the trip, the
  probe and the recovery that another makes; four outcomes in the window
  (`MaxEvents`; an attempt waits until the window has room), which with threshold
  1/2 gives rates below, at and above it; a window of two ticks and an open period
  of one, which puts timestamps before, at and past both boundaries. No liveness run
  uses symmetry.
* `watcher`, `watcher_delivers`: two calls of `Start`, so that one replaces the
  other's context; one `Stop`; two releases where order does not matter, three where
  it does: one in the consumer's hands, one in the channel, one in the loop.
  `ClientTimeout` is 10, the default, or 60 for a client of the poll's own timeout, with
  which quiet polls end without error.
* `registry`: two calls and two namespaces, which may be the same, for the races and
  for a cleanup that stops two watchers in turn; two startups, so that a call can
  span a cleanup or a failed startup and the next life of the plugin.
* `reads`: one reader and one prober, one retry, so that both loops repeat and
  end; two outcomes in the window, enough to open the breaker with either's failures
  alone or with one of each; two addresses of the config server, so that
  one look-up can overtake another and the stored one can be stale.
* `cache`: two keys, two readers, so that fills of one key meet each other and the
  evictions, and two changes of each key, which may be deletions.
* `lifecycle`: two stoppers, for the swap; one reader, as readers meet only in the
  cache, which `cache` covers; three clients, for a failed startup, a life with a teardown,
  and the life after it.
* `configuration`: values below, at and above every bound of every check, with fractions
  of a second that are cut off (900, 5900, 30900 ms), thresholds in each of the four binades
  of 0.07..0.99, up to ten outcomes in the window, two additional namespaces.

`CHECK_DEADLOCK FALSE` stands where the system really may stop: a stopped watcher
and an emptied registry do nothing more, a plugin whose startup waits for itself does
nothing at all, and a rejected configuration is the end of it.

### Fairness

Time goes on, and each goroutine that can take a step does: the loop, calls of
`Start`, `Stop` and `Next` under way, the dispatch loops, startup, cleanup, reads and
health checks under way. Startup goes on because calls of the framework return, except
the one that waits for the plugin. An operation under the breaker and every request end because the
HTTP client has a timeout. Callers of the breaker keep reading, since an idle breaker
has nobody to probe it. Nobody is obliged to call `Start`, `Stop`, `WatchConfig`,
`Next` or `CheckHealth`; the server need not answer, publish or recover.

Two places ask for more. In `ConfigRead` the fairness of `JobStep` is strong, only because
of the bound `MaxEvents`: an outcome waits for room in the window, which another may
take first; the code has no such wait. `ServedSpec`, for `ReleasesArrive`, assumes
that the server answers again and again (strong fairness of `PollNotified`: polls that
fail or time out in between disable it) and that the consumer keeps calling `Next`.

## 5. The proofs

`CircuitBreakerProofs` (from `BreakerAssumption`: any callers, threshold, window
and open period not longer than the window):

* `TypeCorrect`, `WindowStaysOrdered`: `IInv == TypeOK /\ WindowOrdered` is
  inductive. `WindowOrdered` says that each slice is chronological and that
  `lastFailure` is no older than the newest recorded failure; neither part is kept without types,
  and the first is what makes the prefix cut of `pruneBefore` right.
* `OpensExactly`: in an ordered window the pruned slice has as many elements as
  there are timestamps not older than the window. The lemmas about `PruneBefore`
  say that it keeps a suffix, that nothing fresh is before it and that, in an
  ordered window, everything after it is fresh; cardinalities do the rest.
* `ImplementsContract`: every step of the breaker is a step of `BreakerContract`
  or a stutter, under the mapping of the module; `cooldown` is `lastFailure` while
  the breaker is open. Ages that stop at `Window + 1` map to a stutter of `Elapse`;
  this needs `OpenPeriod <= Window`.

`ApolloConfigWatcherProofs` (from `WatcherAssumption`: any calls of `Start`, any
faults, any number of releases):

* `WatcherTypeCorrect`.
* `StopIsQuiet`: `QuietAfterStop` is inductive together with types, because `Stop`
  leaves `stopCh` closed and a loop launched afterwards looks at it first.
* `NothingIsSkipped`: assumes that reloads do not fail and no context has a
  deadline, which are the cases that `watcher_reload_loss` refutes. `AnnouncedIsHanded`
  says nothing while a notification is being dealt with; the invariant `Carried`
  adds what holds then: the id is not newer than the server's release, the reload
  in hand is not older than the id, and a loop not launched is nowhere.
* `ImplementsFeed`: every step of the watcher is a step of `ChangeFeed` or a stutter.
  `Ordered` is the invariant behind it: what was delivered, what waits in the channel,
  what the loop has in hand and the server's release are in this order.

`ConfigCacheProofs` (from `CacheAssumption`: any keys, readers and changes):

* `CacheTypeCorrect`.
* `NoChangeForgotten`: `ChangesEvict` speaks of quiet moments only. The invariant
  `Announced` says what holds at all others: an entry that has become out of date without
  a race has its eviction ahead of it, as a change not reloaded, in a queued reload or in
  the callbacks of the current one.

`WatchRegistryProofs` (from `RegistryAssumption`: any calls of `WatchConfig`, any
namespaces, any callbacks):

* `RegistryTypeCorrect`. That a call that is done has a result is part of the type, and
  the invariant of the double look at the registry: the loser of the race takes the
  watcher that is there.
* `StopIsNoError`, `StopSilences`: the invariant `Stopping` says that `stopCh` is closed
  exactly from the first step of a `Stop` on, that the `ApolloConfigWatcher` is told to
  stop only after that, and that no dispatch loop runs before `Start` is over. The last
  part covers the `Stop` that overtakes `Start`: the dispatch loop launched afterwards
  looks at `stopCh` first.
* `OneLoop`: `OwnsNamespace` says that, until the plugin is destroyed, whoever has
  registered and has not failed, and whoever has an `ApolloConfigWatcher`, is the
  registered watcher of its namespace. `OneLoopPerNamespace` follows, since a namespace
  has one entry.
* `ListedWatchesWork`: `AtWork` follows a registered watcher through its start: its
  caller is between `Register` and the return, or both loops run or are being stopped.
  It needs the three invariants above, and says nothing (`Untroubled`) after a
  startup has failed or the plugin is destroyed.

`PluginLifecycleProofs` (from `LifecycleAssumption`: any number of starts, stoppers and
readers):

* `LifecycleTypeCorrect`: the types rest on the lock. `Bounded` says that `p.mu` is
  held exactly while a startup is under way, which has a client for as long.
* `NoClientIsLost`: `OneTeardown` says that the swap of `destroyed` lets one stop
  through, which takes the client only while `p.mu` is free. `Accounted` says of every
  state what the property says of the states in which `p.mu` is free: the open clients
  are `p.client` and the one a teardown has taken, but for the moment between the `Close`
  of a roll-back and its `p.client = nil`.
* `StartupMakesUsable`: `Unasked` says what a startup has at each of its steps, as
  long as no stop has found the plugin initialized.
* `NothingFromEarlierLife`: `Over` says that the components are gone from the cache's
  clearing on and never come back, because a second initialization fails at the metrics;
  a reader that comes late therefore never gets past its first snapshot.

`RetryManagerProofs` (no assumptions) holds the lemmas about a call of the retry
manager, for any number of retries: powers of two grow (`PowerGrows`, by counting subsets),
hence so do the backoffs (`BackoffLengths`); `RetryInv` is inductive, and says that the
last sleep of a call is the backoff of the attempt before.

`PluginConfigProofs` (from `ConfigAssumption`: any durations, retries, thresholds, names
and lists of names tried):

* The invariant `Derived` says that what is accepted, and what is built, is a function of
  the configuration that was written. With it every property of a configuration is one
  of the defaults and the checks, and `DefaultsFields` says what the defaults do to
  each field.
* `TimeoutsFit`: `TruncatedOrder` and `TruncatedBelow` say what cutting off the
  fraction preserves; both timeouts are there once the defaults are set, without which
  the comparison would be skipped.
* `ValidatorsAlike`: check by check, the defaults change no verdict, unless one timeout
  alone or the cache's directory is missing.
* `ThresholdKept`: the float is within half a unit of its last place of the threshold
  (`FloatIsNearest`), and such an error is too small to move a rate of up to
  300000 outcomes to the other side (`Comparison`). The theorem assumes
  `MaxCalls <= 300000`. The code sets no limit to the outcomes of 60 s, but the
  statement needs one: with some 2^24 / 50 outcomes in the window, rates lie as close to the
  threshold as the float does.
* `SourcesAreTargets`: after the defaults the main namespace is not empty, so that no
  fallback yields an empty name and nothing is skipped. `Present` spells out what
  `SelectSeq` would do, which the prover cannot expand.
* `CancelsAreHeard`, `SleepsNeverShrink`: from the lemmas about the retry manager, which
  is used only once it is built (`Retries`). `Heard`, a part of `RetryInv`, says where a
  cancelled call can be: past the look at the context only if the cancellation found it
  there, and then it has begun nothing yet.
* `ConfigTypeCorrect`, from all of these.

`ConfigReadProofs` (from `ReadAssumption`, which contains the breaker's assumption):

* `ReadsAreBack`: the invariant `Quiet` says that the breaker's last failure is at least
  as old as the trouble, so that an open breaker admits the next read, and that in calm times
  there is no trouble; `AnswerIsValue` says that the answers recorded then are values.
  It holds for any number of readers, probers and retries.
* `ReadsKeepContract`: with the proof module of the breaker instantiated on the same
  variables (`Proved`), its theorems `ImplementsContract` and `OpensExactly` hold of reads.
* `ReadTypeCorrect`: `Jobs` adds to the types that whoever sleeps has an attempt left, or
  a round: that is what keeps both loop counters within `max_retry_times`. The breaker's
  types are cited from its own proof.
* `OutcomesMatch`: `InStep` relates the two halves of the state, the breaker's `call` and
  `job`: the breaker waits for the outcome of a goroutine exactly while that is inside
  the operation, so no outcome is lost or reported twice on any of the ways out of it.

The inductive invariants of these modules (`StopInv`, `OwnsNamespace`, `AtWork`,
`TypeInv`, `OneTeardown`, `Accounted`, `Unasked`, `Over`, `Derived`, `Retries`, `Jobs`,
`Quiet`, `InStep`)
were checked with TLC on the instances of the runs before they were proved.

Only model-checked: liveness (`Recovers`, `StopReturns`, `NextUnblocks`,
`CancelledLoopEnds`, `ReleasesArrive`, `CleanupCompletes`, `CallsReturn`,
`ReadsSucceedAgain`, `StartReturns`, `StopTearsDown`), which is beyond the prover. The
four runs that refute a statement of the source need no proof.

## 6. Not modelled

* Logging, metrics, wording of errors, JSON and URLs: no property is about them.
* Several notifications for one namespace in one answer: the server sends one.
* Panics in callbacks: `watchLoop` and `retryConfigWatch` recover, no model step panics.
* The unsynchronised read of `cancelWatch` in `ApolloConfigWatcher.Stop`: it is taken to
  return the context in place before or after a concurrent `Start`.
* A `Stop` that waits on `wg` while `Start` adds to it: taken to see the counter before or after.
* `control_plane.go` and `plug.go` keep no state; `conf/apollo.pb.go` is generated.
* `ApolloConfigSource.Load` and `Watch` convert and delegate; `WatchControlPlaneConfig` opens
  an `ApolloConfigWatcher` and keeps nothing.
* `retryConfigWatch`: `NoSpuriousRetry` shows that nothing reaches it.
* The lengths of names and directories in the validator, and `shutdown_timeout`, which
  nothing uses.
