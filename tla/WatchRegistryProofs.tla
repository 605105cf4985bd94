--------------------------- MODULE WatchRegistryProofs ---------------------------
(***************************************************************************)
(* Proofs about WatchRegistry, for any number of calls of WatchConfig, any *)
(* number of namespaces, and whatever onChange does.                       *)
(***************************************************************************)
EXTENDS WatchRegistry, TLAPS

\* The variables keep their types; in particular a call that is done has handed
\* out a watcher, never nil, whichever way the race for the registry went.
THEOREM RegistryTypeCorrect == Spec => []TypeOK
<1>1. Init => TypeOK
  <2> SUFFICES ASSUME Init PROVE TypeOK
    OBVIOUS
  <2>1. startups \in 0..MaxStartups /\ errors \in Nat
    BY RegistryAssumption DEF Init
  <2>2. \A c \in Calls : call[c] # "done"
    BY DEF Init
  <2>3. QED BY <2>1, <2>2 DEF Init, TypeOK
<1>2. TypeOK /\ [Next]_vars => TypeOK'
  <2> SUFFICES ASSUME TypeOK, [Next]_vars PROVE TypeOK'
    OBVIOUS
  <2> USE RegistryAssumption
      DEF TypeOK, flags, pluginVars, callVars, stopVars, loopVars, dispatchVars, watcherVars
  <2>1. CASE StartupBegin
    BY <2>1 DEF StartupBegin
  <2>2. CASE StartupEnd
    BY <2>2 DEF StartupEnd
  <2>3. ASSUME NEW c \in Calls, WatchConfig(c) \/ CallStep(c) \/ UserStop(c)
        PROVE  TypeOK'
    <3>1. CASE WatchConfig(c)
      BY <3>1 DEF WatchConfig
    <3>2. CASE Enter(c)
      BY <3>2 DEF Enter
    <3>3. CASE Lookup(c)
      BY <3>3 DEF Lookup
    <3>4. CASE Create(c)
      BY <3>4 DEF Create
    <3>5. CASE Register(c)
      <4>1. CASE registry[ns[c]] # None
        <5>1. registry[ns[c]] \in Calls
          BY <4>1
        <5>2. /\ result' \in [Calls -> Calls \union {None}]
              /\ \A d \in Calls : call'[d] = "done" => result'[d] \in Calls
          BY <3>5, <4>1, <5>1 DEF Register
        <5>3. /\ call' = [call EXCEPT ![c] = "done"]
              /\ stopCh' = [stopCh EXCEPT ![c] = TRUE]
              /\ stop' = [stop EXCEPT ![c] = "done"]
              /\ UNCHANGED <<pluginVars, registry, ns, client, loopVars, dispatchVars>>
          BY <3>5, <4>1 DEF Register
        <5>4. QED BY <5>2, <5>3
      <4>2. CASE registry[ns[c]] = None
        BY <3>5, <4>2 DEF Register
      <4>3. QED BY <4>1, <4>2
    <3>6. CASE StartAttach(c)
      BY <3>6 DEF StartAttach, Finished
    <3>7. CASE StartLoop(c)
      BY <3>7 DEF StartLoop
    <3>8. CASE StartDispatch(c)
      BY <3>8 DEF StartDispatch, Finished
    <3>9. CASE UserStop(c)
      BY <3>9 DEF UserStop, StopOnce
    <3>10. QED BY <2>3, <3>1, <3>2, <3>3, <3>4, <3>5, <3>6, <3>7, <3>8, <3>9 DEF CallStep
  <2>4. ASSUME NEW w \in Calls, DispatchStep(w) \/ DispatchValue(w) \/ StopStep(w)
        PROVE  TypeOK'
    <3>1. CASE DispatchCheck(w)
      BY <3>1 DEF DispatchCheck, DispatchGoto
    <3>2. CASE DispatchValue(w)
      BY <3>2 DEF DispatchValue, DispatchGoto
    <3>3. CASE DispatchError(w)
      BY <3>3 DEF DispatchError
    <3>4. CASE CallbackReturns(w)
      BY <3>4 DEF CallbackReturns, DispatchGoto
    <3>5. CASE CallbackWatches(w)
      BY <3>5 DEF CallbackWatches, DispatchGoto
    <3>6. CASE CallbackWatched(w)
      BY <3>6 DEF CallbackWatched, DispatchGoto
    <3>7. CASE CallbackStops(w)
      BY <3>7 DEF CallbackStops, StopOnce
    <3>8. CASE StopApollo(w)
      BY <3>8 DEF StopApollo
    <3>9. CASE StopJoined(w)
      BY <3>9 DEF StopJoined
    <3>10. CASE StopWaited(w)
      BY <3>10 DEF StopWaited
    <3>11. CASE ApolloLoopExits(w)
      BY <3>11 DEF ApolloLoopExits
    <3>12. QED
      BY <2>4, <3>1, <3>2, <3>3, <3>4, <3>5, <3>6, <3>7, <3>8, <3>9, <3>10, <3>11
         DEF DispatchStep, StopStep
  <2>5. CASE CleanupCalled
    BY <2>5 DEF CleanupCalled
  <2>6. CASE CleanupStep
    <3>1. CASE CleanupBegin \/ CleanupLock
      BY <3>1 DEF CleanupBegin, CleanupLock
    <3>2. CASE CleanupStopped
      BY <3>2 DEF CleanupStopped
    <3>3. CASE CleanupUnlock
      BY <3>3 DEF CleanupUnlock
    <3>4. CASE CleanupEnd
      BY <3>4 DEF CleanupEnd
    <3>5. ASSUME NEW w \in Calls, CleanupStop(w) PROVE TypeOK'
      BY <3>5 DEF CleanupStop, StopOnce
    <3>6. QED BY <2>6, <3>1, <3>2, <3>3, <3>4, <3>5 DEF CleanupStep
  <2>7. CASE UNCHANGED vars
    BY <2>7 DEF vars
  <2>8. QED BY <2>1, <2>2, <2>3, <2>4, <2>5, <2>6, <2>7 DEF Next
<1>3. QED BY <1>1, <1>2, PTL DEF Spec

--------------------------------------------------------------------------------
(* Stopping a watcher. *)

\* The inductive invariant: a watcher that is being stopped has its stopCh closed,
\* its ApolloConfigWatcher is stopped by nobody else, and its dispatch loop is
\* launched by the last step of the call that made it.
Stopping ==
    /\ \A w \in Calls : stopCh[w] <=> stop[w] # "none"
    /\ \A w \in Calls : awStopped[w] => stop[w] # "none"
    /\ \A w \in Calls : dispatch[w] # "none" => call[w] = "done"

StopInv == Stopping /\ NoSpuriousRetry /\ NoCallbackAfterStop

LEMMA StopInvariant == Spec => []StopInv
<1>1. Init => StopInv
  BY DEF Init, StopInv, Stopping, NoSpuriousRetry, NoCallbackAfterStop
<1>2. TypeOK /\ StopInv /\ [Next]_vars => StopInv'
  <2> SUFFICES ASSUME TypeOK, StopInv, [Next]_vars PROVE StopInv'
    OBVIOUS
  <2> USE DEF StopInv, Stopping, NoSpuriousRetry, NoCallbackAfterStop
  <2>a. ASSUME UNCHANGED <<call, stopVars, loopVars, dispatchVars>> PROVE StopInv'
    BY <2>a DEF stopVars, loopVars, dispatchVars
  <2>b. /\ call \in [Calls -> {"idle", "enter", "lookup", "create", "register", "start",
                               "startLoop", "startDispatch", "done", "failed"}]
        /\ \A c \in Calls : call[c] = "done" => result[c] \in Calls
        /\ stopCh \in [Calls -> BOOLEAN]
        /\ stop \in [Calls -> {"none", "begun", "joining", "waiting", "done"}]
        /\ awStopped \in [Calls -> BOOLEAN]
        /\ dispatch \in [Calls -> {"none", "check", "next", "callback", "watching",
                                   "selfStop", "exited"}]
    BY DEF TypeOK
  <2>c. ASSUME NEW w \in Calls, StopOnce(w), UNCHANGED <<call, loopVars, errors>>,
               dispatch' = dispatch \/ (dispatch[w] = "callback"
                                         /\ dispatch' = [dispatch EXCEPT ![w] = "selfStop"])
        PROVE  StopInv'
    BY <2>b, <2>c DEF StopOnce, loopVars
  <2>1. CASE StartupBegin \/ StartupEnd \/ CleanupCalled \/ CleanupBegin \/ CleanupLock
             \/ CleanupStopped \/ CleanupUnlock \/ CleanupEnd
    BY <2>1, <2>a DEF StartupBegin, StartupEnd, CleanupCalled, CleanupBegin, CleanupLock,
                      CleanupStopped, CleanupUnlock, CleanupEnd, callVars, watcherVars
  <2>2. ASSUME NEW c \in Calls, WatchConfig(c) \/ CallStep(c) \/ UserStop(c)
        PROVE  StopInv'
    <3> USE <2>b DEF callVars, stopVars, loopVars, dispatchVars, watcherVars
    <3>1. CASE WatchConfig(c) \/ Enter(c) \/ Lookup(c) \/ Create(c)
      BY <3>1 DEF WatchConfig, Enter, Lookup, Create
    <3>2. CASE Register(c)
      <4>1. dispatch[c] = "none"
        BY <3>2 DEF Register
      <4>2. QED BY <3>2, <4>1 DEF Register
    <3>3. CASE StartAttach(c) \/ StartLoop(c)
      BY <3>3 DEF StartAttach, StartLoop, Finished
    <3>4. CASE StartDispatch(c)
      BY <3>4 DEF StartDispatch, Finished
    <3>5. CASE UserStop(c)
      BY <3>5, <2>c DEF UserStop
    <3>6. QED BY <2>2, <3>1, <3>2, <3>3, <3>4, <3>5 DEF CallStep
  <2>3. ASSUME NEW w \in Calls, DispatchStep(w) \/ DispatchValue(w) PROVE StopInv'
    <3> USE <2>b DEF callVars, stopVars, loopVars, DispatchGoto
    <3>1. CASE DispatchCheck(w)
      BY <3>1 DEF DispatchCheck
    <3>2. CASE DispatchValue(w)
      BY <3>2 DEF DispatchValue
    <3>3. CASE DispatchError(w)
      BY <3>3 DEF DispatchError
    <3>4. CASE CallbackReturns(w) \/ CallbackWatches(w) \/ CallbackWatched(w)
      BY <3>4 DEF CallbackReturns, CallbackWatches, CallbackWatched
    <3>5. CASE CallbackStops(w)
      <4>1. CASE stop[w] = "none"
        BY <3>5, <4>1, <2>c DEF CallbackStops
      <4>2. CASE stop[w] # "none"
        BY <3>5, <4>2 DEF CallbackStops
      <4>3. QED BY <4>1, <4>2
    <3>6. QED BY <2>3, <3>1, <3>2, <3>3, <3>4, <3>5 DEF DispatchStep
  <2>4. ASSUME NEW w \in Calls, StopStep(w) PROVE StopInv'
    <3> USE <2>b DEF callVars, stopVars, loopVars, dispatchVars
    <3>1. CASE StopApollo(w)
      BY <3>1 DEF StopApollo
    <3>2. CASE StopJoined(w) \/ StopWaited(w) \/ ApolloLoopExits(w)
      BY <3>2 DEF StopJoined, StopWaited, ApolloLoopExits
    <3>3. QED BY <2>4, <3>1, <3>2 DEF StopStep
  <2>5. ASSUME NEW w \in Calls, CleanupStop(w) PROVE StopInv'
    <3>1. CASE stop[w] = "none"
      BY <2>5, <3>1, <2>c DEF CleanupStop, callVars, dispatchVars
    <3>2. CASE stop[w] # "none"
      BY <2>5, <3>2, <2>a DEF CleanupStop, callVars
    <3>3. QED BY <3>1, <3>2
  <2>6. CASE UNCHANGED vars
    BY <2>6, <2>a DEF vars, callVars, watcherVars
  <2>7. QED BY <2>1, <2>2, <2>3, <2>4, <2>5, <2>6 DEF Next, CleanupStep
<1>3. QED BY <1>1, <1>2, RegistryTypeCorrect, PTL DEF Spec

\* No call of Stop, whoever makes it and whatever Start and dispatchLoop are doing,
\* is ever taken for a failure of the watch: stopCh is closed before the stop
\* channel of the ApolloConfigWatcher is.
THEOREM StopIsNoError == Spec => []NoSpuriousRetry
BY StopInvariant, PTL DEF StopInv

\* Once Stop has returned, onChange is not called again, although a Start that it
\* overtook may launch the dispatch loop afterwards.
THEOREM StopSilences == Spec => []NoCallbackAfterStop
BY StopInvariant, PTL DEF StopInv

--------------------------------------------------------------------------------
(* The watcher of a namespace. *)

\* The calls that have registered their watcher and are starting it.
StartingCalls == {"start", "startLoop", "startDispatch"}

\* The inductive invariant: until a cleanup, a watcher that is being started, or
\* was, is the registered one of its namespace.
OwnsNamespace ==
    /\ cleanup \notin {"idle", "called"} => destroyed
    /\ \A w \in Calls : ~destroyed /\ (call[w] \in StartingCalls \/ aw[w] # "none")
                            => registry[ns[w]] = w

LEMMA OwnsInvariant == Spec => []OwnsNamespace
<1>1. Init => OwnsNamespace
  BY DEF Init, OwnsNamespace, StartingCalls
<1>2. TypeOK /\ OwnsNamespace /\ [Next]_vars => OwnsNamespace'
  <2> SUFFICES ASSUME TypeOK, OwnsNamespace, [Next]_vars PROVE OwnsNamespace'
    OBVIOUS
  <2> USE DEF OwnsNamespace, StartingCalls, flags, pluginVars, callVars, stopVars, loopVars,
              dispatchVars, watcherVars
  <2>a. /\ call \in [Calls -> {"idle", "enter", "lookup", "create", "register", "start",
                               "startLoop", "startDispatch", "done", "failed"}]
        /\ registry \in [Namespaces -> Calls \union {None}]
        /\ ns \in [Calls -> Namespaces]
        /\ aw \in [Calls -> {"none", "attached", "running", "exited"}]
    BY DEF TypeOK
  <2>b. ASSUME UNCHANGED <<destroyed, cleanup, registry, call, ns, aw>>
        PROVE  OwnsNamespace'
    BY <2>b
  <2>1. CASE StartupBegin \/ StartupEnd
    BY <2>1, <2>b DEF StartupBegin, StartupEnd
  <2>2. CASE CleanupCalled \/ CleanupBegin
    BY <2>2 DEF CleanupCalled, CleanupBegin
  <2>3. CASE CleanupLock \/ CleanupStopped \/ CleanupUnlock \/ CleanupEnd
    BY <2>3 DEF CleanupLock, CleanupStopped, CleanupUnlock, CleanupEnd
  <2>4. ASSUME NEW c \in Calls, WatchConfig(c) \/ CallStep(c) \/ UserStop(c)
        PROVE  OwnsNamespace'
    <3>1. CASE WatchConfig(c) \/ Enter(c) \/ Lookup(c) \/ Create(c)
      BY <3>1, <2>a DEF WatchConfig, Enter, Lookup, Create
    <3>2. CASE Register(c)
      <4>1. CASE registry[ns[c]] # None
        BY <3>2, <4>1, <2>a DEF Register
      <4>2. CASE registry[ns[c]] = None
        <5>1. \A w \in Calls : ~destroyed /\ (call[w] \in StartingCalls \/ aw[w] # "none")
                                  => ns[w] # ns[c]
          BY <4>2, RegistryAssumption
        <5>2. QED BY <3>2, <4>2, <5>1, <2>a DEF Register
      <4>3. QED BY <4>1, <4>2
    <3>3. CASE StartAttach(c) \/ StartLoop(c) \/ StartDispatch(c)
      BY <3>3, <2>a DEF StartAttach, StartLoop, StartDispatch, Finished
    <3>4. CASE UserStop(c)
      BY <3>4, <2>b DEF UserStop
    <3>5. QED BY <2>4, <3>1, <3>2, <3>3, <3>4 DEF CallStep
  <2>5. ASSUME NEW w \in Calls, DispatchStep(w) \/ DispatchValue(w) PROVE OwnsNamespace'
    BY <2>5, <2>b DEF DispatchStep, DispatchCheck, DispatchValue, DispatchError, DispatchGoto,
                      CallbackReturns, CallbackWatches, CallbackWatched, CallbackStops
  <2>6. ASSUME NEW w \in Calls, StopStep(w) PROVE OwnsNamespace'
    <3>1. CASE StopApollo(w) \/ StopJoined(w) \/ StopWaited(w)
      BY <3>1, <2>b DEF StopApollo, StopJoined, StopWaited
    <3>2. CASE ApolloLoopExits(w)
      BY <3>2, <2>a DEF ApolloLoopExits
    <3>3. QED BY <2>6, <3>1, <3>2 DEF StopStep
  <2>7. ASSUME NEW w \in Calls, CleanupStop(w) PROVE OwnsNamespace'
    BY <2>7, <2>b DEF CleanupStop
  <2>8. CASE UNCHANGED vars
    BY <2>8, <2>b DEF vars
  <2>9. QED BY <2>1, <2>2, <2>3, <2>4, <2>5, <2>6, <2>7, <2>8 DEF Next, CleanupStep
<1>3. QED BY <1>1, <1>2, RegistryTypeCorrect, PTL DEF Spec

\* However many calls of WatchConfig race for a namespace, at most one long-poll
\* loop of it runs until the plugin is destroyed: both looks at the registry are
\* needed for it, and so is that only cleanup takes a watcher out of it.
THEOREM OneLoop == Spec => []OneLoopPerNamespace
<1>1. OwnsNamespace => OneLoopPerNamespace
  BY DEF OwnsNamespace, OneLoopPerNamespace
<1>2. QED BY <1>1, OwnsInvariant, PTL

--------------------------------------------------------------------------------
(* The watcher that is handed out. *)

\* The inductive invariant: while no startup has failed and no cleanup has begun,
\* every call past its first line has found a client, and a watcher in the registry
\* has been started as far as its call has come.
Untroubled == ~destroyed /\ ~rolledBack

AtWork ==
    Untroubled =>
        /\ initialized => hasClient
        /\ \A c \in Calls : /\ call[c] \notin {"idle", "failed"} => hasClient
                            /\ call[c] \in {"register", "start"} => client[c]
                            /\ call[c] = "startDispatch" /\ stop[c] = "none"
                                  => aw[c] = "running"
        /\ \A w \in Registered :
              /\ call[w] \in StartingCalls \union {"done"}
              /\ call[w] = "done" /\ stop[w] = "none"
                    => aw[w] = "running" /\ dispatch[w] \notin {"none", "exited"}

LEMMA AtWorkInvariant == Spec => []AtWork
<1>1. Init => AtWork
  BY DEF Init, AtWork, Registered
<1>2. TypeOK /\ StopInv /\ OwnsNamespace /\ AtWork /\ [Next]_vars => AtWork'
  <2> SUFFICES ASSUME TypeOK, StopInv, OwnsNamespace, AtWork, [Next]_vars, Untroubled'
               PROVE  AtWork'
    BY DEF AtWork
  <2> USE DEF AtWork, StartingCalls, flags, pluginVars, callVars, stopVars, loopVars,
              dispatchVars, watcherVars
  <2>a. /\ call \in [Calls -> {"idle", "enter", "lookup", "create", "register", "start",
                               "startLoop", "startDispatch", "done", "failed"}]
        /\ client \in [Calls -> BOOLEAN]
        /\ stop \in [Calls -> {"none", "begun", "joining", "waiting", "done"}]
        /\ aw \in [Calls -> {"none", "attached", "running", "exited"}]
        /\ dispatch \in [Calls -> {"none", "check", "next", "callback", "watching",
                                   "selfStop", "exited"}]
        /\ Registered \subseteq Calls
    BY DEF TypeOK, Registered
  <2>b. ASSUME UNCHANGED <<flags, registry, call, client, stop, aw, dispatch>>
        PROVE  AtWork'
    BY <2>b DEF Untroubled, Registered
  <2>c. Untroubled
    BY DEF Untroubled, Next, StartupBegin, StartupEnd, CleanupCalled, CleanupStep,
           CleanupBegin, CleanupLock,
           CleanupStopped, CleanupUnlock, CleanupEnd, CleanupStop, WatchConfig, CallStep,
           Enter, Lookup, Create, Register, StartAttach, StartLoop, StartDispatch, UserStop,
           DispatchStep, DispatchValue, DispatchCheck, DispatchError, DispatchGoto,
           CallbackReturns, CallbackWatches, CallbackWatched, CallbackStops, StopStep,
           StopApollo, StopJoined, StopWaited, ApolloLoopExits, vars
  <2>d. ASSUME NEW w \in Calls, StopOnce(w), UNCHANGED <<flags, registry, call, client, aw>>,
               dispatch' = dispatch \/ dispatch' = [dispatch EXCEPT ![w] = "selfStop"]
        PROVE  AtWork'
    <3>1. stop' = [stop EXCEPT ![w] = "begun"] /\ Registered' = Registered
      BY <2>d DEF StopOnce, Registered
    <3>2. QED BY <2>a, <2>c, <2>d, <3>1
  <2>1. CASE StartupBegin
    BY <2>1, <2>a, <2>c DEF StartupBegin, Registered
  <2>2. CASE StartupEnd
    BY <2>2, <2>c DEF StartupEnd, Untroubled, Registered
  <2>3. CASE CleanupBegin \/ CleanupEnd \/ CleanupUnlock
    <3>1. destroyed'
      BY <2>3 DEF CleanupBegin, CleanupEnd, CleanupUnlock, OwnsNamespace
    <3>2. QED BY <3>1 DEF Untroubled
  <2>4. CASE CleanupCalled \/ CleanupLock \/ CleanupStopped
    BY <2>4, <2>b DEF CleanupCalled, CleanupLock, CleanupStopped
  <2>5. ASSUME NEW c \in Calls, WatchConfig(c) \/ CallStep(c) \/ UserStop(c)
        PROVE  AtWork'
    <3>0. Registered' = Registered \/ Register(c)
      BY <2>5 DEF WatchConfig, CallStep, Enter, Lookup, Create, StartAttach, StartLoop,
                  StartDispatch, UserStop, Registered
    <3>1. CASE WatchConfig(c) \/ Enter(c) \/ Lookup(c) \/ Create(c)
      BY <3>1, <2>a, <2>c DEF WatchConfig, Enter, Lookup, Create, Registered
    <3>2. CASE Register(c)
      <4>1. CASE registry[ns[c]] # None
        <5>1. Registered' = Registered
          BY <3>2, <4>1 DEF Register, Registered
        <5>2. QED BY <3>2, <4>1, <5>1, <2>a, <2>c DEF Register
      <4>2. CASE registry[ns[c]] = None
        <5>1. Registered' \subseteq Registered \union {c}
          BY <3>2, <4>2 DEF Register, Registered, TypeOK
        <5>2. QED BY <3>2, <4>2, <5>1, <2>a, <2>c DEF Register
      <4>3. QED BY <4>1, <4>2
    <3>3. CASE StartAttach(c)
      BY <3>3, <2>a, <2>c DEF StartAttach, Finished, Registered
    <3>4. CASE StartLoop(c)
      BY <3>4, <2>a, <2>c DEF StartLoop, StopInv, Stopping, Registered
    <3>5. CASE StartDispatch(c)
      BY <3>5, <2>a, <2>c DEF StartDispatch, Finished, Registered
    <3>6. CASE UserStop(c)
      <4>1. result[c] \in Calls
        BY <3>6 DEF UserStop, TypeOK
      <4>2. QED BY <3>6, <4>1, <2>d DEF UserStop
    <3>7. QED BY <2>5, <3>1, <3>2, <3>3, <3>4, <3>5, <3>6 DEF CallStep
  <2>6. ASSUME NEW w \in Calls, DispatchStep(w) \/ DispatchValue(w) PROVE AtWork'
    <3>1. CASE CallbackStops(w)
      <4>1. CASE stop[w] = "none"
        BY <3>1, <4>1, <2>d DEF CallbackStops
      <4>2. CASE stop[w] # "none"
        BY <3>1, <4>2, <2>a, <2>c DEF CallbackStops, Registered
      <4>3. QED BY <4>1, <4>2
    <3>2. CASE DispatchCheck(w)
      BY <3>2, <2>a, <2>c DEF DispatchCheck, DispatchGoto, StopInv, Stopping, Registered
    <3>3. CASE DispatchError(w)
      BY <3>3, <2>a, <2>c DEF DispatchError, StopInv, Stopping, Registered
    <3>4. CASE DispatchValue(w) \/ CallbackReturns(w) \/ CallbackWatches(w)
               \/ CallbackWatched(w)
      BY <3>4, <2>a, <2>c DEF DispatchValue, CallbackReturns, CallbackWatches,
                              CallbackWatched, DispatchGoto, Registered
    <3>5. QED BY <2>6, <3>1, <3>2, <3>3, <3>4 DEF DispatchStep
  <2>7. ASSUME NEW w \in Calls, StopStep(w) PROVE AtWork'
    <3>1. CASE StopApollo(w) \/ StopJoined(w) \/ StopWaited(w)
      BY <3>1, <2>a, <2>c DEF StopApollo, StopJoined, StopWaited, Registered
    <3>2. CASE ApolloLoopExits(w)
      BY <3>2, <2>a, <2>c DEF ApolloLoopExits, StopInv, Stopping, Registered
    <3>3. QED BY <2>7, <3>1, <3>2 DEF StopStep
  <2>8. ASSUME NEW w \in Calls, CleanupStop(w) PROVE AtWork'
    <3>1. CASE stop[w] = "none"
      BY <2>8, <3>1, <2>d DEF CleanupStop
    <3>2. CASE stop[w] # "none"
      BY <2>8, <3>2, <2>b DEF CleanupStop
    <3>3. QED BY <3>1, <3>2
  <2>9. CASE UNCHANGED vars
    BY <2>9, <2>b DEF vars
  <2>10. QED
    BY <2>1, <2>2, <2>3, <2>4, <2>5, <2>6, <2>7, <2>8, <2>9 DEF Next, CleanupStep
<1>3. QED BY <1>1, <1>2, RegistryTypeCorrect, StopInvariant, OwnsInvariant, PTL DEF Spec

\* A watcher found in the registry of a plugin no startup of which has failed is at
\* work, both loops of it, unless somebody stops it.
THEOREM ListedWatchesWork == Spec => []ListedWatches
<1>1. AtWork => ListedWatches
  BY DEF AtWork, ListedWatches, Untroubled
<1>2. QED BY <1>1, AtWorkInvariant, PTL
================================================================================
