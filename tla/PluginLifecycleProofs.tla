------------------------- MODULE PluginLifecycleProofs -------------------------
(***************************************************************************)
(* Proofs about PluginLifecycle, for any number of goroutines that stop    *)
(* the plugin or read configuration, any number of startups, and a         *)
(* framework that reads configuration while it starts the plugin or not.   *)
(***************************************************************************)
EXTENDS PluginLifecycle, TLAPS

--------------------------------------------------------------------------------
(* Types. *)

\* The states of a startup in which it holds p.mu.
Held == Phases \union {"reentered", "rollback", "unwind"}

\* What the types rest on: p.mu is held from the head of the startup to its end, so
\* that nobody takes the client away before it is rolled back.
Bounded ==
    /\ boot = "lock" => built < MaxStarts
    /\ client <= built /\ taken <= built
    /\ mu <=> boot \in Held
    /\ boot \in Held => client # 0
    /\ \A r \in Readers : reader[r].at = "lookup" => reader[r].client # 0

TypeInv == TypeOK /\ Bounded

\* What a step of a reader leaves alone.
LEMMA ReadFrame ==
    ASSUME NEW r \in Readers, ReadCalled(r) \/ ReadRetry(r) \/ ReadStep(r)
    PROVE  OnlyReads
BY DEF ReadCalled, ReadRetry, ReadStep, ReadBegin, ReadSnapshot, ReadAttempt, ReadLookup,
       ReadSend, ReadReturned, ReadStore, OnlyReads

\* A reader stays in its type, and looks a client up only if it has one.
LEMMA ReadTypes ==
    ASSUME TypeOK, Bounded, NEW r \in Readers, ReadCalled(r) \/ ReadRetry(r) \/ ReadStep(r)
    PROVE  /\ reader' \in [Readers -> Reader]
           /\ cache' \in Clients
           /\ \A q \in Readers : reader'[q].at \in {"lookup", "send", "wait", "store"}
                                   => reader'[q].client # 0
<1> USE DEF TypeOK, Bounded, Reader
<1>1. CASE ReadCalled(r)
  BY <1>1, LifecycleAssumption DEF ReadCalled, Clients
<1>2. CASE ReadRetry(r) \/ ReadBegin(r) \/ ReadSnapshot(r)
  BY <1>2 DEF ReadRetry, ReadBegin, ReadSnapshot, ReadGoto
<1>3. CASE ReadAttempt(r)
  BY <1>3 DEF ReadAttempt
<1>4. CASE ReadLookup(r) \/ ReadSend(r)
  BY <1>4 DEF ReadLookup, ReadSend, ReadGoto
<1>5. CASE ReadReturned(r) \/ ReadStore(r)
  BY <1>5 DEF ReadReturned, ReadStore, ReadGoto
<1>6. QED BY <1>1, <1>2, <1>3, <1>4, <1>5 DEF ReadStep

\* The variables keep their types, and the bounds that go with them.
LEMMA TypeInvariant == Spec => []TypeInv
<1>1. Init => TypeInv
  <2> SUFFICES ASSUME Init PROVE TypeInv
    OBVIOUS
  <2>1. 0 \in Clients
    BY LifecycleAssumption DEF Clients
  <2>2. [at |-> "idle", client |-> 0, late |-> FALSE] \in Reader
    BY <2>1 DEF Reader
  <2>3. boot \in BootStates \ Held /\ closed \subseteq 1..built
    BY DEF Init, BootStates, Held, Phases
  <2>4. client <= built /\ taken <= built
    BY DEF Init
  <2>5. reader \in [Readers -> Reader] /\ stop \in [Stoppers -> StopStates]
    BY <2>2 DEF Init, StopStates
  <2>6. \A r \in Readers : reader[r].at = "idle"
    BY DEF Init
  <2>7. QED BY <2>1, <2>3, <2>4, <2>5, <2>6 DEF Init, TypeInv, TypeOK, Bounded
<1>2. TypeInv /\ [Next]_vars => TypeInv'
  <2> SUFFICES ASSUME TypeOK, Bounded, [Next]_vars PROVE TypeOK' /\ Bounded'
    BY DEF TypeInv
  <2> USE DEF Bounded, TypeOK, flags, clientVars, startVars, stopVars, readVars
  <2>0. 0 \in Clients
    BY LifecycleAssumption DEF Clients
  <2>1. CASE Initialize
    BY <2>1 DEF Initialize, Halted, BootStates, Held, Phases
  <2>2. CASE Start
    BY <2>2 DEF Start, Halted, BootStates, Held, Phases
  <2>3. CASE CancelStart
    BY <2>3 DEF CancelStart
  <2>4. CASE StartStep
    <3> USE LifecycleAssumption DEF BootStates, Held, Phases
    <3>1. CASE StartRefused
      BY <3>1 DEF StartRefused
    <3>2. CASE StartBuild
      BY <3>2 DEF StartBuild, Clients
    <3>3. CASE PhaseDone
      BY <3>3 DEF PhaseDone, NextPhase
    <3>4. CASE PhaseFails \/ PhaseReenters
      BY <3>4 DEF PhaseFails, PhaseReenters
    <3>5. CASE Rollback
      <4>1. client \in 1..built
        BY <3>5 DEF Rollback, Clients
      <4>2. QED BY <3>5, <4>1 DEF Rollback
    <3>6. CASE Unwind
      <4>1. client' \in Clients /\ client' <= built'
        BY <3>6, <2>0 DEF Unwind, Clients
      <4>2. QED BY <3>6, <4>1 DEF Unwind
    <3>7. QED BY <2>4, <3>1, <3>2, <3>3, <3>4, <3>5, <3>6 DEF StartStep
  <2>5. ASSUME NEW s \in Stoppers, StopCalled(s) \/ StopStep(s)
        PROVE  TypeOK' /\ Bounded'
    <3> USE DEF StopGoto, StopStates
    <3>1. CASE StopCalled(s)
      BY <3>1 DEF StopCalled
    <3>2. CASE StopSwap(s)
      BY <3>2 DEF StopSwap
    <3>3. CASE StopHealthCheck(s)
      BY <3>3 DEF StopHealthCheck
    <3>4. CASE StopWatchers(s)
      BY <3>4 DEF StopWatchers
    <3>5. CASE TakeClient(s)
      <4>1. client' \in Clients /\ client' <= built'
        BY <3>5, <2>0 DEF TakeClient, Clients
      <4>2. QED BY <3>5, <4>1 DEF TakeClient
    <3>6. CASE CloseClient(s)
      <4>1. taken' \in Clients /\ taken' <= built' /\ closed' \subseteq 1..built'
        BY <3>6, <2>0 DEF CloseClient, Clients
      <4>2. QED BY <3>6, <4>1 DEF CloseClient
    <3>7. CASE ReleaseMemory(s)
      BY <3>7 DEF ReleaseMemory
    <3>8. CASE ClearConfigCache(s)
      BY <3>8, <2>0 DEF ClearConfigCache
    <3>9. CASE StopBackgroundTasks(s)
      BY <3>9 DEF StopBackgroundTasks
    <3>10. CASE ClearInitialized(s)
      BY <3>10 DEF ClearInitialized
    <3>11. QED
      BY <2>5, <3>1, <3>2, <3>3, <3>4, <3>5, <3>6, <3>7, <3>8, <3>9, <3>10 DEF StopStep
  <2>6. ASSUME NEW r \in Readers, ReadCalled(r) \/ ReadRetry(r) \/ ReadStep(r)
        PROVE  TypeOK' /\ Bounded'
    <3>1. OnlyReads
      BY <2>6, ReadFrame
    <3>2. /\ reader' \in [Readers -> Reader]
          /\ cache' \in Clients
          /\ \A q \in Readers : reader'[q].at \in {"lookup", "send", "wait", "store"}
                                  => reader'[q].client # 0
      BY <2>6, ReadTypes
    <3>3. QED BY <3>1, <3>2 DEF OnlyReads
  <2>7. CASE UNCHANGED vars
    BY <2>7 DEF vars
  <2>8. QED BY <2>1, <2>2, <2>3, <2>4, <2>5, <2>6, <2>7 DEF Next
<1>3. QED BY <1>1, <1>2, PTL DEF Spec

\* The variables keep their types: in particular the clients closed were all built,
\* and a reader that sends a request has a client to send it with.
THEOREM LifecycleTypeCorrect == Spec => []TypeOK
BY TypeInvariant, PTL DEF TypeInv

--------------------------------------------------------------------------------
(* One teardown at a time. *)

Teardown == StopStates \ {"idle", "swap"}

\* The states of a teardown after it has taken the client.
Emptied == {"close", "memory", "cache", "background", "clear"}

\* The inductive invariant: the swap of destroyed lets one stop through, which is
\* past its first step only while no startup holds p.mu, and under which no startup
\* begins until it has cleared the flag.
OneTeardown ==
    /\ \A s \in Stoppers :
          /\ stop[s] \in Teardown => destroyed
          /\ stop[s] \in Teardown \ {"health"} => ~mu
          /\ stop[s] \in Emptied => client = 0
          /\ boot = "lock" /\ stop[s] \in Teardown => initialized
          /\ boot = "lock" /\ stop[s] = "swap" => initialized \/ destroyed
    /\ \A s, t \in Stoppers : stop[s] \in Teardown /\ stop[t] \in Teardown => s = t
    /\ taken # 0 => \E s \in Stoppers : stop[s] = "close"
    /\ ~initialized => client = 0 \/ boot = "unwind"

LEMMA TeardownInvariant == Spec => []OneTeardown
<1>1. Init => OneTeardown
  BY DEF Init, OneTeardown, Teardown, Emptied
<1>2. TypeInv /\ OneTeardown /\ [Next]_vars => OneTeardown'
  <2> SUFFICES ASSUME TypeOK, Bounded, OneTeardown, [Next]_vars PROVE OneTeardown'
    BY DEF TypeInv
  <2> USE DEF OneTeardown, Teardown, Emptied, StopStates, flags, clientVars, startVars, stopVars,
              readVars
  <2>a. stop \in [Stoppers -> StopStates] /\ (mu <=> boot \in Held) /\ (boot \in Held => client # 0)
    BY DEF TypeOK, Bounded
  <2>1. CASE Initialize \/ Start
    BY <2>1 DEF Initialize, Start, NoStopRuns, Halted
  <2>2. CASE CancelStart
    BY <2>2 DEF CancelStart
  <2>3. CASE StartStep
    <3>1. CASE StartRefused
      BY <3>1 DEF StartRefused
    <3>2. CASE StartBuild
      BY <3>2 DEF StartBuild
    <3>3. CASE PhaseDone
      BY <3>3, <2>a DEF PhaseDone, NextPhase, Phases, Held
    <3>4. CASE PhaseFails \/ PhaseReenters
      BY <3>4, <2>a DEF PhaseFails, PhaseReenters, Phases, Held
    <3>5. CASE Rollback
      BY <3>5, <2>a DEF Rollback, Held
    <3>6. CASE Unwind
      BY <3>6, <2>a DEF Unwind, Held
    <3>7. QED BY <2>3, <3>1, <3>2, <3>3, <3>4, <3>5, <3>6 DEF StartStep
  <2>4. ASSUME NEW s \in Stoppers, StopCalled(s) \/ StopStep(s) PROVE OneTeardown'
    <3> USE <2>a DEF StopGoto
    <3>1. CASE StopCalled(s)
      BY <3>1 DEF StopCalled
    <3>2. CASE StopSwap(s)
      BY <3>2 DEF StopSwap
    <3>3. CASE StopHealthCheck(s)
      BY <3>3 DEF StopHealthCheck
    <3>4. CASE StopWatchers(s)
      BY <3>4 DEF StopWatchers
    <3>5. CASE TakeClient(s)
      BY <3>5 DEF TakeClient
    <3>6. CASE CloseClient(s)
      BY <3>6 DEF CloseClient
    <3>7. CASE ReleaseMemory(s)
      BY <3>7 DEF ReleaseMemory
    <3>8. CASE ClearConfigCache(s)
      BY <3>8 DEF ClearConfigCache
    <3>9. CASE StopBackgroundTasks(s)
      BY <3>9 DEF StopBackgroundTasks
    <3>10. CASE ClearInitialized(s)
      BY <3>10 DEF ClearInitialized
    <3>11. QED
      BY <2>4, <3>1, <3>2, <3>3, <3>4, <3>5, <3>6, <3>7, <3>8, <3>9, <3>10 DEF StopStep
  <2>5. ASSUME NEW r \in Readers, ReadCalled(r) \/ ReadRetry(r) \/ ReadStep(r)
        PROVE  OneTeardown'
    <3>1. OnlyReads
      BY <2>5, ReadFrame
    <3>2. QED BY <3>1 DEF OnlyReads
  <2>6. CASE UNCHANGED vars
    BY <2>6 DEF vars
  <2>7. QED BY <2>1, <2>2, <2>3, <2>4, <2>5, <2>6 DEF Next
<1>3. QED BY <1>1, <1>2, TypeInvariant, PTL DEF Spec

--------------------------------------------------------------------------------
(* Clients. *)

\* The inductive invariant: the property holds while a startup runs as well, but for
\* the moment between the Close of the roll-back and its p.client = nil.
Accounted ==
    /\ boot = "unwind" => \A c \in 1..built : c \in closed
    /\ boot # "unwind" => \A c \in 1..built : c \notin closed <=> c \in {client, taken}

LEMMA AccountedInvariant == Spec => []Accounted
<1>1. Init => Accounted
  BY DEF Init, Accounted
<1>2. TypeInv /\ OneTeardown /\ Accounted /\ [Next]_vars => Accounted'
  <2> SUFFICES ASSUME TypeOK, Bounded, OneTeardown, Accounted, [Next]_vars PROVE Accounted'
    BY DEF TypeInv
  <2> USE DEF Accounted, flags, clientVars, startVars, stopVars, readVars
  <2>a. /\ built \in Nat /\ client \in Nat /\ taken \in Nat
        /\ client <= built /\ taken <= built
        /\ closed \subseteq 1..built
    BY LifecycleAssumption DEF TypeOK, Bounded, Clients
  \* While a startup holds p.mu no teardown has a client in its hands.
  <2>b. mu => taken = 0
    BY DEF OneTeardown, Teardown, StopStates
  <2>c. mu <=> boot \in Held
    BY DEF Bounded
  <2>1. CASE Initialize \/ Start
    BY <2>1 DEF Initialize, Start, Halted
  <2>2. CASE CancelStart
    BY <2>2 DEF CancelStart
  <2>3. CASE StartStep
    <3>1. CASE StartRefused
      BY <3>1 DEF StartRefused
    <3>2. CASE StartBuild
      <4>1. client = 0
        BY <3>2 DEF StartBuild, OneTeardown
      <4>2. built' = built + 1 /\ client' = built' /\ UNCHANGED <<closed, taken>>
            /\ boot = "lock" /\ boot' = "control"
        BY <3>2 DEF StartBuild
      <4>3. QED BY <4>1, <4>2, <2>a
    <3>3. CASE PhaseDone
      BY <3>3 DEF PhaseDone, NextPhase, Phases
    <3>4. CASE PhaseFails \/ PhaseReenters
      BY <3>4 DEF PhaseFails, PhaseReenters, Phases
    <3>5. CASE Rollback
      <4>1. taken = 0
        BY <3>5, <2>b, <2>c DEF Rollback, Held
      <4>2. QED BY <3>5, <4>1, <2>a DEF Rollback
    <3>6. CASE Unwind
      <4>1. taken = 0
        BY <3>6, <2>b, <2>c DEF Unwind, Held
      <4>2. QED BY <3>6, <4>1, <2>a DEF Unwind
    <3>7. QED BY <2>3, <3>1, <3>2, <3>3, <3>4, <3>5, <3>6 DEF StartStep
  <2>4. ASSUME NEW s \in Stoppers, StopCalled(s) \/ StopStep(s) PROVE Accounted'
    <3>1. CASE TakeClient(s)
      <4>1. taken = 0
        <5>1. \A t \in Stoppers : stop[t] # "close"
          BY <3>1 DEF TakeClient, OneTeardown, Teardown, StopStates
        <5>2. QED BY <5>1 DEF OneTeardown
      <4>2. boot # "unwind"
        BY <3>1, <2>c DEF TakeClient, Held
      <4>3. QED BY <3>1, <4>1, <4>2, <2>a DEF TakeClient
    <3>2. CASE CloseClient(s)
      <4>1. client = 0 /\ boot # "unwind"
        BY <3>2, <2>c DEF CloseClient, OneTeardown, Teardown, Emptied, StopStates, Held
      <4>2. QED BY <3>2, <4>1, <2>a DEF CloseClient
    <3>3. CASE ~TakeClient(s) /\ ~CloseClient(s)
      <4>1. UNCHANGED <<boot, built, client, taken, closed>>
        BY <2>4, <3>3 DEF StopStep, StopCalled, StopSwap, StopHealthCheck, StopWatchers,
              ReleaseMemory, ClearConfigCache, StopBackgroundTasks, ClearInitialized
      <4>2. QED BY <4>1
    <3>4. QED BY <3>1, <3>2, <3>3
  <2>5. ASSUME NEW r \in Readers, ReadCalled(r) \/ ReadRetry(r) \/ ReadStep(r)
        PROVE  Accounted'
    <3>1. OnlyReads
      BY <2>5, ReadFrame
    <3>2. QED BY <3>1 DEF OnlyReads
  <2>6. CASE UNCHANGED vars
    BY <2>6 DEF vars
  <2>7. QED BY <2>1, <2>2, <2>3, <2>4, <2>5, <2>6 DEF Next
<1>3. QED BY <1>1, <1>2, TypeInvariant, TeardownInvariant, PTL DEF Spec

\* Whatever startups failed, were cancelled or were stopped half-way, and however
\* many stops ran at once: while p.mu is free, the clients that were built and not
\* closed are p.client and the one a teardown holds, and those are not closed.
THEOREM NoClientIsLost == Spec => []ClientsAccountedFor
<1>1. TypeInv /\ Accounted => ClientsAccountedFor
  BY DEF TypeInv, Bounded, Held, Accounted, ClientsAccountedFor
<1>2. QED BY <1>1, TypeInvariant, AccountedInvariant, PTL

--------------------------------------------------------------------------------
(* A startup that succeeds, and a plugin that is over. *)

\* The inductive invariant: until a stop finds the plugin initialized, no stop does
\* anything, and a startup that is under way has all that it needs.
Unasked ==
    ~asked => /\ ~destroyed
              /\ \A s \in Stoppers : stop[s] = "idle"
              /\ boot \notin {"off", "unusable"} => components
              /\ boot \in (Held \ {"unwind"}) \union {"up"} => client # 0
              /\ boot \in (Held \ {"rollback", "unwind"}) \union {"up"} => initialized

LEMMA UnaskedInvariant == Spec => []Unasked
<1>1. Init => Unasked
  BY DEF Init, Unasked, Held, Phases
<1>2. TypeInv /\ Unasked /\ [Next]_vars => Unasked'
  <2> SUFFICES ASSUME TypeOK, Bounded, Unasked, [Next]_vars PROVE Unasked'
    BY DEF TypeInv
  <2> USE DEF Unasked, Held, Phases, flags, clientVars, startVars, stopVars, readVars
  <2>1. CASE Initialize \/ Start
    BY <2>1 DEF Initialize, Start, Halted
  <2>2. CASE CancelStart
    BY <2>2 DEF CancelStart
  <2>3. CASE StartStep
    <3>1. CASE StartRefused
      BY <3>1 DEF StartRefused
    <3>2. CASE StartBuild
      <4>1. client' # 0
        BY <3>2, LifecycleAssumption DEF StartBuild, TypeOK, Clients
      <4>2. QED BY <3>2, <4>1 DEF StartBuild
    <3>3. CASE PhaseDone
      BY <3>3 DEF PhaseDone, NextPhase
    <3>4. CASE PhaseFails \/ PhaseReenters
      BY <3>4 DEF PhaseFails, PhaseReenters
    <3>5. CASE Rollback \/ Unwind
      BY <3>5 DEF Rollback, Unwind
    <3>6. QED BY <2>3, <3>1, <3>2, <3>3, <3>4, <3>5 DEF StartStep
  <2>4. ASSUME NEW s \in Stoppers, StopCalled(s) \/ StopStep(s) PROVE asked'
    <3>1. CASE StopCalled(s)
      BY <3>1 DEF StopCalled
    <3>2. CASE StopStep(s)
      <4>1. asked /\ UNCHANGED asked
        BY <3>2 DEF StopStep, StopSwap, StopHealthCheck, StopWatchers, TakeClient, CloseClient,
              ReleaseMemory, ClearConfigCache, StopBackgroundTasks, ClearInitialized
      <4>2. QED BY <4>1
    <3>3. QED BY <2>4, <3>1, <3>2
  <2>5. ASSUME NEW r \in Readers, ReadCalled(r) \/ ReadRetry(r) \/ ReadStep(r)
        PROVE  Unasked'
    <3>1. OnlyReads
      BY <2>5, ReadFrame
    <3>2. QED BY <3>1 DEF OnlyReads
  <2>6. CASE UNCHANGED vars
    BY <2>6 DEF vars
  <2>7. QED BY <2>1, <2>2, <2>3, <2>4, <2>5, <2>6 DEF Next
<1>3. QED BY <1>1, <1>2, TypeInvariant, PTL DEF Spec

\* A startup that succeeds leaves a plugin with an open client and its components,
\* initialized and not destroyed, also after startups that failed or were cancelled,
\* as long as no stop has found the plugin initialized.
THEOREM StartupMakesUsable == Spec => []StartedIsUsable
<1>1. TypeInv /\ Accounted /\ Unasked => StartedIsUsable
  BY LifecycleAssumption
     DEF TypeInv, TypeOK, Clients, Bounded, Accounted, Unasked, StartedIsUsable
<1>2. QED BY <1>1, TypeInvariant, AccountedInvariant, UnaskedInvariant, PTL

\* The inductive invariant: a teardown takes the components away, and they never
\* come back, since the metrics of the first life stay registered.
Over ==
    /\ boot # "off" => registered
    /\ \A s \in Stoppers :
          /\ stop[s] # "idle" => boot # "off"
          /\ stop[s] \in {"cache", "background", "clear"} => ~components
    /\ tornDown => ~components /\ boot # "off"
    /\ \A r \in Readers :
          reader[r].late => tornDown /\ reader[r].at \in {"called", "snapshot", "failed"}

LEMMA OverInvariant == Spec => []Over
<1>1. Init => Over
  BY DEF Init, Over
<1>2. TypeInv /\ Over /\ [Next]_vars => Over'
  <2> SUFFICES ASSUME TypeOK, Bounded, Over, [Next]_vars PROVE Over'
    BY DEF TypeInv
  <2> USE DEF Over, flags, clientVars, startVars, stopVars, readVars
  <2>1. CASE Initialize \/ Start
    BY <2>1 DEF Initialize, Start, NoStopRuns, Halted
  <2>2. CASE CancelStart
    BY <2>2 DEF CancelStart
  <2>3. CASE StartStep
    <3>1. boot # "off" /\ boot' # "off"
      BY <2>3 DEF StartStep, StartRefused, StartBuild, PhaseDone, NextPhase, Phases, PhaseFails,
                  PhaseReenters, Rollback, Unwind
    <3>2. UNCHANGED <<components, registered, stop, tornDown, reader>>
      BY <2>3 DEF StartStep, StartRefused, StartBuild, PhaseDone, PhaseFails, PhaseReenters,
                  Rollback, Unwind
    <3>3. QED BY <3>1, <3>2
  <2>4. ASSUME NEW s \in Stoppers, StopCalled(s) \/ StopStep(s) PROVE Over'
    <3> USE DEF StopGoto, TypeOK, StopStates
    <3>1. CASE StopCalled(s)
      BY <3>1 DEF StopCalled
    <3>2. CASE StopSwap(s) \/ StopHealthCheck(s) \/ StopWatchers(s)
      BY <3>2 DEF StopSwap, StopHealthCheck, StopWatchers
    <3>3. CASE TakeClient(s) \/ CloseClient(s)
      BY <3>3 DEF TakeClient, CloseClient
    <3>4. CASE ReleaseMemory(s) \/ ClearConfigCache(s)
      BY <3>4 DEF ReleaseMemory, ClearConfigCache
    <3>5. CASE StopBackgroundTasks(s) \/ ClearInitialized(s)
      BY <3>5 DEF StopBackgroundTasks, ClearInitialized
    <3>6. QED BY <2>4, <3>1, <3>2, <3>3, <3>4, <3>5 DEF StopStep
  <2>5. ASSUME NEW r \in Readers, ReadCalled(r) \/ ReadRetry(r) \/ ReadStep(r)
        PROVE  Over'
    <3>1. OnlyReads
      BY <2>5, ReadFrame
    <3>2. /\ reader \in [Readers -> Reader]
          /\ tornDown \in BOOLEAN
      BY DEF TypeOK
    <3>3. \A q \in Readers : reader'[q].late
                              => tornDown /\ reader'[q].at \in {"called", "snapshot", "failed"}
      <4>1. CASE ReadCalled(r)
        BY <4>1, <3>2 DEF ReadCalled, Reader
      <4>2. CASE ReadBegin(r) \/ ReadSnapshot(r)
        BY <4>2, <3>2 DEF ReadBegin, ReadSnapshot, ReadGoto, Reader
      <4>3. CASE ReadRetry(r) \/ ReadAttempt(r)
        BY <4>3, <3>2 DEF ReadRetry, ReadAttempt, ReadGoto, Reader
      <4>4. CASE ReadLookup(r) \/ ReadSend(r) \/ ReadReturned(r) \/ ReadStore(r)
        BY <4>4, <3>2 DEF ReadLookup, ReadSend, ReadReturned, ReadStore, ReadGoto, Reader
      <4>5. QED BY <2>5, <4>1, <4>2, <4>3, <4>4 DEF ReadStep
    <3>4. QED BY <3>1, <3>3 DEF OnlyReads
  <2>6. CASE UNCHANGED vars
    BY <2>6 DEF vars
  <2>7. QED BY <2>1, <2>2, <2>3, <2>4, <2>5, <2>6 DEF Next
<1>3. QED BY <1>1, <1>2, TypeInvariant, PTL DEF Spec

\* A read that begins after a teardown has ended never returns a value, whatever the
\* framework starts again and whatever a read of the earlier life has left in the
\* cache.
THEOREM NothingFromEarlierLife == Spec => []NoReadAfterTeardown
<1>1. Over => NoReadAfterTeardown
  BY DEF Over, NoReadAfterTeardown
<1>2. QED BY <1>1, OverInvariant, PTL
================================================================================
