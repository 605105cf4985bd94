----------------------- MODULE ApolloConfigWatcherProofs -----------------------
(***************************************************************************)
(* Proofs about ApolloConfigWatcher, for any number of calls of Start, any *)
(* of whose contexts may be cancelled or expire, and any number of         *)
(* releases.                                                               *)
(***************************************************************************)
EXTENDS ApolloConfigWatcher, SequenceTheorems, TLAPS

\* The steps that only move the loop.
LoopMoves == \/ CheckStop \/ PollQuiet \/ PollTimesOut \/ PollFails \/ PollCancelled
             \/ BackoffStopped \/ BackoffOver
             \/ ReloadFails \/ ReloadCancelled \/ SendStopped

\* What such a step leaves alone.
LEMMA MoveFrame ==
    ASSUME LoopMoves
    PROVE  UNCHANGED <<release, ctx, watchCtx, starter, launched, stopper, loopCtx,
                       sentId, notificationId, kvs, notifyCh, consumer, delivered>>
BY DEF LoopMoves, CheckStop, PollQuiet, PollTimesOut, PollFails, PollCancelled, BackoffStopped,
       BackoffOver, ReloadFails, ReloadCancelled, SendStopped, Goto, lifeVars, readVars

LEMMA MoveLoop == LoopMoves => loop' \in {"exited", "snapshot", "check", "backoff"}
BY DEF LoopMoves, CheckStop, PollQuiet, PollTimesOut, PollFails, PollCancelled, BackoffStopped,
       BackoffOver, ReloadFails, ReloadCancelled, SendStopped, Goto

LEMMA CancelledType ==
    ASSUME TypeOK, NEW x \in Contexts
    PROVE  Cancelled(x) \in [Contexts -> {"live", "cancelled", "expired"}]
BY DEF TypeOK, Cancelled

\* The variables keep their types; in particular the channel never holds more
\* than the one reload it has room for.
THEOREM WatcherTypeCorrect == Spec => []TypeOK
<1>1. Init => TypeOK
  <2> SUFFICES ASSUME Init PROVE TypeOK
    OBVIOUS
  <2>1. 0 \in Releases
    BY WatcherAssumption DEF Releases
  <2>2. notifyCh \in {<<>>} \union {<<r>> : r \in Releases}
    BY DEF Init
  <2>3. ctx \in [Contexts -> {"live", "cancelled", "expired"}]
    BY DEF Init
  <2>4. QED BY <2>1, <2>2, <2>3 DEF Init, TypeOK, Contexts, LoopStates
<1>2. TypeOK /\ [Next]_vars => TypeOK'
  <2> SUFFICES ASSUME TypeOK, [Next]_vars PROVE TypeOK'
    OBVIOUS
  <2> USE DEF TypeOK, Contexts, lifeVars, loopVars, readVars
  <2>1. CASE Publish
    BY <2>1, WatcherAssumption DEF Publish, Releases
  <2>2. ASSUME NEW s \in Starters,
               CallerCancels(s) \/ DeadlinePasses(s) \/ StartReplace(s) \/ StartLaunch(s)
        PROVE  TypeOK'
    <3>1. CASE CallerCancels(s)
      BY <3>1 DEF CallerCancels
    <3>2. CASE DeadlinePasses(s)
      BY <3>2 DEF DeadlinePasses
    <3>3. CASE StartReplace(s)
      <4>1. ctx' \in [Contexts -> {"live", "cancelled", "expired"}]
        BY <3>3, CancelledType DEF StartReplace
      <4>2. QED BY <3>3, <4>1 DEF StartReplace
    <3>4. CASE StartLaunch(s)
      BY <3>4 DEF StartLaunch, LoopStates
    <3>5. QED BY <2>2, <3>1, <3>2, <3>3, <3>4
  <2>3. CASE StopMark \/ StopClose \/ StopReturn
    BY <2>3 DEF StopMark, StopClose, StopReturn
  <2>4. CASE StopCancel
    <3>1. ctx' \in [Contexts -> {"live", "cancelled", "expired"}]
      BY <2>4, CancelledType DEF StopCancel
    <3>2. QED BY <2>4, <3>1 DEF StopCancel
  <2>5. CASE LoopMoves
    <3>1. loop' \in LoopStates
      BY <2>5, MoveLoop DEF LoopStates
    <3>2. QED BY <2>5, <3>1, MoveFrame
  <2>6. CASE Snapshot
    BY <2>6 DEF Snapshot, LoopStates
  <2>7. CASE PollNotified
    BY <2>7 DEF PollNotified, LoopStates
  <2>8. CASE ReloadOk
    BY <2>8 DEF ReloadOk, LoopStates
  <2>9. CASE Send
    BY <2>9 DEF Send, LoopStates
  <2>10. CASE TakeBegin \/ TakeStopped
    BY <2>10 DEF TakeBegin, TakeStopped
  <2>11. CASE TakeValue
    <3>1. PICK r \in Releases : notifyCh = <<r>>
      BY <2>11 DEF TakeValue
    <3>2. delivered' = r
      BY <2>11, <3>1 DEF TakeValue
    <3>3. QED BY <2>11, <3>2 DEF TakeValue
  <2>12. CASE UNCHANGED vars
    BY <2>12 DEF vars
  <2>13. QED
    BY <2>1, <2>2, <2>3, <2>4, <2>5, <2>6, <2>7, <2>8, <2>9, <2>10, <2>11, <2>12
       DEF Next, LoopStep, PollReturns, ReloadReturns, LoopMoves
<1>3. QED BY <1>1, <1>2, PTL DEF Spec

\* Once Stop has returned no request is in flight and none will be made: the loop
\* has exited, was never launched, or is about to see the closed stopCh.
THEOREM StopIsQuiet == Spec => []QuietAfterStop
<1>1. Init => QuietAfterStop
  BY DEF Init, QuietAfterStop
<1>2. QuietAfterStop /\ [Next]_vars => QuietAfterStop'
  <2> SUFFICES ASSUME QuietAfterStop, [Next]_vars, stopper' = "returned"
               PROVE  loop' \in {"none", "check", "exited"}
    BY DEF QuietAfterStop
  <2> USE DEF lifeVars, loopVars, readVars
  <2>1. CASE Publish \/ TakeBegin \/ TakeValue \/ TakeStopped \/ UNCHANGED vars
    BY <2>1 DEF Publish, TakeBegin, TakeValue, TakeStopped, vars, QuietAfterStop
  <2>2. ASSUME NEW s \in Starters,
               CallerCancels(s) \/ DeadlinePasses(s) \/ StartReplace(s) \/ StartLaunch(s)
        PROVE  loop' \in {"none", "check", "exited"}
    BY <2>2 DEF CallerCancels, DeadlinePasses, StartReplace, StartLaunch, QuietAfterStop
  <2>3. CASE StopMark \/ StopCancel \/ StopClose \/ StopReturn
    BY <2>3 DEF StopMark, StopCancel, StopClose, StopReturn
  <2>4. CASE LoopStep
    <3>1. UNCHANGED stopper
      BY <2>4, MoveFrame DEF LoopStep, PollReturns, ReloadReturns, LoopMoves, Snapshot,
                             PollNotified, ReloadOk, Send
    <3>2. loop \in {"none", "check", "exited"} /\ StopChClosed
      BY <3>1 DEF QuietAfterStop, StopChClosed
    <3>3. CheckStop
      BY <2>4, <3>2 DEF LoopStep, PollReturns, ReloadReturns, Snapshot, PollNotified,
            PollQuiet, PollTimesOut, PollFails, PollCancelled, BackoffStopped, BackoffOver,
            ReloadOk, ReloadFails, ReloadCancelled, Send, SendStopped
    <3>4. QED BY <3>2, <3>3 DEF CheckStop, Goto
  <2>5. QED BY <2>1, <2>2, <2>3, <2>4 DEF Next
<1>3. QED BY <1>1, <1>2, PTL DEF Spec

--------------------------------------------------------------------------------
(* Nothing is skipped, as long as no reload fails. *)

\* The inductive invariant.  AnnouncedIsHanded says nothing while a notification
\* is being dealt with; it has to be carried through the reload and the send, and
\* through the launch of the loop.
Carried ==
    /\ \A x \in Contexts : ctx[x] # "expired"
    /\ ~launched => loop = "none"
    /\ notificationId <= release
    /\ loop = "send" => notificationId <= kvs
    /\ loop \in {"none", "check", "snapshot", "poll", "backoff"} => notificationId <= Handed

\* If no reload fails and no context has a deadline, a loop that asks for the
\* next change has handed over every one it was told of, whatever polls fail,
\* however slow the consumer is and whenever contexts are cancelled.
THEOREM NothingIsSkipped ==
    ASSUME "reload" \notin Faults, Expirable = {}
    PROVE  Spec => []AnnouncedIsHanded
<1>1. Init => Carried
  BY DEF Init, Carried, Handed
<1>2. TypeOK /\ Carried /\ [Next]_vars => Carried'
  <2> SUFFICES ASSUME TypeOK, Carried, [Next]_vars PROVE Carried'
    OBVIOUS
  <2> USE DEF lifeVars, loopVars, readVars
  <2>0. loopCtx \in Contexts /\ ctx[loopCtx] # "expired"
    BY DEF TypeOK, Carried
  <2>1. CASE Publish
    BY <2>1 DEF Publish, Carried, Handed, TypeOK, Releases
  <2>2. ASSUME NEW s \in Starters,
               CallerCancels(s) \/ DeadlinePasses(s) \/ StartReplace(s) \/ StartLaunch(s)
        PROVE  Carried'
    <3>1. CASE CallerCancels(s)
      BY <3>1 DEF CallerCancels, Carried, Handed, TypeOK, Contexts
    <3>2. CASE DeadlinePasses(s)
      BY <3>2 DEF DeadlinePasses
    <3>3. CASE StartReplace(s)
      BY <3>3 DEF StartReplace, Cancelled, Carried, Handed, TypeOK
    <3>4. CASE StartLaunch(s)
      BY <3>4 DEF StartLaunch, Carried, Handed, TypeOK
    <3>5. QED BY <2>2, <3>1, <3>2, <3>3, <3>4
  <2>3. CASE StopMark \/ StopClose \/ StopReturn
    BY <2>3 DEF StopMark, StopClose, StopReturn, Carried, Handed
  <2>4. CASE StopCancel
    BY <2>4 DEF StopCancel, Cancelled, Carried, Handed, TypeOK
  <2>5. CASE LoopMoves
    <3>1. loop \in {"check", "poll", "backoff"} \/ loop' = "exited"
      BY <2>5, <2>0 DEF LoopMoves, CheckStop, PollQuiet, PollTimesOut, PollFails, PollCancelled,
            BackoffStopped, BackoffOver, ReloadFails, ReloadCancelled, SendStopped, Goto
    <3>2. launched
      BY <2>5 DEF Carried, LoopMoves, CheckStop, PollQuiet, PollTimesOut, PollFails, PollCancelled,
            BackoffStopped, BackoffOver, ReloadFails, ReloadCancelled, SendStopped
    <3>3. QED BY <2>5, <3>1, <3>2, MoveFrame, MoveLoop DEF Carried, Handed
  <2>6. CASE Snapshot
    BY <2>6 DEF Snapshot, Carried, Handed
  <2>7. CASE PollNotified
    BY <2>7 DEF PollNotified, Carried, TypeOK, Releases
  <2>8. CASE ReloadOk
    BY <2>8 DEF ReloadOk, Carried, TypeOK
  <2>9. CASE Send
    <3>1. Handed' = kvs
      BY <2>9 DEF Send, Handed
    <3>2. QED BY <2>9, <3>1 DEF Send, Carried
  <2>10. CASE TakeBegin \/ TakeStopped
    BY <2>10 DEF TakeBegin, TakeStopped, Carried, Handed
  <2>11. CASE TakeValue
    <3>1. Handed' = Handed
      BY <2>11 DEF TakeValue, Handed
    <3>2. QED BY <2>11, <3>1 DEF TakeValue, Carried
  <2>12. CASE UNCHANGED vars
    BY <2>12 DEF vars, Carried, Handed
  <2>13. QED
    BY <2>1, <2>2, <2>3, <2>4, <2>5, <2>6, <2>7, <2>8, <2>9, <2>10, <2>11, <2>12
       DEF Next, LoopStep, PollReturns, ReloadReturns, LoopMoves
<1>3. Carried => AnnouncedIsHanded
  BY DEF Carried, AnnouncedIsHanded
<1>4. QED BY <1>1, <1>2, <1>3, WatcherTypeCorrect, PTL DEF Spec

--------------------------------------------------------------------------------
(* The watcher implements the feed. *)

\* The inductive invariant: what was handed over is no newer than the server, what
\* waits is no older than what was delivered, and what is about to be handed over
\* is no older than either.
Ordered ==
    /\ delivered <= Handed /\ Handed <= release
    /\ loop = "send" => Handed <= kvs /\ kvs <= release

LEMMA HandedType == TypeOK => Handed \in Nat /\ delivered \in Nat /\ kvs \in Nat /\ release \in Nat
<1> SUFFICES ASSUME TypeOK PROVE Handed \in Nat /\ delivered \in Nat /\ kvs \in Nat /\ release \in Nat
  OBVIOUS
<1>1. delivered \in Nat /\ kvs \in Nat /\ release \in Nat
  BY WatcherAssumption DEF TypeOK, Releases
<1>2. CASE notifyCh = <<>>
  BY <1>1, <1>2 DEF Handed
<1>3. CASE notifyCh # <<>>
  <2>1. PICK r \in Releases : notifyCh = <<r>>
    BY <1>3 DEF TypeOK
  <2>2. QED BY <1>1, <2>1, WatcherAssumption DEF Handed, Releases
<1>4. QED BY <1>2, <1>3

\* The four kinds of steps, as far as the feed can see them.
LEMMA StepKinds ==
    ASSUME TypeOK, [Next]_vars
    PROVE  \/ Publish \/ Send \/ TakeValue \/ ReloadOk \/ StopReturn
           \/ /\ UNCHANGED <<release, kvs, notifyCh, delivered>>
              /\ loop' # "send" \/ loop = "send"
              /\ (stopper' = "returned") = (stopper = "returned")
<1> USE DEF lifeVars, loopVars, readVars
<1>1. ASSUME NEW s \in Starters,
             CallerCancels(s) \/ DeadlinePasses(s) \/ StartReplace(s) \/ StartLaunch(s)
      PROVE  /\ UNCHANGED <<release, kvs, notifyCh, delivered, stopper>>
             /\ loop' # "send" \/ loop = "send"
  BY <1>1 DEF CallerCancels, DeadlinePasses, StartReplace, StartLaunch
<1>2. ASSUME StopMark \/ StopCancel \/ StopClose
      PROVE  /\ UNCHANGED <<release, kvs, notifyCh, delivered, loop>>
             /\ stopper # "returned" /\ stopper' # "returned"
  BY <1>2 DEF StopMark, StopCancel, StopClose
<1>3. ASSUME LoopMoves
      PROVE  /\ UNCHANGED <<release, kvs, notifyCh, delivered, stopper>>
             /\ loop' # "send"
  BY <1>3, MoveFrame, MoveLoop
<1>4. ASSUME Snapshot \/ PollNotified
      PROVE  /\ UNCHANGED <<release, kvs, notifyCh, delivered, stopper>>
             /\ loop' # "send"
  BY <1>4 DEF Snapshot, PollNotified
<1>5. ASSUME TakeBegin \/ TakeStopped
      PROVE  UNCHANGED <<release, kvs, notifyCh, delivered, stopper, loop>>
  BY <1>5 DEF TakeBegin, TakeStopped
<1>6. CASE UNCHANGED vars
  BY <1>6 DEF vars
<1>7. QED
  BY <1>1, <1>2, <1>3, <1>4, <1>5, <1>6 DEF Next, LoopStep, PollReturns, ReloadReturns, LoopMoves

THEOREM OrderKept == Spec => []Ordered
<1>1. Init => Ordered
  BY DEF Init, Ordered, Handed
<1>2. TypeOK /\ Ordered /\ [Next]_vars => Ordered'
  <2> SUFFICES ASSUME TypeOK, Ordered, [Next]_vars PROVE Ordered'
    OBVIOUS
  <2>0. Handed \in Nat /\ delivered \in Nat /\ kvs \in Nat /\ release \in Nat
    BY HandedType
  <2>1. CASE Publish
    BY <2>0, <2>1 DEF Publish, Ordered, Handed, loopVars, readVars
  <2>2. CASE Send
    <3>1. Handed' = kvs /\ Handed = delivered
      BY <2>2 DEF Send, Handed
    <3>2. QED BY <2>0, <2>2, <3>1 DEF Send, Ordered, readVars
  <2>3. CASE TakeValue
    <3>1. Handed' = Handed /\ delivered' = Handed
      BY <2>3 DEF TakeValue, Handed
    <3>2. QED BY <2>0, <2>3, <3>1 DEF TakeValue, Ordered, loopVars
  <2>4. CASE ReloadOk
    BY <2>0, <2>4 DEF ReloadOk, Ordered, Handed, readVars
  <2>5. CASE StopReturn
    BY <2>5 DEF StopReturn, Ordered, Handed, loopVars, readVars
  <2>6. ASSUME UNCHANGED <<release, kvs, notifyCh, delivered>>, loop' # "send" \/ loop = "send"
        PROVE  Ordered'
    BY <2>6 DEF Ordered, Handed
  <2>7. QED BY <2>1, <2>2, <2>3, <2>4, <2>5, <2>6, StepKinds
<1>3. QED BY <1>1, <1>2, WatcherTypeCorrect, PTL DEF Spec

\* Every step of the watcher is a step of the feed or invisible in it: releases are
\* delivered in order, never ahead of the server, and none is handed over once Stop
\* has returned.
THEOREM ImplementsFeed == Spec => FeedSpec
<1>1. Init => Feed!Init
  BY DEF Init, Feed!Init
<1>2. TypeOK /\ Ordered /\ QuietAfterStop /\ [Next]_vars => [Feed!Next]_(Feed!vars)
  <2> SUFFICES ASSUME TypeOK, Ordered, QuietAfterStop, [Next]_vars
               PROVE  Feed!Next \/ UNCHANGED <<release, notifyCh, delivered, stopper = "returned">>
    BY DEF Feed!vars
  <2> USE DEF lifeVars, readVars
  <2>0. Handed \in Nat /\ delivered \in Nat /\ kvs \in Nat /\ release \in Nat
    BY HandedType
  <2>1. CASE Publish
    BY <2>1 DEF Publish, Feed!Next, Feed!Publish
  <2>2. CASE Send
    <3>1. stopper # "returned" /\ UNCHANGED stopper
      BY <2>2 DEF Send, QuietAfterStop
    <3>2. kvs \in delivered..release
      BY <2>0, <2>2 DEF Send, Ordered, Handed
    <3>3. Feed!Hand
      BY <2>2, <3>1, <3>2 DEF Send, Feed!Hand
    <3>4. QED BY <3>3 DEF Feed!Next
  <2>3. CASE TakeValue
    BY <2>3 DEF TakeValue, Feed!Next, Feed!Deliver
  <2>4. CASE ReloadOk
    BY <2>4 DEF ReloadOk
  <2>5. CASE StopReturn
    <3>1. Feed!Stop
      BY <2>5 DEF StopReturn, Feed!Stop
    <3>2. QED BY <3>1 DEF Feed!Next
  <2>6. QED BY <2>1, <2>2, <2>3, <2>4, <2>5, StepKinds
<1>3. QED BY <1>1, <1>2, WatcherTypeCorrect, OrderKept, StopIsQuiet, PTL DEF Spec, FeedSpec, Feed!Spec
================================================================================
