-------------------------- MODULE ApolloConfigWatcher --------------------------
(***************************************************************************)
(* ApolloConfigWatcher of watcher_adapter.go, the long-poll watcher of one *)
(* namespace: the goroutine running watchLoop, callers of Start and Stop,  *)
(* the consumer that calls Next, the contexts that tie them together, and  *)
(* the Apollo server, which is external and only counts its releases.      *)
(*                                                                         *)
(* A release is a number; a reload returns the server's current release,   *)
(* and stands for all the key/values of that release.  Release 0 is the    *)
(* one the watcher's initial notificationId 0 stands for.                  *)
(***************************************************************************)
EXTENDS Naturals, Sequences

CONSTANTS
    Starters,       \* calls of Start, each with a context of its own
    Cancellable,    \* the calls whose context the caller may cancel
    Expirable,      \* the calls whose context has a deadline
    Faults,         \* requests that may fail though the context is live
    ClientTimeout,  \* timeout of the HTTP client, in seconds
    MaxReleases     \* bound: releases the server publishes

ASSUME WatcherAssumption ==
    /\ "own" \notin Starters
    /\ Cancellable \subseteq Starters /\ Expirable \subseteq Starters
    /\ Faults \subseteq {"poll", "reload"}
    /\ ClientTimeout \in Nat /\ MaxReleases \in Nat

VARIABLES
    release,        \* the server's newest release of the namespace
    ctx,            \* per derived watch context: "live", "cancelled", "expired"
    watchCtx,       \* the context w.watchCtx and w.cancelWatch belong to
    starter,        \* per call of Start: "ready", "replaced", "done"
    launched,       \* startOnce has run
    stopper,        \* the call of Stop: "ready", "marked" (closed = 1),
                    \* "cancelled", "closed" (stopCh closed), "returned"
    loop,           \* where watchLoop is
    loopCtx,        \* its snapshot of watchCtx
    sentId,         \* its snapshot of notificationId, sent with the poll
    notificationId, \* w.notificationId
    kvs,            \* the release its last reload returned
    notifyCh,       \* the channel to Next, capacity 1
    consumer,       \* "idle", "inNext" or "ended" (Next returned an error)
    delivered       \* the release Next last returned, 0 before the first

vars == <<release, ctx, watchCtx, starter, launched, stopper, loop, loopCtx,
          sentId, notificationId, kvs, notifyCh, consumer, delivered>>

loopVars == <<loop, loopCtx, sentId, notificationId, kvs>>
lifeVars == <<ctx, watchCtx, starter, launched, stopper>>
readVars == <<consumer, delivered>>

Contexts == Starters \union {"own"}
Releases == 0..MaxReleases
\* "check": about to look at stopCh; "snapshot": about to take the lock.
LoopStates == {"none", "check", "snapshot", "poll", "backoff", "reload", "send", "exited"}

TypeOK == /\ release \in Releases
          /\ ctx \in [Contexts -> {"live", "cancelled", "expired"}]
          /\ watchCtx \in Contexts
          /\ starter \in [Starters -> {"ready", "replaced", "done"}]
          /\ launched \in BOOLEAN
          /\ stopper \in {"ready", "marked", "cancelled", "closed", "returned"}
          /\ loop \in LoopStates
          /\ loopCtx \in Contexts
          /\ sentId \in Releases
          /\ notificationId \in Releases
          /\ kvs \in Releases
          /\ notifyCh \in {<<>>} \union {<<r>> : r \in Releases}
          /\ consumer \in {"idle", "inNext", "ended"}
          /\ delivered \in Releases

\* NewApolloConfigWatcher, with a context of its own until the first Start.
Init == /\ release = 0
        /\ ctx = [x \in Contexts |-> "live"]
        /\ watchCtx = "own"
        /\ starter = [s \in Starters |-> "ready"]
        /\ launched = FALSE
        /\ stopper = "ready"
        /\ loop = "none"
        /\ loopCtx = "own"
        /\ sentId = 0 /\ notificationId = 0 /\ kvs = 0
        /\ notifyCh = <<>>
        /\ consumer = "idle"
        /\ delivered = 0

\* w.notificationTimeout, in seconds: it is not taken from the configuration.
notificationTimeout == 60

StopChClosed == stopper \in {"closed", "returned"}

\* The first cause wins: ctx.Err() never changes once it is set.
Cancelled(x) == [ctx EXCEPT ![x] = IF @ = "live" THEN "cancelled" ELSE @]

--------------------------------------------------------------------------------
(* The server and the callers' contexts. *)

Publish == /\ release < MaxReleases
           /\ release' = release + 1
           /\ UNCHANGED <<lifeVars, loopVars, notifyCh, readVars>>

\* The context the caller passed, or will pass, to Start is cancelled, or its
\* deadline passes; the derived context inherits either.
CallerCancels(s) == /\ s \in Cancellable /\ ctx[s] = "live"
                    /\ ctx' = [ctx EXCEPT ![s] = "cancelled"]
                    /\ UNCHANGED <<release, watchCtx, starter, launched, stopper,
                                   loopVars, notifyCh, readVars>>

DeadlinePasses(s) == /\ s \in Expirable /\ ctx[s] = "live"
                     /\ ctx' = [ctx EXCEPT ![s] = "expired"]
                     /\ UNCHANGED <<release, watchCtx, starter, launched, stopper,
                                    loopVars, notifyCh, readVars>>

--------------------------------------------------------------------------------
(* Start and Stop. *)

\* Start, first half, under w.mu: cancel the context in place and replace it,
\* even when the loop is running on it.
StartReplace(s) ==
    /\ starter[s] = "ready"
    /\ ctx' = Cancelled(watchCtx)
    /\ watchCtx' = s
    /\ starter' = [starter EXCEPT ![s] = "replaced"]
    /\ UNCHANGED <<release, launched, stopper, loopVars, notifyCh, readVars>>

\* Start, second half: the first call launches the loop, once and for all.
StartLaunch(s) ==
    /\ starter[s] = "replaced"
    /\ starter' = [starter EXCEPT ![s] = "done"]
    /\ launched' = TRUE
    /\ loop' = IF launched THEN loop ELSE "check"
    /\ UNCHANGED <<release, ctx, watchCtx, stopper, loopCtx, sentId,
                   notificationId, kvs, notifyCh, readVars>>

\* Stop, inside stopOnce: set closed, cancel whatever context is in place (read
\* without the lock), close stopCh.
StopMark == /\ stopper = "ready"
            /\ stopper' = "marked"
            /\ UNCHANGED <<release, ctx, watchCtx, starter, launched, loopVars,
                           notifyCh, readVars>>

StopCancel == /\ stopper = "marked"
              /\ stopper' = "cancelled"
              /\ ctx' = Cancelled(watchCtx)
              /\ UNCHANGED <<release, watchCtx, starter, launched, loopVars,
                             notifyCh, readVars>>

\* Mutant: stopCh is not closed before the wait, only the context is cancelled.
StopCloseForgotten == /\ stopper = "cancelled"
                      /\ loop \in {"none", "exited"}
                      /\ stopper' = "returned"
                      /\ UNCHANGED <<release, ctx, watchCtx, starter, launched,
                                     loopVars, notifyCh, readVars>>

StopClose == /\ stopper = "cancelled"
             /\ stopper' = "closed"
             /\ UNCHANGED <<release, ctx, watchCtx, starter, launched, loopVars,
                            notifyCh, readVars>>

\* Mutant: Stop does not wait for the loop.
StopReturnEarly == /\ stopper = "closed"
                   /\ stopper' = "returned"
                   /\ UNCHANGED <<release, ctx, watchCtx, starter, launched,
                                  loopVars, notifyCh, readVars>>

\* w.wg.Wait(): a loop that is not launched yet is not waited for.
StopReturn == /\ stopper = "closed"
              /\ loop \in {"none", "exited"}
              /\ stopper' = "returned"
              /\ UNCHANGED <<release, ctx, watchCtx, starter, launched, loopVars,
                             notifyCh, readVars>>

--------------------------------------------------------------------------------
(* watchLoop. *)

\* The steps of the loop that only move it from one place to another.
Goto(to) == /\ loop' = to
            /\ UNCHANGED <<release, lifeVars, loopCtx, sentId, notificationId,
                           kvs, notifyCh, readVars>>

\* The non-blocking look at stopCh at the head of the loop.
CheckStop == /\ loop = "check"
             /\ Goto(IF StopChClosed THEN "exited" ELSE "snapshot")

\* The snapshot under the read lock, and the request.
Snapshot == /\ loop = "snapshot"
            /\ loop' = "poll"
            /\ loopCtx' = watchCtx
            /\ sentId' = notificationId
            /\ UNCHANGED <<release, lifeVars, notificationId, kvs, notifyCh, readVars>>

\* WatchNotifications returns a release newer than the one sent: the loop
\* advances notificationId before it reloads.
PollNotified == /\ loop = "poll"
                /\ ctx[loopCtx] = "live"
                /\ release > sentId
                /\ loop' = "reload"
                /\ notificationId' = release
                /\ UNCHANGED <<release, lifeVars, loopCtx, sentId, kvs, notifyCh, readVars>>

\* It returns an empty list: there is nothing new (status 304), or the deadline of
\* the watch context has passed, which WatchNotifications cannot tell from the
\* timeout of the poll.
PollQuiet == /\ loop = "poll"
             /\ \/ ctx[loopCtx] = "live" /\ release = sentId
                \/ ctx[loopCtx] = "expired"
             /\ Goto("check")

\* No answer comes in time.  The timeout of the poll gives an empty list; the
\* HTTP client's own, which is the shorter one when the plugin builds the client,
\* gives an error.
PollTimesOut == /\ loop = "poll"
                /\ ctx[loopCtx] = "live"
                /\ Goto(IF ClientTimeout < notificationTimeout THEN "backoff" ELSE "check")

\* Mutant: any error of a poll ends the loop.
PollFailsExits == /\ loop = "poll"
                  /\ \/ ctx[loopCtx] = "live" /\ "poll" \in Faults
                     \/ ctx[loopCtx] = "expired"
                  /\ Goto("exited")

\* It returns an error, and the watch context is not cancelled.
PollFails == /\ loop = "poll"
             /\ \/ ctx[loopCtx] = "live" /\ "poll" \in Faults
                \/ ctx[loopCtx] = "expired"
             /\ Goto("backoff")

\* Mutant: a cancelled poll is an error like any other.
PollCancelledRetries == /\ loop = "poll"
                        /\ ctx[loopCtx] = "cancelled"
                        /\ Goto("backoff")

PollCancelled == /\ loop = "poll"
                 /\ ctx[loopCtx] = "cancelled"
                 /\ Goto("exited")

\* The select between stopCh and a 5 s timer.
BackoffStopped == loop = "backoff" /\ StopChClosed /\ Goto("exited")

BackoffOver == loop = "backoff" /\ Goto("check")

ReloadOk == /\ loop = "reload"
            /\ ctx[loopCtx] = "live"
            /\ loop' = "send"
            /\ kvs' = release
            /\ UNCHANGED <<release, lifeVars, loopCtx, sentId, notificationId,
                           notifyCh, readVars>>

\* GetConfig fails: the error is logged and the notification is done with.
ReloadFails == /\ loop = "reload"
               /\ \/ ctx[loopCtx] = "live" /\ "reload" \in Faults
                  \/ ctx[loopCtx] = "expired"
               /\ Goto("check")

ReloadCancelled == /\ loop = "reload"
                   /\ ctx[loopCtx] = "cancelled"
                   /\ Goto("exited")

\* Mutant: a full channel makes the loop drop what it has reloaded.
SendOrDrop == /\ loop = "send"
              /\ notifyCh' = IF notifyCh = <<>> THEN <<kvs>> ELSE notifyCh
              /\ loop' = "check"
              /\ UNCHANGED <<release, lifeVars, loopCtx, sentId, notificationId,
                             kvs, readVars>>

\* Mutant: the channel has no limit.
SendUnbounded == /\ loop = "send"
                 /\ notifyCh' = Append(notifyCh, kvs)
                 /\ loop' = "check"
                 /\ UNCHANGED <<release, lifeVars, loopCtx, sentId, notificationId,
                                kvs, readVars>>

\* The select between stopCh and the channel; the context is not consulted.
Send == /\ loop = "send"
        /\ notifyCh = <<>>
        /\ notifyCh' = <<kvs>>
        /\ loop' = "check"
        /\ UNCHANGED <<release, lifeVars, loopCtx, sentId, notificationId, kvs, readVars>>

SendStopped == loop = "send" /\ StopChClosed /\ Goto("exited")

PollReturns == PollNotified \/ PollQuiet \/ PollTimesOut \/ PollFails \/ PollCancelled
ReloadReturns == ReloadOk \/ ReloadFails \/ ReloadCancelled
LoopStep == \/ CheckStop \/ Snapshot \/ PollReturns \/ BackoffStopped \/ BackoffOver
            \/ ReloadReturns \/ Send \/ SendStopped

--------------------------------------------------------------------------------
(* Next, called Take here. *)

\* Next fails at once when closed is set, else it waits.
TakeBegin == /\ consumer = "idle"
             /\ consumer' = IF stopper = "ready" THEN "inNext" ELSE "ended"
             /\ UNCHANGED <<release, lifeVars, loopVars, notifyCh, delivered>>

TakeValue == /\ consumer = "inNext"
             /\ notifyCh # <<>>
             /\ delivered' = Head(notifyCh)
             /\ notifyCh' = <<>>
             /\ consumer' = "idle"
             /\ UNCHANGED <<release, lifeVars, loopVars>>

\* Mutant: Next looks at stopCh only when a value has come.
TakeStoppedLate == /\ consumer = "inNext"
                   /\ StopChClosed /\ notifyCh # <<>>
                   /\ consumer' = "ended"
                   /\ UNCHANGED <<release, lifeVars, loopVars, notifyCh, delivered>>

TakeStopped == /\ consumer = "inNext"
               /\ StopChClosed
               /\ consumer' = "ended"
               /\ UNCHANGED <<release, lifeVars, loopVars, notifyCh, delivered>>

--------------------------------------------------------------------------------

Next == \/ Publish
        \/ \E s \in Starters : \/ CallerCancels(s) \/ DeadlinePasses(s)
                               \/ StartReplace(s) \/ StartLaunch(s)
        \/ StopMark \/ StopCancel \/ StopClose \/ StopReturn
        \/ LoopStep
        \/ TakeBegin \/ TakeValue \/ TakeStopped

Spec == Init /\ [][Next]_vars

\* The goroutines run: the loop, a call of Start or Stop that has begun, a call
\* of Next that can return.  Requests return because the HTTP client has a
\* timeout.  Nobody has to call Start, Stop or Next.
Fairness == /\ WF_vars(LoopStep)
            /\ \A s \in Starters : WF_vars(StartLaunch(s))
            /\ WF_vars(StopCancel \/ StopClose \/ StopReturn)
            /\ WF_vars(TakeValue \/ TakeStopped)

FairSpec == Spec /\ Fairness

\* With a server that answers again and again, and a consumer that calls Next
\* again and again.
ServedSpec == FairSpec /\ SF_vars(PollNotified) /\ WF_vars(TakeBegin)

--------------------------------------------------------------------------------
(* Properties. *)

\* Stop has joined the loop: once it has returned no request is made and none is
\* in flight, not even for a Start that comes after it.
QuietAfterStop == stopper = "returned" => loop \in {"none", "check", "exited"}

\* The newest release that has been handed to the consumer's side.
Handed == IF notifyCh = <<>> THEN delivered ELSE Head(notifyCh)

\* When the loop asks for changes newer than notificationId, everything up to it
\* has been handed over: nothing is skipped by a full channel, a slow consumer or
\* a failed poll.
AnnouncedIsHanded == loop \in {"check", "snapshot", "poll", "backoff"}
                        => notificationId <= Handed

\* A call of Stop returns, whatever the loop is doing when it comes.
StopReturns == stopper = "marked" ~> stopper = "returned"

\* When the context a loop runs on is cancelled the loop ends, unless a Start puts
\* a new context in its place before the loop has seen it, or the loop is
\* blocked for ever on a channel nobody empties: the send waits for stopCh and
\* the consumer, not for the context.
CancelledLoopEnds == \A s \in Starters :
    (launched /\ watchCtx = s /\ ctx[s] = "cancelled")
       ~> (loop = "exited" \/ watchCtx # s \/ [](loop = "send"))

\* A call of Next does not outlive the watcher.
NextUnblocks == consumer = "inNext" /\ StopChClosed ~> consumer # "inNext"

\* The newest release reaches the consumer, unless the watcher is stopped or its
\* context is no longer live.
ReleasesArrive == \A r \in 1..MaxReleases :
    (release >= r /\ launched) ~> \/ delivered >= r
                                  \/ stopper # "ready"
                                  \/ \E s \in Starters : ctx[s] # "live"

\* Seen from Next, the watcher is the feed that ChangeFeed describes: whatever
\* fails, is cancelled, restarted or stopped in between, a consumer never gets an
\* older release after a newer one, and nothing once Stop has returned but what
\* was waiting.
Feed == INSTANCE ChangeFeed WITH channel <- notifyCh, stopped <- stopper = "returned"

FeedSpec == Feed!Spec

--------------------------------------------------------------------------------
(* Statements of the source's comments and tests that the code does not keep. *)

\* "Timeout is expected in long polling", it means "No changes" (the comments in
\* WatchNotifications): when no request fails, a poll on a live context is not
\* followed by the back-off that is meant for errors.
TimeoutIsNoError ==
    [][loop = "poll" /\ ctx[loopCtx] = "live" /\ "poll" \notin Faults
          => loop' # "backoff"]_vars
================================================================================
