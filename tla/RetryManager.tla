------------------------------ MODULE RetryManager ------------------------------
(***************************************************************************)
(* RetryManager of resilience.go: DoWithRetry and DoWithRetryContext, with *)
(* the length of every backoff.  Times are in milliseconds.                *)
(*                                                                         *)
(* One call at a time: calls share nothing, the manager is read-only.  The *)
(* operation is external and succeeds or fails as it likes.  DoWithRetry   *)
(* is DoWithRetryContext with a context that nobody cancels.               *)
(***************************************************************************)
EXTENDS Naturals

VARIABLES
    manager,    \* maxRetries and retryInterval
    at,         \* "idle", "check" (the head of the loop), "begin" (past the look at the
                \* context), "run" (in the operation), "sleep"
    attempt,    \* the loop counter
    backoff,    \* the last sleep of this call, 0 before the first
    cancelledAt,    \* where the call was when its context was cancelled, or "none"
    late,       \* history: operations begun since the context was cancelled
    outcome     \* what the last call returned

loop == <<at, attempt, backoff, cancelledAt, late, outcome>>

\* ctx.Done() is closed.
cancelled == cancelledAt # "none"

MaxBackoff == 30000
Least(a, b) == IF a < b THEN a ELSE b

Manager == [maxRetries : Nat, retryInterval : Nat]

RetryTypeOK == /\ manager \in Manager
               /\ at \in {"idle", "check", "begin", "run", "sleep"}
               /\ attempt \in 0..manager.maxRetries
               /\ backoff \in 0..MaxBackoff
               /\ cancelledAt \in {"none", "check", "begin", "run", "sleep"}
               /\ late \in Nat
               /\ outcome \in {"none", "ok", "failed", "cancelled"}

NewRetryManager(maxRetries, retryInterval) ==
    [maxRetries |-> maxRetries, retryInterval |-> retryInterval]

LoopInit == /\ at = "idle" /\ attempt = 0 /\ backoff = 0
            /\ cancelledAt = "none" /\ late = 0 /\ outcome = "none"

--------------------------------------------------------------------------------

\* Mutant: the cap is forgotten.
UncappedBackoff(n) == manager.retryInterval * 2^n

calculateBackoff(n) == Least(manager.retryInterval * 2^n, MaxBackoff)

CallRetry == /\ at = "idle"
             /\ at' = "check" /\ attempt' = 0 /\ backoff' = 0
             /\ cancelledAt' = "none" /\ late' = 0 /\ outcome' = "none"
             /\ UNCHANGED manager

Cancel == /\ at # "idle" /\ ~cancelled
          /\ cancelledAt' = at
          /\ UNCHANGED <<manager, at, attempt, backoff, late, outcome>>

Return(result) == /\ at' = "idle" /\ outcome' = result
                  /\ UNCHANGED <<manager, attempt, backoff, cancelledAt, late>>

\* Mutant: the context is looked at only while the loop sleeps.
CheckNothing == /\ at = "check"
                /\ at' = "begin"
                /\ UNCHANGED <<manager, attempt, backoff, cancelledAt, late, outcome>>

\* The look at the context at the head of the loop.
CheckContext ==
    /\ at = "check"
    /\ \/ cancelled /\ Return("cancelled")
       \/ /\ ~cancelled
          /\ at' = "begin"
          /\ UNCHANGED <<manager, attempt, backoff, cancelledAt, late, outcome>>

\* The operation is called; nobody looks at the context again before.
BeginOperation ==
    /\ at = "begin"
    /\ at' = "run"
    /\ late' = IF cancelled THEN late + 1 ELSE late
    /\ UNCHANGED <<manager, attempt, backoff, cancelledAt, outcome>>

\* The operation returns; it is not told of the context.
OperationSucceeds == at = "run" /\ Return("ok")

\* Mutant: one retry too many.
OperationFailsOnceMore ==
    /\ at = "run"
    /\ \/ attempt > manager.maxRetries /\ Return("failed")
       \/ /\ attempt <= manager.maxRetries
          /\ at' = "sleep" /\ backoff' = calculateBackoff(attempt)
          /\ UNCHANGED <<manager, attempt, cancelledAt, late, outcome>>

OperationFails ==
    /\ at = "run"
    /\ \/ attempt = manager.maxRetries /\ Return("failed")
       \/ /\ attempt < manager.maxRetries
          /\ at' = "sleep" /\ backoff' = calculateBackoff(attempt)
          /\ UNCHANGED <<manager, attempt, cancelledAt, late, outcome>>

\* The select between the timer and the context; when both are ready either may win.
SleepOver == /\ at = "sleep"
             /\ at' = "check" /\ attempt' = attempt + 1
             /\ UNCHANGED <<manager, backoff, cancelledAt, late, outcome>>

SleepCancelled == at = "sleep" /\ cancelled /\ Return("cancelled")

RetryStep == \/ CheckContext \/ BeginOperation \/ OperationSucceeds \/ OperationFails
             \/ SleepOver \/ SleepCancelled

RetryNext == CallRetry \/ Cancel \/ RetryStep

--------------------------------------------------------------------------------
(* Properties. *)

\* A cancellation is heard wherever the call is: no operation begins after it, not
\* even when the timer wins the select of the sleep, except the one that was about to
\* be called when the context was cancelled.
CancelHeard == late <= IF cancelledAt = "begin" THEN 1 ELSE 0

\* The sleeps of one call are as long as retry_interval at least, unless that
\* exceeds 30 s, never grow shorter, and are never longer than 30 s.
BackoffGrows ==
    [][at = "run" /\ at' = "sleep"
          => /\ backoff' <= MaxBackoff
             /\ backoff' >= backoff
             /\ backoff' >= Least(manager.retryInterval, MaxBackoff)]_<<manager, loop>>
================================================================================
