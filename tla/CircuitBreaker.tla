---------------------------- MODULE CircuitBreaker -----------------------------
(***************************************************************************)
(* CircuitBreaker of resilience.go: a rolling window of outcomes, a state  *)
(* and the time of the last failure, all guarded by a lock that is NOT     *)
(* held while the protected operation runs.  Do is therefore two atomic    *)
(* steps, BeforeAttempt and AfterAttempt, and anything may happen between  *)
(* them.                                                                   *)
(*                                                                         *)
(* Time.  A timestamp is kept as its age.  Ages stop at Window + 1: every  *)
(* comparison of the code is against the window or the shorter open        *)
(* period, so all older timestamps behave alike.                           *)
(***************************************************************************)
EXTENDS Integers, Sequences, FiniteSets, FiniteSetsExt

CONSTANTS
    Callers,        \* goroutines that call Do
    ThresholdNum,   \* the failure rate that opens the breaker is
    ThresholdDen,   \*   ThresholdNum / ThresholdDen
    Window,         \* circuitWindow, in ticks
    OpenPeriod,     \* the open period of beforeAttempt, in ticks
    MaxEvents       \* bound: outcomes the window holds at once

ASSUME BreakerAssumption ==
    /\ ThresholdNum \in Nat /\ ThresholdDen \in Nat \ {0}
    /\ Window \in Nat /\ OpenPeriod \in Nat /\ OpenPeriod <= Window
    /\ MaxEvents \in Nat

VARIABLES
    state,          \* cb.state
    failures,       \* cb.failures, oldest first, as ages
    successes,      \* cb.successes, oldest first, as ages
    lastFailure,    \* age of cb.lastFailure; the zero time is Stale
    call            \* per caller: "idle" (not in Do), "rejected" by its last
                    \* beforeAttempt, or "running" operation()

vars == <<state, failures, successes, lastFailure, call>>

States == {"Closed", "Open", "HalfOpen"}
Stale == Window + 1
Ages == 0..Stale

TypeOK == /\ state \in States
          /\ failures \in Seq(Ages)
          /\ successes \in Seq(Ages)
          /\ lastFailure \in Ages
          /\ call \in [Callers -> {"idle", "rejected", "running"}]

Init == /\ state = "Closed"
        /\ failures = <<>>
        /\ successes = <<>>
        /\ lastFailure = Stale
        /\ call = [c \in Callers |-> "idle"]

--------------------------------------------------------------------------------
(* The window. *)

\* Mutant: the window boundary is excluded.
PruneBeforeTooMuch(ts) ==
    LET fresh == {i \in DOMAIN ts : ts[i] < Window}
    IN IF fresh = {} THEN <<>> ELSE SubSeq(ts, Min(fresh), Len(ts))

\* pruneBefore drops the leading timestamps older than the window and stops at
\* the first one it keeps.
PruneBefore(ts) ==
    LET fresh == {i \in DOMAIN ts : ts[i] <= Window}
    IN IF fresh = {} THEN <<>> ELSE SubSeq(ts, Min(fresh), Len(ts))

\* f failures among f + s outcomes reach the rate num / den; an empty window has
\* rate 0.
Reaches(f, s, num, den) == IF f + s = 0 THEN num = 0 ELSE f * den >= num * (f + s)

RateReached(fs, ss) == Reaches(Len(fs), Len(ss), ThresholdNum, ThresholdDen)

--------------------------------------------------------------------------------
(* Do. *)

\* beforeAttempt: an open breaker admits nobody during the open period, then
\* turns half-open for the first caller that comes; a half-open breaker admits
\* every caller, whatever its log line says.
BeforeAttempt(c) ==
    /\ call[c] # "running"
    /\ \/ /\ state = "Open" /\ lastFailure > OpenPeriod
          /\ state' = "HalfOpen"
          /\ call' = [call EXCEPT ![c] = "running"]
       \/ /\ state = "Open" /\ lastFailure <= OpenPeriod
          /\ call' = [call EXCEPT ![c] = "rejected"]
          /\ UNCHANGED state
       \/ /\ state # "Open"
          /\ call' = [call EXCEPT ![c] = "running"]
          /\ UNCHANGED state
    /\ UNCHANGED <<failures, successes, lastFailure>>

\* Mutant: a failure moves the breaker to the next constant, cb.state++.
RecordFailureAdvances ==
    /\ failures' = PruneBefore(Append(failures, 0))
    /\ successes' = PruneBefore(successes)
    /\ lastFailure' = 0
    /\ state' = CASE state = "Closed" /\ RateReached(failures', successes') -> "Open"
                  [] state = "HalfOpen" -> "Invalid"
                  [] OTHER -> state

\* Mutant: the time of the failure is not remembered.
RecordFailureNoStamp ==
    /\ failures' = PruneBefore(Append(failures, 0))
    /\ successes' = PruneBefore(successes)
    /\ UNCHANGED lastFailure
    /\ state' = IF \/ state = "Closed" /\ RateReached(failures', successes')
                   \/ state = "HalfOpen"
                THEN "Open" ELSE state

\* recordFailure: counts the outcome, restarts the open period, and opens a
\* closed breaker whose rate reaches the threshold and every half-open one.
RecordFailure ==
    /\ failures' = PruneBefore(Append(failures, 0))
    /\ successes' = PruneBefore(successes)
    /\ lastFailure' = 0
    /\ state' = IF \/ state = "Closed" /\ RateReached(failures', successes')
                   \/ state = "HalfOpen"
                THEN "Open" ELSE state

\* Mutant: a success never closes the breaker.
RecordSuccessNoClose ==
    /\ failures' = PruneBefore(failures)
    /\ successes' = PruneBefore(Append(successes, 0))
    /\ UNCHANGED <<state, lastFailure>>

\* recordSuccess: counts the outcome; any success that arrives while the
\* breaker is half-open closes it and clears the window.
RecordSuccess ==
    /\ IF state = "HalfOpen"
       THEN /\ state' = "Closed"
            /\ failures' = <<>>
            /\ successes' = <<>>
       ELSE /\ failures' = PruneBefore(failures)
            /\ successes' = PruneBefore(Append(successes, 0))
            /\ UNCHANGED state
    /\ UNCHANGED lastFailure

\* afterAttempt, when the operation of c returned without (ok) or with an error.
AfterAttempt(c, ok) ==
    /\ call[c] = "running"
    /\ Len(PruneBefore(failures)) + Len(PruneBefore(successes)) < MaxEvents
    /\ call' = [call EXCEPT ![c] = "idle"]
    /\ IF ok THEN RecordSuccess ELSE RecordFailure

--------------------------------------------------------------------------------
(* The other operations of the breaker, and time. *)

\* GetFailureRate prunes as it reads.
GetFailureRate == /\ failures' = PruneBefore(failures)
                  /\ successes' = PruneBefore(successes)
                  /\ UNCHANGED <<state, lastFailure, call>>

\* Mutant: the cooldown of a forced breaker is left over from its last failure.
ForceOpenNoStamp == /\ state' = "Open"
                    /\ UNCHANGED <<failures, successes, lastFailure, call>>

ForceOpen == /\ state' = "Open"
             /\ lastFailure' = 0
             /\ UNCHANGED <<failures, successes, call>>

ForceClose == /\ state' = "Closed"
              /\ failures' = <<>>
              /\ successes' = <<>>
              /\ UNCHANGED <<lastFailure, call>>

Older(age) == IF age = Stale THEN Stale ELSE age + 1

\* One tick of the clock.
Tick == /\ failures' = [i \in DOMAIN failures |-> Older(failures[i])]
        /\ successes' = [i \in DOMAIN successes |-> Older(successes[i])]
        /\ lastFailure' = Older(lastFailure)
        /\ UNCHANGED <<state, call>>

Next == \/ \E c \in Callers : BeforeAttempt(c)
        \/ \E c \in Callers, ok \in BOOLEAN : AfterAttempt(c, ok)
        \/ GetFailureRate
        \/ ForceOpen
        \/ ForceClose
        \/ Tick

Spec == Init /\ [][Next]_vars

\* Time goes on, an operation returns (the HTTP client has a timeout), and
\* callers keep reading configuration.
Fairness == /\ WF_vars(Tick)
            /\ \A c \in Callers : /\ WF_vars(BeforeAttempt(c))
                                  /\ WF_vars(\E ok \in BOOLEAN : AfterAttempt(c, ok))

FairSpec == Spec /\ Fairness

--------------------------------------------------------------------------------
(* Properties. *)

Ordered(ts) == \A i, j \in DOMAIN ts : i <= j => ts[j] <= ts[i]

\* Both windows are in chronological order, which is what lets pruneBefore stop
\* at the first fresh timestamp, and no recorded failure is younger than
\* lastFailure, from which the open period is measured.
WindowOrdered == /\ Ordered(failures)
                 /\ Ordered(successes)
                 /\ \A i \in DOMAIN failures : lastFailure <= failures[i]

\* The outcomes of the last Window ticks, counted one by one.
FreshCount(ts) == Cardinality({i \in DOMAIN ts : ts[i] <= Window})

\* An attempt that ends while the breaker is closed opens it exactly when it
\* failed and the failures are ThresholdNum / ThresholdDen of all outcomes of
\* the last Window ticks, this one included: nothing older counts and nothing
\* younger is lost by pruning.
OpensExactlyAtRate ==
    [][\A c \in Callers, ok \in BOOLEAN :
          AfterAttempt(c, ok) /\ state = "Closed" =>
             (state' = "Open" <=>
                /\ ~ok
                /\ Reaches(FreshCount(failures) + 1, FreshCount(successes),
                           ThresholdNum, ThresholdDen))]_vars

\* What the callers rely on: see BreakerContract.
Contract == INSTANCE BreakerContract
               WITH cooldown <- IF state = "Open" THEN lastFailure ELSE 0,
                    inFlight <- {c \in Callers : call[c] = "running"}

\* Every step of the breaker is one the contract allows: an open breaker lets
\* nobody through before its open period is over, whoever tripped it, and only a
\* success or ForceClose closes it.
ContractSpec == Contract!Spec

\* If from some time on no attempt fails and nobody forces the breaker open, it
\* is closed again and again: it does not reject callers for ever.
Recovers ==
    <>[][ForceOpen \/ (\E c \in Callers : AfterAttempt(c, FALSE)) => FALSE]_vars
       => []<>(state = "Closed")

================================================================================
