---------------------------- MODULE BreakerContract ----------------------------
(***************************************************************************)
(* What the circuit breaker of resilience.go promises its callers, without *)
(* the failure window: when an attempt is let through, which outcomes may  *)
(* move the breaker, and how long an open breaker refuses everybody.       *)
(* CircuitBreaker implements this specification.                           *)
(***************************************************************************)
EXTENDS Integers

CONSTANTS Callers,     \* goroutines that read configuration through Do
          OpenPeriod   \* time an open breaker refuses attempts

VARIABLES state,       \* "Closed", "Open" or "HalfOpen"
          cooldown,    \* time since an open breaker was last tripped
          inFlight     \* callers whose operation is running

vars == <<state, cooldown, inFlight>>

Init == /\ state = "Closed"
        /\ cooldown = 0
        /\ inFlight = {}

\* A closed or half-open breaker lets an attempt through.
Admit(c) == /\ c \notin inFlight
            /\ state # "Open"
            /\ inFlight' = inFlight \union {c}
            /\ UNCHANGED <<state, cooldown>>

\* An open breaker lets an attempt through only as a probe, and only once it
\* has refused everybody for longer than OpenPeriod.
Probe(c) == /\ c \notin inFlight
            /\ state = "Open"
            /\ cooldown > OpenPeriod
            /\ state' = "HalfOpen"
            /\ cooldown' = 0
            /\ inFlight' = inFlight \union {c}

\* A success may close a half-open breaker and moves no other; in a closed or
\* an open breaker it leaves everything as it was.
Succeed(c) == /\ c \in inFlight
              /\ inFlight' = inFlight \ {c}
              /\ state' = IF state = "HalfOpen" THEN "Closed" ELSE state
              /\ UNCHANGED cooldown

\* A failure always reopens a half-open breaker, may trip a closed one, and
\* makes an open one wait the whole open period again.
Fail(c) == /\ c \in inFlight
           /\ inFlight' = inFlight \ {c}
           /\ \/ state' = "Open"
              \/ state = "Closed" /\ state' = "Closed"
           /\ cooldown' = 0

\* The operator's overrides.
ForceOpen == state' = "Open" /\ cooldown' = 0 /\ UNCHANGED inFlight
ForceClose == state' = "Closed" /\ cooldown' = 0 /\ UNCHANGED inFlight

\* Time passes for an open breaker.
Elapse == /\ state = "Open"
          /\ cooldown' = cooldown + 1
          /\ UNCHANGED <<state, inFlight>>

Next == \/ \E c \in Callers : Admit(c) \/ Probe(c) \/ Succeed(c) \/ Fail(c)
        \/ ForceOpen \/ ForceClose \/ Elapse

Spec == Init /\ [][Next]_vars
================================================================================
