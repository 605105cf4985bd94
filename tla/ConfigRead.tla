------------------------------- MODULE ConfigRead -------------------------------
(***************************************************************************)
(* Reads and health checks: GetConfigValue (config.go) runs DoWithRetry of *)
(* the retry manager around Do of the circuit breaker, and the circuit     *)
(* breaker around the request; checkApolloHealth (health.go) runs another  *)
(* DoWithRetry around GetConfigValue of a key that need not exist.  The    *)
(* HTTP client (client.go) asks the meta server for the config server's    *)
(* address when it has none, and keeps the answer for good.                *)
(*                                                                         *)
(* The breaker is CircuitBreaker.tla, used through its operations.  The    *)
(* operator's overrides are not called by this code, so they do not occur. *)
(* Without cache: a hit is a request that succeeds at once.                *)
(***************************************************************************)
EXTENDS Integers, Sequences

CONSTANTS
    Readers,        \* goroutines that read keys the server has
    Probers,        \* goroutines that call CheckHealth
    MaxRetries,     \* max_retry_times
    Outages,        \* whether the servers may become unreachable
    Moves,          \* whether the config server may move to another address
    ThresholdNum, ThresholdDen, Window, OpenPeriod, MaxEvents   \* see CircuitBreaker

ASSUME ReadAssumption ==
    /\ Readers \cap Probers = {}
    /\ MaxRetries \in Nat
    /\ {Outages, Moves} \subseteq BOOLEAN
    /\ ThresholdNum \in Nat /\ ThresholdDen \in Nat \ {0}
    /\ Window \in Nat /\ OpenPeriod \in Nat /\ OpenPeriod <= Window
    /\ MaxEvents \in Nat

VARIABLES
    state, failures, successes, lastFailure, call,      \* the breaker
    up,             \* meta and config server can be reached
    home,           \* the address of the config server
    configServer,   \* the address the client has, or "none"
    job,            \* per goroutine, see Job
    calm            \* history: ticks since there was Trouble, up to OpenPeriod + 1

breaker == <<state, failures, successes, lastFailure, call>>
servers == <<up, home>>
vars == <<breaker, servers, configServer, job, calm>>

Callers == Readers \union Probers

Breaker == INSTANCE CircuitBreaker

Addresses == {"old", "new"}

\* at: "idle", before an attempt ("try"), inside the operation, which first looks for
\* the address ("run"), may have to ask for it ("ask") and to store it ("resolved"),
\* and then waits for its request ("request"), after it ("answered"), or in the sleep
\* of the inner ("sleep") or outer ("pause") DoWithRetry; attempt, round: the loop
\* counters of the two; cause: lastErr of GetConfigValue; server: the address in use;
\* response: of the operation, until Do records it; result: of the last call.
Job == [at : {"idle", "try", "run", "ask", "resolved", "request", "answered",
              "sleep", "pause"},
        server : Addresses \union {"none"},
        response : {"none", "value", "notFound", "unreachable"},
        attempt : 0..MaxRetries, round : 0..MaxRetries,
        cause : {"none", "notFound", "unreachable"},
        result : {"none", "value", "failed", "healthy", "unhealthy"}]

TypeOK == /\ Breaker!TypeOK
          /\ up \in BOOLEAN
          /\ home \in Addresses
          /\ configServer \in Addresses \union {"none"}
          /\ job \in [Callers -> Job]
          /\ calm \in 0..OpenPeriod + 1

NewJob == [at |-> "idle", server |-> "none", response |-> "none",
           attempt |-> 0, round |-> 0, cause |-> "none", result |-> "none"]

Init == /\ Breaker!Init
        /\ up = TRUE /\ home = "old"
        /\ configServer = "none"
        /\ job = [c \in Callers |-> NewJob]
        /\ calm = 0

Failing == {"notFound", "unreachable"}

\* The servers cannot be reached, somebody uses an address the config server has left,
\* or a failing answer, of a health check as well, has not reached the breaker yet.
Trouble == \/ ~up
           \/ \E c \in Callers : \/ job[c].server \notin {"none", home}
                                \/ job[c].response \in Failing

\* History: every step of the system watches for trouble.
Watch == calm' = IF Trouble' THEN 0 ELSE calm

--------------------------------------------------------------------------------

ServerFails == /\ Outages /\ up /\ up' = FALSE
               /\ UNCHANGED <<breaker, home, configServer, job>> /\ Watch

ServerRecovers == /\ ~up /\ up' = TRUE
                  /\ UNCHANGED <<breaker, home, configServer, job>> /\ Watch

\* The config server gets a new address, which the meta server knows from then on.
ServerMoves == /\ Moves /\ home = "old" /\ home' = "new"
               /\ UNCHANGED <<breaker, up, configServer, job>> /\ Watch

Tick == /\ Breaker!Tick
        /\ calm' = IF Trouble \/ calm > OpenPeriod THEN calm ELSE calm + 1
        /\ UNCHANGED <<servers, configServer, job>>

\* GetConfigValue, or CheckHealth for a prober, is called.
Begin(c) == /\ job[c].at = "idle"
            /\ job' = [job EXCEPT ![c] = [NewJob EXCEPT !.at = "try"]]
            /\ UNCHANGED <<breaker, servers, configServer>> /\ Watch

Finished(result) == [NewJob EXCEPT !.result = result]

\* Mutant: one retry too many.
AfterFailureOnceMore(c, cause) ==
    LET j == job[c] IN
    IF j.attempt <= MaxRetries
    THEN [j EXCEPT !.at = "sleep", !.attempt = @ + 1, !.response = "none", !.cause = cause]
    ELSE Finished("failed")

\* An attempt of c has failed, lastErr being cause: what DoWithRetry, and around
\* it GetConfigValue and the health check, make of it.  The cause "not found"
\* makes a health check pass.
AfterFailure(c, cause) ==
    LET j == job[c] IN
    CASE j.attempt < MaxRetries ->
            [j EXCEPT !.at = "sleep", !.response = "none", !.cause = cause]
      [] j.attempt = MaxRetries /\ c \in Readers -> Finished("failed")
      [] j.attempt = MaxRetries /\ c \in Probers /\ cause = "notFound" -> Finished("healthy")
      [] j.attempt = MaxRetries /\ c \in Probers /\ cause # "notFound" ->
            IF j.round < MaxRetries THEN [j EXCEPT !.at = "pause", !.response = "none"]
            ELSE Finished("unhealthy")

\* Mutant: a rejected attempt restarts the open period.
AttemptRestarts(c) ==
    /\ job[c].at = "try"
    /\ IF state = "Open" /\ lastFailure <= OpenPeriod
       THEN /\ call' = [call EXCEPT ![c] = "rejected"]
            /\ lastFailure' = 0
            /\ UNCHANGED <<state, failures, successes>>
       ELSE Breaker!BeforeAttempt(c)
    /\ job' = [job EXCEPT ![c] = IF call'[c] = "running" THEN [@ EXCEPT !.at = "run"]
                                 ELSE AfterFailure(c, job[c].cause)]
    /\ UNCHANGED <<servers, configServer>> /\ Watch

\* Do, up to the operation.  A rejection is a failed attempt, which leaves lastErr
\* alone and is retried like any other.
Attempt(c) ==
    /\ job[c].at = "try"
    /\ Breaker!BeforeAttempt(c)
    /\ job' = [job EXCEPT ![c] = IF call'[c] = "running" THEN [@ EXCEPT !.at = "run"]
                                 ELSE AfterFailure(c, job[c].cause)]
    /\ UNCHANGED <<servers, configServer>> /\ Watch

\* getConfigServer: the address the client has, if it has one.
FindServer(c) ==
    /\ job[c].at = "run"
    /\ job' = [job EXCEPT ![c] = IF configServer = "none" THEN [@ EXCEPT !.at = "ask"]
                                 ELSE [@ EXCEPT !.at = "request", !.server = configServer]]
    /\ UNCHANGED <<breaker, servers, configServer>> /\ Watch

\* The meta server's answer, or none.
AskMetaServer(c) ==
    /\ job[c].at = "ask"
    /\ job' = [job EXCEPT ![c] =
                 IF up THEN [@ EXCEPT !.at = "resolved", !.server = home]
                 ELSE [@ EXCEPT !.at = "answered", !.response = "unreachable"]]
    /\ UNCHANGED <<breaker, servers, configServer>> /\ Watch

\* The answer is stored, over whatever is there by now; nothing but Close ever takes
\* it back.
StoreServer(c) ==
    /\ job[c].at = "resolved"
    /\ configServer' = job[c].server
    /\ job' = [job EXCEPT ![c].at = "request"]
    /\ UNCHANGED <<breaker, servers>> /\ Watch

\* What a request finds: readers ask for keys that exist, probers for one that does not.
Response(c) == IF ~up \/ job[c].server # home THEN "unreachable"
               ELSE IF c \in Probers THEN "notFound" ELSE "value"

\* The request is answered or given up; the operation returns some time after.
Answer(c) ==
    /\ job[c].at = "request"
    /\ job' = [job EXCEPT ![c] = [@ EXCEPT !.at = "answered", !.server = "none",
                                           !.response = Response(c)]]
    /\ UNCHANGED <<breaker, servers, configServer>> /\ Watch

\* Mutant: every outcome is recorded as a failure.
ReturnedAsFailure(c) ==
    /\ job[c].at = "answered"
    /\ Breaker!AfterAttempt(c, FALSE)
    /\ job' = [job EXCEPT ![c] = IF job[c].response = "value" THEN Finished("value")
                                 ELSE AfterFailure(c, job[c].response)]
    /\ UNCHANGED <<servers, configServer>> /\ Watch

\* Do records the outcome, whatever has become of the server since; a key that is not
\* found is a failure like any other.
Returned(c) ==
    /\ job[c].at = "answered"
    /\ Breaker!AfterAttempt(c, job[c].response = "value")
    /\ job' = [job EXCEPT ![c] = IF job[c].response = "value" THEN Finished("value")
                                 ELSE AfterFailure(c, job[c].response)]
    /\ UNCHANGED <<servers, configServer>> /\ Watch

\* Mutant: the loop counter stands still.
NextAttemptSame(c) == /\ job[c].at = "sleep"
                      /\ job' = [job EXCEPT ![c].at = "try"]
                      /\ UNCHANGED <<breaker, servers, configServer>> /\ Watch

\* The sleeps between attempts, of the two loops.
NextAttempt(c) == /\ job[c].at = "sleep"
                  /\ job' = [job EXCEPT ![c].at = "try", ![c].attempt = @ + 1]
                  /\ UNCHANGED <<breaker, servers, configServer>> /\ Watch

NextRound(c) == /\ job[c].at = "pause"
                /\ job' = [job EXCEPT ![c] = [NewJob EXCEPT !.at = "try",
                                                            !.round = job[c].round + 1]]
                /\ UNCHANGED <<breaker, servers, configServer>> /\ Watch

JobStep(c) == \/ Attempt(c) \/ FindServer(c) \/ AskMetaServer(c) \/ StoreServer(c)
              \/ Answer(c) \/ Returned(c) \/ NextAttempt(c) \/ NextRound(c)

Next == \/ ServerFails \/ ServerRecovers \/ ServerMoves \/ Tick
        \/ \E c \in Callers : Begin(c) \/ JobStep(c)

Spec == Init /\ [][Next]_vars

\* Time goes on, calls under way do, because sleeps end and requests have a
\* timeout, and readers keep reading.  Nobody has to check the health, and the
\* server need not recover.  Fairness is strong only because the bound MaxEvents
\* makes an outcome wait for room in the window, which another may take.
Fairness == /\ WF_vars(Tick)
            /\ \A c \in Callers : SF_vars(JobStep(c))
            /\ \A c \in Readers : WF_vars(Begin(c))

FairSpec == Spec /\ Fairness

--------------------------------------------------------------------------------
(* Properties. *)

\* A read that neither waits to retry, nor has failed, nor is about to.
Fine(j) == j.at # "sleep" /\ j.result # "failed" /\ j.response \notin Failing

\* Reads are back within the open period: once there has been no trouble for longer, no
\* read is refused, fails or has to be retried.  What was rejected and retried before
\* must not keep the breaker open, although it used up retries and filled the window.
ReadsBackInTime ==
    [][calm > OpenPeriod => \A r \in Readers : job'[r] # job[r] => Fine(job'[r])]_vars

\* A read or a health check comes to its end, whatever the server and the breaker
\* do, although each attempt may be retried and the two loops are nested.
CallsReturn == \A c \in Callers : []<>(job[c].at = "idle")

\* If from some time on the servers can be reached, the client does not hold the
\* address of a server that is not there, and nobody checks the health, then from
\* some time on every read returns the value: what is left of the failures in
\* window, breaker, retries and look-ups dies out.
ReadsSucceedAgain ==
    <>[](/\ up /\ configServer \in {"none", home}
         /\ \A p \in Probers : job[p].at = "idle")
       => <>[][\A r \in Readers : job[r].at # "idle" /\ job'[r].at = "idle"
                                    => job'[r].result = "value"]_vars

--------------------------------------------------------------------------------
(* Statements of the source's comments that the code does not keep. *)

\* "If the key doesn't exist, that's fine - we just need to verify we can
\* connect" (the comment in checkClientConnection): while the server can be
\* reached all the time, health checks do not make reads fail.
ProbeIsHarmless == ~Outages => \A r \in Readers : job[r].result # "failed"
================================================================================
