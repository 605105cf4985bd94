---------------------------- MODULE ConfigReadProofs ----------------------------
(***************************************************************************)
(* Proofs about ConfigRead, for any readers and probers, any number of     *)
(* retries, and any breaker.  What CircuitBreakerProofs shows of a breaker *)
(* is carried over: reads and health checks are shown to be callers as     *)
(* CircuitBreaker describes them, and its theorems are cited.              *)
(***************************************************************************)
EXTENDS ConfigRead, TLAPS

Proved == INSTANCE CircuitBreakerProofs

--------------------------------------------------------------------------------
(* The breaker. *)

\* A step of the system is one of the breaker, or leaves it alone.
LEMMA BreakerSteps == [Next]_vars => [Breaker!Next]_(Breaker!vars)
<1> SUFFICES ASSUME [Next]_vars PROVE Breaker!Next \/ UNCHANGED Breaker!vars
  OBVIOUS
<1>1. ASSUME NEW c \in Callers, Attempt(c) PROVE Breaker!Next
  BY <1>1 DEF Attempt, Breaker!Next
<1>2. ASSUME NEW c \in Callers, Returned(c) PROVE Breaker!Next
  <2>1. (job[c].response = "value") \in BOOLEAN
    OBVIOUS
  <2>2. Breaker!AfterAttempt(c, job[c].response = "value")
    BY <1>2 DEF Returned
  <2>3. QED BY <2>1, <2>2 DEF Breaker!Next
<1>3. CASE Tick
  BY <1>3 DEF Tick, Breaker!Next
<1>4. ASSUME NEW c \in Callers,
             \/ Begin(c) \/ FindServer(c) \/ AskMetaServer(c) \/ StoreServer(c)
             \/ Answer(c) \/ NextAttempt(c) \/ NextRound(c)
      PROVE  UNCHANGED Breaker!vars
  BY <1>4 DEF Begin, FindServer, AskMetaServer, StoreServer, Answer, NextAttempt, NextRound,
              breaker, Breaker!vars
<1>5. CASE ServerFails \/ ServerRecovers \/ ServerMoves \/ UNCHANGED vars
  BY <1>5 DEF ServerFails, ServerRecovers, ServerMoves, vars, breaker, Breaker!vars
<1>6. QED BY <1>1, <1>2, <1>3, <1>4, <1>5 DEF Next, JobStep

\* The instance that is proved about is the instance that is used.
LEMMA SameBreaker == Spec => Proved!Spec
<1>1. Init => Proved!Init
  BY DEF Init, Breaker!Init, Proved!Init, Breaker!Stale, Proved!Stale
<1>2. Breaker!Next <=> Proved!Next
  BY Zenon DEF Breaker!Next, Proved!Next, Breaker!BeforeAttempt, Proved!BeforeAttempt,
     Breaker!AfterAttempt, Proved!AfterAttempt, Breaker!RecordSuccess,
     Proved!RecordSuccess, Breaker!RecordFailure, Proved!RecordFailure,
     Breaker!PruneBefore, Proved!PruneBefore, Breaker!Reaches, Proved!Reaches,
     Breaker!RateReached, Proved!RateReached, Breaker!GetFailureRate,
     Proved!GetFailureRate, Breaker!ForceOpen, Proved!ForceOpen, Breaker!ForceClose,
     Proved!ForceClose, Breaker!Tick, Proved!Tick, Breaker!Older, Proved!Older,
     Breaker!Stale, Proved!Stale, Breaker!Min, Proved!Min, Breaker!vars, Proved!vars
<1>3. [Next]_vars => [Proved!Next]_(Proved!vars)
  BY <1>2, BreakerSteps DEF Breaker!vars, Proved!vars
<1>4. QED BY <1>1, <1>3, PTL DEF Spec, Proved!Spec

\* The breaker's types are a theorem of the breaker; its assumption follows from
\* that of the reads.
LEMMA BreakerTypes == Spec => []Breaker!TypeOK
<1>1. Proved!BreakerAssumption
  BY ReadAssumption DEF Proved!BreakerAssumption
<1>2. Proved!Spec => []Proved!TypeOK
  BY <1>1, Proved!TypeCorrect
<1>3. Proved!TypeOK => Breaker!TypeOK
  BY DEF Proved!TypeOK, Proved!States, Proved!Ages, Proved!Stale,
         Breaker!TypeOK, Breaker!States, Breaker!Ages, Breaker!Stale
<1>4. QED BY <1>2, <1>3, SameBreaker, PTL

--------------------------------------------------------------------------------
(* The goroutines. *)

\* A goroutine that sleeps has an attempt, or a round, left; one that stores an address
\* or sends a request has an address, one that is answered an answer, and only one that
\* is done a result.
GoodJob(j) == /\ j \in Job
              /\ j.at = "sleep" => j.attempt < MaxRetries
              /\ j.at = "pause" => j.round < MaxRetries
              /\ j.at \in {"resolved", "request"} => j.server \in Addresses
              /\ j.at = "answered" => j.response # "none"
              /\ j.at # "idle" => j.result = "none"

\* The inductive invariant.  The loop counters stay in range because nobody sleeps
\* after the last attempt.
Jobs == job \in [Callers -> Job] /\ \A c \in Callers : GoodJob(job[c])

Servers == /\ up \in BOOLEAN /\ home \in Addresses
           /\ configServer \in Addresses \union {"none"}

LEMMA NewJobs ==
    /\ GoodJob(NewJob)
    /\ GoodJob([NewJob EXCEPT !.at = "try"])
    /\ \A r \in {"none", "value", "failed", "healthy", "unhealthy"} : GoodJob(Finished(r))
BY ReadAssumption DEF GoodJob, NewJob, Finished, Job

\* Whatever fails, what the loops make of it leaves the counters in range.
LEMMA AfterFailureGood ==
    ASSUME NEW c \in Callers, GoodJob(job[c]), job[c].at # "idle",
           NEW cause \in {"none", "notFound", "unreachable"}
    PROVE  GoodJob(AfterFailure(c, cause))
<1> DEFINE j == job[c]
<1>1. j \in Job /\ j.attempt \in Nat /\ j.attempt <= MaxRetries
  BY ReadAssumption DEF GoodJob, Job
<1>2. CASE j.attempt < MaxRetries
  <2>1. AfterFailure(c, cause) = [j EXCEPT !.at = "sleep", !.response = "none", !.cause = cause]
    BY <1>2, <1>1, ReadAssumption DEF AfterFailure
  <2>2. QED BY <1>1, <1>2, <2>1 DEF GoodJob, Job
<1>3. CASE j.attempt = MaxRetries /\ c \in Readers
  <2>1. AfterFailure(c, cause) = Finished("failed")
    BY <1>3, ReadAssumption DEF AfterFailure
  <2>2. QED BY <2>1, NewJobs
<1>4. CASE j.attempt = MaxRetries /\ c \in Probers /\ cause = "notFound"
  <2>1. AfterFailure(c, cause) = Finished("healthy")
    BY <1>4, ReadAssumption DEF AfterFailure
  <2>2. QED BY <2>1, NewJobs
<1>5. CASE j.attempt = MaxRetries /\ c \in Probers /\ cause # "notFound"
  <2>1. AfterFailure(c, cause) = IF j.round < MaxRetries
                                 THEN [j EXCEPT !.at = "pause", !.response = "none"]
                                 ELSE Finished("unhealthy")
    BY <1>5, ReadAssumption DEF AfterFailure
  <2>2. CASE j.round < MaxRetries
    BY <1>1, <2>1, <2>2 DEF GoodJob, Job
  <2>3. CASE ~(j.round < MaxRetries)
    BY <2>1, <2>3, NewJobs
  <2>4. QED BY <2>2, <2>3
<1>6. QED BY <1>1, <1>2, <1>3, <1>4, <1>5, ReadAssumption DEF Callers

LEMMA JobChanges ==
    ASSUME Jobs, NEW c \in Callers, NEW j, GoodJob(j), job' = [job EXCEPT ![c] = j]
    PROVE  Jobs'
BY DEF Jobs, GoodJob

LEMMA JobsInvariant == Spec => [](Jobs /\ Servers)
<1>1. Init => Jobs /\ Servers
  BY NewJobs DEF Init, Jobs, Servers, Addresses, GoodJob
<1>2. Jobs /\ Servers /\ [Next]_vars => (Jobs /\ Servers)'
  <2> SUFFICES ASSUME Jobs, Servers, [Next]_vars PROVE Jobs' /\ Servers'
    OBVIOUS
  <2>1. ASSUME NEW c \in Callers, Begin(c) PROVE Jobs' /\ Servers'
    BY <2>1, NewJobs, JobChanges DEF Begin, servers, Servers
  <2>2. ASSUME NEW c \in Callers, Attempt(c) PROVE Jobs' /\ Servers'
    <3> DEFINE entered == [job[c] EXCEPT !.at = "run"]
    <3>1. GoodJob(entered)
      BY <2>2 DEF Attempt, Jobs, GoodJob, Job
    <3>2. /\ job[c].cause \in {"none", "notFound", "unreachable"}
          /\ GoodJob(job[c]) /\ job[c].at # "idle"
      BY <2>2 DEF Attempt, Jobs, GoodJob, Job
    <3>3. GoodJob(AfterFailure(c, job[c].cause))
      BY <3>2, AfterFailureGood
    <3>4. \/ job' = [job EXCEPT ![c] = entered]
          \/ job' = [job EXCEPT ![c] = AfterFailure(c, job[c].cause)]
      BY <2>2 DEF Attempt
    <3>5. Servers'
      BY <2>2 DEF Attempt, servers, Servers
    <3> HIDE DEF entered
    <3>6. QED BY <3>1, <3>3, <3>4, <3>5, JobChanges
  <2>3. ASSUME NEW c \in Callers, FindServer(c) \/ AskMetaServer(c) PROVE Jobs' /\ Servers'
    <3> DEFINE ask == [job[c] EXCEPT !.at = "ask"]
               known == [job[c] EXCEPT !.at = "request", !.server = configServer]
               found == [job[c] EXCEPT !.at = "resolved", !.server = home]
               lost == [job[c] EXCEPT !.at = "answered", !.response = "unreachable"]
    <3>0. job[c].at \in {"run", "ask"}
      BY <2>3 DEF FindServer, AskMetaServer
    <3>1. GoodJob(ask) /\ GoodJob(found) /\ GoodJob(lost)
      BY <3>0 DEF Jobs, GoodJob, Job, Servers
    <3>2. configServer # "none" => GoodJob(known)
      BY <3>0 DEF Jobs, GoodJob, Job, Servers
    <3>3. \/ job' = [job EXCEPT ![c] = ask] \/ job' = [job EXCEPT ![c] = found]
          \/ job' = [job EXCEPT ![c] = lost]
          \/ configServer # "none" /\ job' = [job EXCEPT ![c] = known]
      BY <2>3 DEF FindServer, AskMetaServer
    <3>4. Servers'
      BY <2>3 DEF FindServer, AskMetaServer, servers, Servers
    <3> HIDE DEF ask, known, found, lost
    <3>5. QED BY <3>1, <3>2, <3>3, <3>4, JobChanges
  <2>4. ASSUME NEW c \in Callers, StoreServer(c) \/ Answer(c) PROVE Jobs' /\ Servers'
    <3> DEFINE asked == [job[c] EXCEPT !.at = "request"]
               answered == [job[c] EXCEPT !.at = "answered", !.server = "none",
                                          !.response = Response(c)]
    <3>0. /\ job[c].at \in {"resolved", "request"}
          /\ Response(c) \in {"value", "notFound", "unreachable"}
      BY <2>4 DEF StoreServer, Answer, Response
    <3>1. GoodJob(asked) /\ job[c].server \in Addresses
      BY <3>0 DEF Jobs, GoodJob, Job
    <3>2. GoodJob(answered)
      BY <3>0 DEF Jobs, GoodJob, Job
    <3>3. job' = [job EXCEPT ![c] = asked] \/ job' = [job EXCEPT ![c] = answered]
      BY <2>4 DEF StoreServer, Answer
    <3>4. Servers'
      BY <2>4, <3>1 DEF StoreServer, Answer, servers, Servers
    <3> HIDE DEF asked, answered
    <3>5. QED BY <3>1, <3>2, <3>3, <3>4, JobChanges
  <2>5. ASSUME NEW c \in Callers, Returned(c) PROVE Jobs' /\ Servers'
    <3>1. job[c].response = "value" \/ job[c].response \in {"none", "notFound", "unreachable"}
      BY DEF Jobs, GoodJob, Job
    <3>2. GoodJob(Finished("value")) /\ GoodJob(job[c]) /\ job[c].at # "idle"
      BY <2>5, NewJobs DEF Jobs, Returned
    <3>3. job[c].response # "value" => GoodJob(AfterFailure(c, job[c].response))
      BY <3>1, <3>2, AfterFailureGood
    <3>4. IF job[c].response = "value"
          THEN job' = [job EXCEPT ![c] = Finished("value")]
          ELSE job' = [job EXCEPT ![c] = AfterFailure(c, job[c].response)]
      BY <2>5 DEF Returned
    <3>5. Servers'
      BY <2>5 DEF Returned, servers, Servers
    <3>6. QED BY <3>2, <3>3, <3>4, <3>5, JobChanges
  <2>6. ASSUME NEW c \in Callers, NextAttempt(c) PROVE Jobs' /\ Servers'
    <3> DEFINE again == [job[c] EXCEPT !.at = "try", !.attempt = @ + 1]
    <3>1. job[c] \in Job /\ job[c].attempt + 1 \in 0..MaxRetries
      BY <2>6, ReadAssumption DEF NextAttempt, Jobs, GoodJob, Job
    <3>2. GoodJob(again)
      BY <2>6, <3>1 DEF NextAttempt, Jobs, GoodJob, Job
    <3>3. job' = [job EXCEPT ![c] = again]
      BY <2>6 DEF NextAttempt
    <3>4. Servers'
      BY <2>6 DEF NextAttempt, servers, Servers
    <3> HIDE DEF again
    <3>5. QED BY <3>2, <3>3, <3>4, JobChanges
  <2>7. ASSUME NEW c \in Callers, NextRound(c) PROVE Jobs' /\ Servers'
    <3> DEFINE again == [NewJob EXCEPT !.at = "try", !.round = job[c].round + 1]
    <3>1. job[c].round + 1 \in 0..MaxRetries
      BY <2>7, ReadAssumption DEF NextRound, Jobs, GoodJob, Job
    <3>2. GoodJob(again)
      <4>1. NewJob \in Job
        BY NewJobs DEF GoodJob
      <4>2. NewJob.result = "none"
        BY DEF NewJob
      <4>3. QED BY <3>1, <4>1, <4>2 DEF GoodJob, Job
    <3>3. job' = [job EXCEPT ![c] = again]
      BY <2>7 DEF NextRound
    <3>4. Servers'
      BY <2>7 DEF NextRound, servers, Servers
    <3> HIDE DEF again
    <3>5. QED BY <3>2, <3>3, <3>4, JobChanges
  <2>8. CASE ServerFails \/ ServerRecovers \/ ServerMoves \/ Tick \/ UNCHANGED vars
    <3>1. UNCHANGED <<job, configServer>> /\ up' \in BOOLEAN /\ home' \in Addresses
      BY <2>8 DEF ServerFails, ServerRecovers, ServerMoves, Tick, vars, servers, Servers, Addresses
    <3>2. QED BY <3>1 DEF Jobs, Servers
  <2>9. QED BY <2>1, <2>2, <2>3, <2>4, <2>5, <2>6, <2>7, <2>8 DEF Next, JobStep
<1>3. QED BY <1>1, <1>2, PTL DEF Spec

--------------------------------------------------------------------------------
(* Recovery. *)

\* As long as there is no trouble the breaker hears of no failure, so that its last one
\* is at least as old as the calm.
Quiet == /\ calm \in Nat /\ calm <= OpenPeriod + 1 /\ calm <= lastFailure
         /\ calm > 0 => ~Trouble

\* A job that has an answer, in times without trouble, has the value.
LEMMA AnswerIsValue ==
    ASSUME Jobs, ~Trouble, NEW c \in Callers, job[c].at = "answered"
    PROVE  job[c].response = "value"
BY DEF Jobs, GoodJob, Job, Trouble, Failing

\* What every step but a tick does to the calm.
LEMMA QuietStep ==
    ASSUME Quiet, Watch, lastFailure \in Nat, lastFailure' \in Nat,
           calm > 0 => lastFailure' = lastFailure
    PROVE  Quiet'
<1>1. CASE Trouble'
  BY <1>1, ReadAssumption DEF Quiet, Watch
<1>2. CASE ~Trouble'
  BY <1>2, ReadAssumption DEF Quiet, Watch
<1>3. QED BY <1>1, <1>2

LEMMA LastFailureType == Breaker!TypeOK => lastFailure \in Nat /\ lastFailure <= Window + 1
<1>1. Window \in Nat
  BY ReadAssumption
<1>2. QED BY <1>1 DEF Breaker!TypeOK, Breaker!Ages, Breaker!Stale

LEMMA QuietInvariant == Spec => []Quiet
<1>1. Init => Quiet
  BY ReadAssumption DEF Init, Quiet, Breaker!Init, Breaker!Stale
<1>2. Jobs /\ Breaker!TypeOK /\ Quiet /\ [Next]_vars => Quiet'
  <2> SUFFICES ASSUME Jobs, Breaker!TypeOK, Quiet, [Next]_vars PROVE Quiet'
    OBVIOUS
  <2>0. lastFailure \in Nat /\ lastFailure <= Window + 1
    BY LastFailureType
  <2>1. CASE ServerFails \/ ServerRecovers \/ ServerMoves
    BY <2>0, <2>1, QuietStep DEF ServerFails, ServerRecovers, ServerMoves, breaker
  <2>2. CASE Tick
    <3>1. UNCHANGED <<up, home, configServer, job>>
      BY <2>2 DEF Tick, servers
    <3>2. Trouble' <=> Trouble
      BY <3>1 DEF Trouble
    <3>3. lastFailure' = IF lastFailure = Window + 1 THEN Window + 1 ELSE lastFailure + 1
      BY <2>2 DEF Tick, Breaker!Tick, Breaker!Older, Breaker!Stale
    <3>4. calm' = IF Trouble \/ calm > OpenPeriod THEN calm ELSE calm + 1
      BY <2>2 DEF Tick
    <3>5. CASE Trouble
      <4>1. calm = 0 /\ calm' = 0
        BY <3>4, <3>5 DEF Quiet
      <4>2. QED BY <2>0, <3>3, <4>1, ReadAssumption DEF Quiet
    <3>6. CASE ~Trouble
      <4>1. /\ calm' \in Nat /\ calm' <= OpenPeriod + 1 /\ calm' <= calm + 1
            /\ calm' = calm \/ calm <= OpenPeriod
        BY <3>4, <3>6, ReadAssumption DEF Quiet
      <4>2. calm' <= lastFailure'
        BY <2>0, <3>3, <4>1, ReadAssumption DEF Quiet
      <4>3. QED BY <3>2, <3>6, <4>1, <4>2 DEF Quiet
    <3>7. QED BY <3>5, <3>6
  <2>3. ASSUME NEW c \in Callers,
               \/ Begin(c) \/ FindServer(c) \/ AskMetaServer(c) \/ StoreServer(c)
               \/ Answer(c) \/ NextAttempt(c) \/ NextRound(c)
        PROVE  Quiet'
    BY <2>0, <2>3, QuietStep DEF Begin, FindServer, AskMetaServer, StoreServer, Answer,
                                 NextAttempt, NextRound, breaker
  <2>4. ASSUME NEW c \in Callers, Attempt(c) PROVE Quiet'
    BY <2>0, <2>4, QuietStep DEF Attempt, Breaker!BeforeAttempt
  <2>5. ASSUME NEW c \in Callers, Returned(c) PROVE Quiet'
    <3>1. Watch /\ job[c].at = "answered"
      BY <2>5 DEF Returned
    <3>2. lastFailure' = IF job[c].response = "value" THEN lastFailure ELSE 0
      BY <2>5 DEF Returned, Breaker!AfterAttempt, Breaker!RecordSuccess,
                  Breaker!RecordFailure
    <3>3. calm > 0 => job[c].response = "value"
      BY <3>1, AnswerIsValue DEF Quiet
    <3>4. QED BY <2>0, <3>1, <3>2, <3>3, QuietStep
  <2>6. CASE UNCHANGED vars
    BY <2>6 DEF vars, breaker, servers, Quiet, Trouble
  <2>7. QED BY <2>1, <2>2, <2>3, <2>4, <2>5, <2>6 DEF Next, JobStep
<1>3. QED BY <1>1, <1>2, JobsInvariant, BreakerTypes, PTL DEF Spec

\* Whatever outages, moves and health checks there were, and for any number of retries:
\* once nothing has been wrong for longer than the open period, no read fails, not even
\* for one attempt.
THEOREM ReadsAreBack == Spec => ReadsBackInTime
<1> DEFINE Back == calm > OpenPeriod =>
                      \A r \in Readers : job'[r] # job[r] => Fine(job'[r])
<1>1. Jobs /\ Servers /\ Breaker!TypeOK /\ Quiet /\ [Next]_vars => [Back]_vars
  <2> SUFFICES ASSUME Jobs, Servers, Breaker!TypeOK, Quiet, Next, calm > OpenPeriod,
                      NEW r \in Readers, job'[r] # job[r]
               PROVE  Fine(job'[r])
    OBVIOUS
  <2>1. /\ r \in Callers /\ r \notin Probers /\ GoodJob(job[r])
        /\ job \in [Callers -> Job] /\ call \in [Callers -> {"idle", "rejected", "running"}]
    BY ReadAssumption DEF Callers, Jobs, Breaker!TypeOK
  <2>2. ~Trouble /\ calm > 0 /\ lastFailure > OpenPeriod /\ ~(lastFailure <= OpenPeriod)
    <3>1. lastFailure \in Nat
      BY LastFailureType
    <3>2. QED BY <3>1, ReadAssumption DEF Quiet
  <2>3. up /\ job[r].server \in {"none", home} /\ job[r].response \notin Failing
    BY <2>1, <2>2 DEF Trouble
  <2>4. PICK c \in Callers : Begin(c) \/ JobStep(c)
    BY DEF Next, ServerFails, ServerRecovers, ServerMoves, Tick
  <2>5. ASSUME NEW j, job' = [job EXCEPT ![c] = j] PROVE c = r /\ job'[r] = j
    BY <2>1, <2>5
  <2>6. CASE Attempt(c)
    <3>1. call' = [call EXCEPT ![c] = "running"]
      BY <2>2, <2>6 DEF Attempt, Breaker!BeforeAttempt
    <3>2. call'[c] = "running"
      BY <2>1, <3>1
    <3>3. job' = [job EXCEPT ![c] = [job[c] EXCEPT !.at = "run"]]
      BY <2>6, <3>2 DEF Attempt
    <3>4. c = r /\ job'[r] = [job[c] EXCEPT !.at = "run"]
      BY <2>5, <3>3
    <3>5. job[r].at = "try"
      BY <2>6, <3>4 DEF Attempt
    <3>6. QED BY <2>1, <2>3, <3>4, <3>5 DEF Fine, GoodJob, Job
  <2>7. CASE FindServer(c)
    <3> DEFINE ask == [job[c] EXCEPT !.at = "ask"]
               known == [job[c] EXCEPT !.at = "request", !.server = configServer]
    <3>1. /\ job[c].at = "run"
          /\ job' = [job EXCEPT ![c] = ask] \/ job' = [job EXCEPT ![c] = known]
      BY <2>7 DEF FindServer
    <3>2. c = r /\ (job'[r] = ask \/ job'[r] = known)
      <4> HIDE DEF ask, known
      <4>1. QED BY <2>5, <3>1
    <3>3. QED BY <2>1, <2>3, <3>1, <3>2 DEF Fine, GoodJob, Job
  <2>8. CASE AskMetaServer(c)
    <3>1. /\ job[c].at = "ask"
          /\ job' = [job EXCEPT ![c] = [job[c] EXCEPT !.at = "resolved", !.server = home]]
      BY <2>3, <2>8 DEF AskMetaServer
    <3>2. c = r /\ job'[r] = [job[c] EXCEPT !.at = "resolved", !.server = home]
      BY <2>5, <3>1
    <3>3. QED BY <2>1, <2>3, <3>1, <3>2 DEF Fine, GoodJob, Job
  <2>9. CASE StoreServer(c)
    <3>1. job[c].at = "resolved" /\ job' = [job EXCEPT ![c] = [job[c] EXCEPT !.at = "request"]]
      BY <2>9 DEF StoreServer
    <3>2. c = r /\ job'[r] = [job[c] EXCEPT !.at = "request"]
      BY <2>5, <3>1
    <3>3. QED BY <2>1, <2>3, <3>1, <3>2 DEF Fine, GoodJob, Job
  <2>10. CASE Answer(c)
    <3> DEFINE answered == [job[c] EXCEPT !.at = "answered", !.server = "none",
                                          !.response = Response(c)]
    <3>1. job[c].at = "request" /\ job' = [job EXCEPT ![c] = answered]
      BY <2>10 DEF Answer
    <3>2. c = r /\ job'[r] = answered
      <4> HIDE DEF answered
      <4>1. QED BY <2>5, <3>1
    <3>3. job[r].server = home
      BY <2>1, <2>3, <3>1, <3>2 DEF GoodJob, Addresses
    <3>4. Response(c) = "value"
      BY <2>1, <2>3, <3>2, <3>3 DEF Response
    <3>5. QED BY <2>1, <3>1, <3>2, <3>4 DEF Fine, Failing, GoodJob, Job
  <2>11. CASE Returned(c)
    <3>1. job[c].at = "answered" /\ job[c].response = "value"
      BY <2>2, <2>11, AnswerIsValue DEF Returned
    <3>2. job' = [job EXCEPT ![c] = Finished("value")]
      BY <2>11, <3>1 DEF Returned
    <3>3. job'[r] = Finished("value")
      BY <2>5, <3>2
    <3>4. QED BY <3>3 DEF Fine, Failing, Finished, NewJob
  <2>12. CASE Begin(c)
    <3>1. job' = [job EXCEPT ![c] = [NewJob EXCEPT !.at = "try"]]
      BY <2>12 DEF Begin
    <3>2. job'[r] = [NewJob EXCEPT !.at = "try"]
      BY <2>5, <3>1
    <3>3. QED BY <3>2 DEF Fine, Failing, NewJob
  <2>13. CASE NextAttempt(c)
    <3> DEFINE again == [job[c] EXCEPT !.at = "try", !.attempt = @ + 1]
    <3>1. job[c].at = "sleep" /\ job' = [job EXCEPT ![c] = again]
      BY <2>13 DEF NextAttempt
    <3>2. c = r /\ job'[r] = again
      <4> HIDE DEF again
      <4>1. QED BY <2>5, <3>1
    <3>3. QED BY <2>1, <2>3, <3>1, <3>2 DEF Fine, GoodJob, Job
  <2>14. CASE NextRound(c)
    <3>1. job' = [job EXCEPT ![c] = [NewJob EXCEPT !.at = "try", !.round = job[c].round + 1]]
      BY <2>14 DEF NextRound
    <3>2. job'[r] = [NewJob EXCEPT !.at = "try", !.round = job[c].round + 1]
      BY <2>5, <3>1
    <3>3. QED BY <3>2 DEF Fine, Failing, NewJob
  <2>15. QED BY <2>4, <2>6, <2>7, <2>8, <2>9, <2>10, <2>11, <2>12, <2>13, <2>14 DEF JobStep
<1>2. QED BY <1>1, JobsInvariant, BreakerTypes, QuietInvariant, PTL DEF Spec, ReadsBackInTime

\* The variables keep their types: above all, no loop counter exceeds the number of
\* retries that is configured, in either of the nested loops.
THEOREM ReadTypeCorrect == Spec => []TypeOK
<1>1. Jobs /\ Servers /\ Breaker!TypeOK /\ Quiet => TypeOK
  <2>1. Quiet => calm \in 0..OpenPeriod + 1
    BY ReadAssumption DEF Quiet
  <2>2. QED BY <2>1 DEF TypeOK, Jobs, Servers
<1>2. QED BY <1>1, JobsInvariant, BreakerTypes, QuietInvariant, PTL

\* What was shown of the breaker on its own holds while it is read through: an open
\* breaker lets no attempt through before its open period is over, and a closed one
\* opens exactly when the rate of the window reaches the threshold.
THEOREM ReadsKeepContract == Spec => Proved!ContractSpec /\ Proved!OpensExactlyAtRate
<1>1. Proved!BreakerAssumption
  BY ReadAssumption DEF Proved!BreakerAssumption
<1>2. Proved!Spec => Proved!ContractSpec
  BY <1>1, Proved!ImplementsContract
<1>3. Proved!Spec => Proved!OpensExactlyAtRate
  BY <1>1, Proved!OpensExactly
<1>4. QED BY <1>2, <1>3, SameBreaker, PTL

--------------------------------------------------------------------------------
(* Both sides of Do. *)

Inside == {"run", "ask", "resolved", "request", "answered"}

\* A goroutine is inside the operation exactly when the breaker waits for its outcome.
InStep == \A c \in Callers : job[c].at \in Inside <=> call[c] = "running"

LEMMA FailureLeaves ==
    ASSUME NEW c \in Callers, GoodJob(job[c]), NEW cause
    PROVE  AfterFailure(c, cause).at \notin Inside
<1> DEFINE j == job[c]
<1>1. j \in Job /\ j.attempt \in Nat /\ j.attempt <= MaxRetries
  BY ReadAssumption DEF GoodJob, Job
<1>2. CASE j.attempt < MaxRetries
  BY <1>1, <1>2, ReadAssumption DEF AfterFailure, Inside, Job
<1>3. CASE j.attempt = MaxRetries /\ c \in Readers
  BY <1>3, ReadAssumption DEF AfterFailure, Finished, NewJob, Inside
<1>4. CASE j.attempt = MaxRetries /\ c \in Probers /\ cause = "notFound"
  BY <1>4, ReadAssumption DEF AfterFailure, Finished, NewJob, Inside
<1>5. CASE j.attempt = MaxRetries /\ c \in Probers /\ cause # "notFound"
  <2>1. AfterFailure(c, cause) = IF j.round < MaxRetries
                                 THEN [j EXCEPT !.at = "pause", !.response = "none"]
                                 ELSE Finished("unhealthy")
    BY <1>5, ReadAssumption DEF AfterFailure
  <2>2. AfterFailure(c, cause).at \in {"pause", "idle"}
    BY <1>1, <2>1 DEF Finished, NewJob, Job
  <2>3. QED BY <2>2 DEF Inside
<1>6. QED BY <1>1, <1>2, <1>3, <1>4, <1>5, ReadAssumption DEF Callers

\* Every attempt that the breaker lets through is reported to it exactly once, whether
\* it ends in the look-up or in the request, and no other attempt is: the breaker never
\* waits for an outcome that does not come, and never gets one it does not wait for.
THEOREM OutcomesMatch == Spec => []InStep
<1>1. Init => InStep
  BY DEF Init, Breaker!Init, InStep, NewJob, Inside
<1>2. Jobs /\ Breaker!TypeOK /\ InStep /\ [Next]_vars => InStep'
  <2> SUFFICES ASSUME Jobs, Breaker!TypeOK, InStep, [Next]_vars PROVE InStep'
    OBVIOUS
  <2>1. /\ job \in [Callers -> Job] /\ \A c \in Callers : GoodJob(job[c])
        /\ call \in [Callers -> {"idle", "rejected", "running"}]
    BY DEF Jobs, Breaker!TypeOK
  <2>2. ASSUME NEW c \in Callers, NEW j, NEW v,
               job' = [job EXCEPT ![c] = j], call' = [call EXCEPT ![c] = v],
               j.at \in Inside <=> v = "running"
        PROVE  InStep'
    BY <2>1, <2>2 DEF InStep
  <2>3. ASSUME NEW c \in Callers, NEW j, job' = [job EXCEPT ![c] = j], call' = call,
               j.at \in Inside <=> job[c].at \in Inside
        PROVE  InStep'
    BY <2>1, <2>3 DEF InStep
  <2>4. ASSUME NEW c \in Callers, Attempt(c) PROVE InStep'
    <3> DEFINE entered == [job[c] EXCEPT !.at = "run"]
               failed == AfterFailure(c, job[c].cause)
    <3>1. entered.at \in Inside
      BY <2>1 DEF Inside, Job
    <3>2. failed.at \notin Inside
      BY <2>1, FailureLeaves
    <3>3. \/ call' = [call EXCEPT ![c] = "running"]
          \/ call' = [call EXCEPT ![c] = "rejected"]
      BY <2>4 DEF Attempt, Breaker!BeforeAttempt
    <3>4. job' = [job EXCEPT ![c] = IF call'[c] = "running" THEN entered ELSE failed]
      BY <2>4 DEF Attempt
    <3> HIDE DEF entered, failed
    <3>5. CASE call' = [call EXCEPT ![c] = "running"]
      <4>1. job' = [job EXCEPT ![c] = entered]
        BY <2>1, <3>4, <3>5
      <4>2. QED BY <2>2, <3>1, <3>5, <4>1
    <3>6. CASE call' = [call EXCEPT ![c] = "rejected"]
      <4>1. job' = [job EXCEPT ![c] = failed]
        BY <2>1, <3>4, <3>6
      <4>2. QED BY <2>2, <3>2, <3>6, <4>1
    <3>7. QED BY <3>3, <3>5, <3>6
  <2>5. ASSUME NEW c \in Callers, Returned(c) PROVE InStep'
    <3>1. call' = [call EXCEPT ![c] = "idle"]
      BY <2>5 DEF Returned, Breaker!AfterAttempt
    <3>2. \/ job' = [job EXCEPT ![c] = Finished("value")]
          \/ job' = [job EXCEPT ![c] = AfterFailure(c, job[c].response)]
      BY <2>5 DEF Returned
    <3>3. Finished("value").at \notin Inside
      BY DEF Finished, NewJob, Inside
    <3>4. AfterFailure(c, job[c].response).at \notin Inside
      BY <2>1, FailureLeaves
    <3>5. QED BY <2>2, <3>1, <3>2, <3>3, <3>4
  <2>6. ASSUME NEW c \in Callers,
               FindServer(c) \/ AskMetaServer(c) \/ StoreServer(c) \/ Answer(c)
        PROVE  InStep'
    <3> DEFINE ask == [job[c] EXCEPT !.at = "ask"]
               known == [job[c] EXCEPT !.at = "request", !.server = configServer]
               found == [job[c] EXCEPT !.at = "resolved", !.server = home]
               lost == [job[c] EXCEPT !.at = "answered", !.response = "unreachable"]
               asked == [job[c] EXCEPT !.at = "request"]
               answered == [job[c] EXCEPT !.at = "answered", !.server = "none",
                                          !.response = Response(c)]
    <3>1. UNCHANGED call /\ job[c].at \in Inside
      BY <2>6 DEF FindServer, AskMetaServer, StoreServer, Answer, breaker, Inside
    <3>2. /\ ask.at \in Inside /\ known.at \in Inside /\ found.at \in Inside
          /\ lost.at \in Inside /\ asked.at \in Inside /\ answered.at \in Inside
      BY <2>1 DEF Inside, Job
    <3>3. \/ job' = [job EXCEPT ![c] = ask] \/ job' = [job EXCEPT ![c] = known]
          \/ job' = [job EXCEPT ![c] = found] \/ job' = [job EXCEPT ![c] = lost]
          \/ job' = [job EXCEPT ![c] = asked] \/ job' = [job EXCEPT ![c] = answered]
      BY <2>6 DEF FindServer, AskMetaServer, StoreServer, Answer
    <3> HIDE DEF ask, known, found, lost, asked, answered
    <3>4. PICK j : job' = [job EXCEPT ![c] = j] /\ j.at \in Inside
      BY <3>2, <3>3
    <3>5. QED BY <2>3, <3>1, <3>4
  <2>7. ASSUME NEW c \in Callers, Begin(c) \/ NextAttempt(c) \/ NextRound(c) PROVE InStep'
    <3>1. UNCHANGED call /\ job[c].at \notin Inside
      BY <2>7 DEF Begin, NextAttempt, NextRound, breaker, Inside
    <3>2. PICK j : job' = [job EXCEPT ![c] = j] /\ j.at = "try"
      <4> DEFINE new == [NewJob EXCEPT !.at = "try"]
                 again == [job[c] EXCEPT !.at = "try", !.attempt = @ + 1]
                 round == [NewJob EXCEPT !.at = "try", !.round = job[c].round + 1]
      <4>1. NewJob \in Job /\ job[c] \in Job
        BY <2>1, NewJobs DEF GoodJob
      <4>2. new.at = "try" /\ again.at = "try" /\ round.at = "try"
        BY <4>1 DEF Job
      <4>3. CASE Begin(c)
        BY <4>2, <4>3 DEF Begin
      <4>4. CASE NextAttempt(c)
        <5>1. job' = [job EXCEPT ![c] = again]
          BY <4>4 DEF NextAttempt
        <5>2. QED BY <4>2, <5>1
      <4>5. CASE NextRound(c)
        <5>1. job' = [job EXCEPT ![c] = round]
          BY <4>5 DEF NextRound
        <5>2. QED BY <4>2, <5>1
      <4>6. QED BY <2>7, <4>3, <4>4, <4>5
    <3>3. j.at \notin Inside
      BY <3>2 DEF Inside
    <3>4. QED BY <2>3, <3>1, <3>2, <3>3
  <2>8. CASE ServerFails \/ ServerRecovers \/ ServerMoves \/ Tick \/ UNCHANGED vars
    BY <2>8 DEF ServerFails, ServerRecovers, ServerMoves, Tick, Breaker!Tick, vars, breaker,
                InStep
  <2>9. QED BY <2>4, <2>5, <2>6, <2>7, <2>8 DEF Next, JobStep
<1>3. QED BY <1>1, <1>2, JobsInvariant, BreakerTypes, PTL DEF Spec
================================================================================
