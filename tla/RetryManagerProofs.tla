--------------------------- MODULE RetryManagerProofs ---------------------------
(***************************************************************************)
(* Proofs about RetryManager, for any number of retries and any interval.  *)
(* What drives the manager is PluginConfig: the theorems about behaviours  *)
(* are in PluginConfigProofs, from the lemmas about steps here.            *)
(***************************************************************************)
EXTENDS RetryManager, FiniteSetTheorems, TLAPS

--------------------------------------------------------------------------------
(* Powers of two, counted as the subsets of an interval. *)

LEMMA PowerCounts ==
    ASSUME NEW n \in Nat
    PROVE  2^n \in Nat /\ 2^n = Cardinality(SUBSET (1..n)) /\ IsFiniteSet(SUBSET (1..n))
<1>1. IsFiniteSet(1..n) /\ Cardinality(1..n) = n
  BY FS_Interval
<1>2. IsFiniteSet(SUBSET (1..n)) /\ Cardinality(SUBSET (1..n)) = 2^Cardinality(1..n)
  BY <1>1, FS_SUBSET
<1>3. QED BY <1>1, <1>2, FS_CardinalityType

LEMMA PowerGrows ==
    ASSUME NEW n \in Nat
    PROVE  2^n \in Nat /\ 2^(n + 1) \in Nat /\ 1 <= 2^n /\ 2^n <= 2^(n + 1)
<1>1. n + 1 \in Nat
  OBVIOUS
<1>2. /\ 2^n \in Nat /\ IsFiniteSet(SUBSET (1..n))
      /\ 2^n = Cardinality(SUBSET (1..n))
  BY PowerCounts
<1>3. /\ 2^(n + 1) \in Nat /\ IsFiniteSet(SUBSET (1..(n + 1)))
      /\ 2^(n + 1) = Cardinality(SUBSET (1..(n + 1)))
  BY <1>1, PowerCounts
<1>4. SUBSET (1..n) \in SUBSET (SUBSET (1..(n + 1)))
  OBVIOUS
<1>5. Cardinality(SUBSET (1..n)) <= Cardinality(SUBSET (1..(n + 1)))
  BY <1>3, <1>4, FS_Subset
<1>6. 2^n # 0
  <2>1. SUBSET (1..n) # {}
    OBVIOUS
  <2>2. QED BY <1>2, <2>1, FS_EmptySet
<1>7. 1 <= 2^n
  BY <1>2, <1>6
<1>8. QED BY <1>2, <1>3, <1>5, <1>7

--------------------------------------------------------------------------------
(* The length of a backoff. *)

LEMMA LeastOrder ==
    ASSUME NEW a \in Nat, NEW b \in Nat, NEW m \in Nat, a <= b
    PROVE  /\ Least(a, m) \in Nat /\ Least(b, m) \in Nat
           /\ Least(b, m) <= m /\ Least(a, m) <= Least(b, m)
BY DEF Least

LEMMA ProductOrder ==
    ASSUME NEW i \in Nat, NEW a \in Nat, NEW b \in Nat, a <= b
    PROVE  i * a \in Nat /\ i * b \in Nat /\ i * a <= i * b
OBVIOUS

\* A backoff is at least the interval, or thirty seconds, and at most thirty seconds;
\* the next one is as long at least.
LEMMA BackoffLengths ==
    ASSUME NEW n \in Nat, manager \in Manager
    PROVE  /\ calculateBackoff(n) \in Nat /\ calculateBackoff(n + 1) \in Nat
           /\ calculateBackoff(n) <= MaxBackoff
           /\ Least(manager.retryInterval, MaxBackoff) <= calculateBackoff(n)
           /\ calculateBackoff(n) <= calculateBackoff(n + 1)
<1> DEFINE i == manager.retryInterval
           a == i * 2^n
           b == i * 2^(n + 1)
<1>1. i \in Nat
  BY DEF Manager
<1>2. 2^n \in Nat /\ 2^(n + 1) \in Nat /\ 1 <= 2^n /\ 2^n <= 2^(n + 1)
  BY PowerGrows
<1>3. MaxBackoff \in Nat
  BY DEF MaxBackoff
<1>4. a \in Nat /\ b \in Nat /\ a <= b
  BY <1>1, <1>2, ProductOrder
<1>5. i <= a
  <2>1. i * 1 <= i * 2^n
    BY <1>1, <1>2, ProductOrder
  <2>2. QED BY <1>1, <2>1
<1> HIDE DEF a, b, i
<1>6. Least(i, MaxBackoff) <= Least(a, MaxBackoff)
  BY <1>1, <1>3, <1>4, <1>5, LeastOrder
<1>7. /\ Least(a, MaxBackoff) \in Nat /\ Least(b, MaxBackoff) \in Nat
      /\ Least(a, MaxBackoff) <= Least(b, MaxBackoff)
  BY <1>3, <1>4, LeastOrder
<1>8. Least(a, MaxBackoff) <= MaxBackoff
  BY <1>3, <1>4, LeastOrder
<1>9. QED BY <1>6, <1>7, <1>8 DEF calculateBackoff, a, b, i

--------------------------------------------------------------------------------
(* The steps of a call. *)

\* What has happened since the context was cancelled: nothing, unless the call was
\* between its look at the context and the operation, and then it is there no more.
Heard ==
    /\ late \in Nat
    /\ cancelledAt = "none" => late = 0
    /\ cancelledAt \in {"check", "run", "sleep"} => late = 0 /\ at # "begin"
    /\ cancelledAt = "begin" => late <= 1 /\ (at = "begin" => late = 0)

\* The inductive invariant: the last sleep is the one of the attempt before, or the
\* one under way, and cancellations are heard.
RetryInv ==
    /\ manager \in Manager
    /\ at \in {"idle", "check", "begin", "run", "sleep"}
    /\ attempt \in Nat /\ attempt <= manager.maxRetries
    /\ backoff \in Nat /\ backoff <= MaxBackoff
    /\ cancelledAt \in {"none", "check", "begin", "run", "sleep"}
    /\ outcome \in {"none", "ok", "failed", "cancelled"}
    /\ at \in {"check", "begin", "run"} =>
          \/ attempt = 0 /\ backoff = 0
          \/ attempt > 0 /\ backoff = calculateBackoff(attempt - 1)
    /\ at = "sleep" => backoff = calculateBackoff(attempt) /\ attempt < manager.maxRetries
    /\ Heard

\* Any step of a call keeps what is said of cancellations: the look at the head of
\* the loop stands between the timer that won the select and the operation.
LEMMA StepsHear == ASSUME RetryInv, RetryNext PROVE Heard'
<1> USE DEF Heard
<1>1. Heard /\ at \in {"idle", "check", "begin", "run", "sleep"}
      /\ cancelledAt \in {"none", "check", "begin", "run", "sleep"}
  BY DEF RetryInv
<1>2. CASE CallRetry
  BY <1>1, <1>2 DEF CallRetry
<1>3. CASE Cancel
  BY <1>1, <1>3 DEF Cancel, cancelled
<1>4. CASE CheckContext
  BY <1>1, <1>4 DEF CheckContext, Return, cancelled
<1>5. CASE BeginOperation
  <2>1. CASE cancelled
    BY <1>1, <1>5, <2>1 DEF BeginOperation, cancelled
  <2>2. CASE ~cancelled
    BY <1>1, <1>5, <2>2 DEF BeginOperation, cancelled
  <2>3. QED BY <2>1, <2>2
<1>6. CASE OperationSucceeds \/ OperationFails \/ SleepOver \/ SleepCancelled
  BY <1>1, <1>6 DEF OperationSucceeds, OperationFails, SleepOver, SleepCancelled, Return
<1>7. QED BY <1>2, <1>3, <1>4, <1>5, <1>6 DEF RetryNext, RetryStep

LEMMA RetryKeepsInv ==
    ASSUME RetryInv, RetryNext
    PROVE  RetryInv'
<1>h. Heard'
  BY StepsHear
<1> USE DEF RetryInv
<1>0. MaxBackoff \in Nat
  BY DEF MaxBackoff
<1>a. \A n : UNCHANGED manager => calculateBackoff(n)' = calculateBackoff(n)
  BY DEF calculateBackoff
<1>1. CASE CallRetry
  <2>1. manager.maxRetries \in Nat
    BY DEF Manager
  <2>2. /\ manager' = manager /\ at' = "check" /\ attempt' = 0 /\ backoff' = 0
        /\ cancelledAt' = "none" /\ outcome' = "none"
    BY <1>1 DEF CallRetry
  <2>3. 0 <= manager.maxRetries /\ 0 <= MaxBackoff
    BY <1>0, <2>1
  <2>4. QED BY <1>h, <2>2, <2>3
<1>2. CASE Cancel
  BY <1>h, <1>2, <1>a DEF Cancel
<1>3. CASE CheckContext \/ BeginOperation
  BY <1>h, <1>3, <1>a DEF CheckContext, BeginOperation, Return
<1>4. CASE OperationSucceeds
  BY <1>h, <1>4 DEF OperationSucceeds, Return
<1>5. CASE OperationFails
  <2>1. CASE attempt = manager.maxRetries
    BY <1>h, <1>5, <2>1 DEF OperationFails, Return, Manager
  <2>2. CASE attempt < manager.maxRetries
    <3>1. calculateBackoff(attempt) \in Nat /\ calculateBackoff(attempt) <= MaxBackoff
      BY BackoffLengths
    <3>2. QED BY <1>h, <1>5, <2>2, <3>1, <1>a DEF OperationFails, Return, Manager
  <2>3. QED BY <1>5, <2>1, <2>2 DEF OperationFails
<1>6. CASE SleepOver
  BY <1>h, <1>6, <1>a DEF SleepOver, Manager
<1>7. CASE SleepCancelled
  BY <1>h, <1>7 DEF SleepCancelled, Return
<1>8. QED BY <1>1, <1>2, <1>3, <1>4, <1>5, <1>6, <1>7 DEF RetryNext, RetryStep

\* A sleep that begins is in range, and no shorter than the one before.
LEMMA SleepsGrow ==
    ASSUME RetryInv, RetryNext, at = "run", at' = "sleep"
    PROVE  /\ backoff' <= MaxBackoff
           /\ backoff' >= backoff
           /\ backoff' >= Least(manager.retryInterval, MaxBackoff)
<1>1. backoff' = calculateBackoff(attempt)
  BY DEF RetryNext, RetryStep, CallRetry, Cancel, CheckContext, BeginOperation,
         OperationSucceeds, OperationFails, SleepOver, SleepCancelled, Return
<1>2. /\ calculateBackoff(attempt) \in Nat
      /\ calculateBackoff(attempt) <= MaxBackoff
      /\ Least(manager.retryInterval, MaxBackoff) <= calculateBackoff(attempt)
  BY BackoffLengths DEF RetryInv
<1>3. backoff <= calculateBackoff(attempt)
  <2>1. CASE attempt = 0 /\ backoff = 0
    BY <1>2, <2>1
  <2>2. CASE attempt > 0 /\ backoff = calculateBackoff(attempt - 1)
    <3>1. attempt - 1 \in Nat /\ (attempt - 1) + 1 = attempt
      BY <2>2 DEF RetryInv
    <3>2. QED BY <2>2, <3>1, BackoffLengths DEF RetryInv
  <2>3. QED BY <2>1, <2>2 DEF RetryInv
<1>4. Least(manager.retryInterval, MaxBackoff) \in Nat
  BY DEF RetryInv, Manager, Least, MaxBackoff
<1>5. MaxBackoff \in Nat /\ backoff \in Nat
  BY DEF MaxBackoff, RetryInv
<1>6. QED BY <1>1, <1>2, <1>3, <1>4, <1>5
================================================================================
