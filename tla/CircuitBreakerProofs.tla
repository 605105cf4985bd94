-------------------------- MODULE CircuitBreakerProofs --------------------------
(***************************************************************************)
(* Proofs about CircuitBreaker, for any set of callers, any threshold, any *)
(* window and open period with OpenPeriod <= Window, and any MaxEvents.    *)
(***************************************************************************)
EXTENDS CircuitBreaker, SequenceTheorems, FiniteSetTheorems,
        WellFoundedInduction, TLAPS

--------------------------------------------------------------------------------
(* The window. *)

\* Every non-empty set of natural numbers has the minimum Min chooses.
LEMMA MinIsLeast ==
    ASSUME NEW S \in SUBSET Nat, S # {}
    PROVE  Min(S) \in S /\ \A y \in S : Min(S) <= y
<1>1. PICK x \in S : \A y \in S : ~ (<<y, x>> \in OpToRel(<, Nat))
  BY NatLessThanWellFounded, WFMin
<1>2. \A a, b \in Nat : a < b => <<a, b>> \in OpToRel(<, Nat)
  BY DEF OpToRel
<1>3. \A y \in S : ~ (y < x)
  BY <1>1, <1>2
<1>4. \A y \in S : x <= y
  BY <1>3
<1>5. QED BY <1>4 DEF Min

\* A suffix of a sequence is a sequence of its last elements.
LEMMA SuffixProperties ==
    ASSUME NEW S, NEW s \in Seq(S), NEW m \in 1..Len(s)
    PROVE  /\ SubSeq(s, m, Len(s)) \in Seq(S)
           /\ Len(SubSeq(s, m, Len(s))) = Len(s) - m + 1
           /\ \A i \in 1..Len(SubSeq(s, m, Len(s))) :
                 SubSeq(s, m, Len(s))[i] = s[m + i - 1]
<1> DEFINE n == Len(s)
<1>1. n \in Nat /\ m \in Int /\ n \in Int /\ m <= n
  BY LenProperties
<1>2. \A i \in m..n : s[i] \in S
  BY <1>1, ElementOfSeq
<1> HIDE DEF n
<1>3. /\ SubSeq(s, m, n) \in Seq(S)
      /\ Len(SubSeq(s, m, n)) = IF m <= n THEN n - m + 1 ELSE 0
      /\ \A i \in 1..n - m + 1 : SubSeq(s, m, n)[i] = s[m + i - 1]
  BY <1>1, <1>2, SubSeqProperties
<1>4. Len(SubSeq(s, m, n)) = n - m + 1
  BY <1>1, <1>3
<1>5. QED BY <1>3, <1>4 DEF n

\* What PruneBefore returns on a chronological window: still a chronological
\* window, all of it fresh, as long as the number of fresh timestamps it was
\* given, and ending where it ended.
LEMMA PruneBeforeExact ==
    ASSUME NEW ts \in Seq(Ages), Ordered(ts)
    PROVE  /\ PruneBefore(ts) \in Seq(Ages)
           /\ Ordered(PruneBefore(ts))
           /\ Len(PruneBefore(ts)) = FreshCount(ts)
           /\ \A i \in DOMAIN PruneBefore(ts) :
                 /\ PruneBefore(ts)[i] <= Window
                 /\ \E j \in DOMAIN ts : PruneBefore(ts)[i] = ts[j]
<1> DEFINE fresh == {i \in DOMAIN ts : ts[i] <= Window}
<1>1. DOMAIN ts = 1..Len(ts) /\ Len(ts) \in Nat /\ \A i \in 1..Len(ts) : ts[i] \in Ages
  BY LenProperties, ElementOfSeq
<1>2. CASE fresh = {}
  <2>1. PruneBefore(ts) = <<>>
    BY <1>2 DEF PruneBefore
  <2>2. FreshCount(ts) = 0
    BY <1>2, FS_EmptySet DEF FreshCount
  <2>3. QED BY <2>1, <2>2, EmptySeq DEF Ordered
<1>3. CASE fresh # {}
  <2> DEFINE m == Min(fresh)
             p == SubSeq(ts, m, Len(ts))
  <2>1. m \in fresh /\ \A i \in fresh : m <= i
    <3>1. fresh \in SUBSET Nat
      BY <1>1
    <3>2. QED BY <3>1, <1>3, MinIsLeast
  <2>2. m \in 1..Len(ts)
    BY <2>1, <1>1
  <2>3. PruneBefore(ts) = p
    BY <1>3 DEF PruneBefore
  <2> HIDE DEF m
  <2>4. /\ p \in Seq(Ages)
        /\ Len(p) = Len(ts) - m + 1
        /\ \A i \in 1..Len(p) : p[i] = ts[m + i - 1]
    BY <2>2, SuffixProperties
  <2>5. DOMAIN p = 1..Len(p)
    BY <2>4, LenProperties
  <2>6. \A i \in 1..Len(p) : m + i - 1 \in 1..Len(ts)
    BY <2>2, <2>4, <1>1
  <2>7. \A i \in m..Len(ts) : ts[i] <= Window
    <3> SUFFICES ASSUME NEW i \in m..Len(ts)
                 PROVE  ts[i] <= Window
      OBVIOUS
    <3>1. i \in 1..Len(ts) /\ m <= i
      BY <2>2, <1>1
    <3>2. ts[m] \in Int /\ ts[i] \in Int /\ ts[m] <= Window
      BY <3>1, <2>1, <2>2, <1>1, BreakerAssumption DEF Ages, Stale
    <3>3. ts[i] <= ts[m]
      BY <3>1, <2>2, <1>1 DEF Ordered
    <3>4. QED BY <3>2, <3>3, BreakerAssumption
  <2>8. fresh = m..Len(ts)
    <3>1. ASSUME NEW i \in fresh PROVE i \in m..Len(ts)
      BY <2>1, <2>2, <1>1
    <3>2. ASSUME NEW i \in m..Len(ts) PROVE i \in fresh
      BY <2>2, <2>7, <1>1
    <3>3. QED BY <3>1, <3>2
  <2>9. FreshCount(ts) = Len(ts) - m + 1
    <3>1. Cardinality(m..Len(ts)) = Len(ts) - m + 1
      BY <2>2, <1>1, FS_Interval
    <3>2. QED BY <3>1, <2>8 DEF FreshCount
  <2>10. Ordered(p)
    <3> SUFFICES ASSUME NEW i \in DOMAIN p, NEW j \in DOMAIN p, i <= j
                 PROVE  p[j] <= p[i]
      BY DEF Ordered
    <3>1. m + i - 1 \in DOMAIN ts /\ m + j - 1 \in DOMAIN ts
      BY <2>5, <2>6, <1>1
    <3>2. m + i - 1 <= m + j - 1
      BY <2>2, <2>4, <2>5, <1>1
    <3>3. ts[m + j - 1] <= ts[m + i - 1]
      BY <3>1, <3>2 DEF Ordered
    <3>4. QED BY <3>3, <2>4, <2>5
  <2>11. \A i \in DOMAIN p : p[i] <= Window /\ \E j \in DOMAIN ts : p[i] = ts[j]
    <3> SUFFICES ASSUME NEW i \in DOMAIN p
                 PROVE  p[i] <= Window /\ \E j \in DOMAIN ts : p[i] = ts[j]
      OBVIOUS
    <3>1. p[i] = ts[m + i - 1] /\ m + i - 1 \in 1..Len(ts)
      BY <2>4, <2>5, <2>6
    <3>2. m + i - 1 \in m..Len(ts)
      BY <3>1, <2>2, <2>4, <2>5, <1>1
    <3>3. QED BY <3>1, <3>2, <2>7, <1>1
  <2>12. QED BY <2>3, <2>4, <2>9, <2>10, <2>11
<1>4. QED BY <1>2, <1>3

\* Appending the age 0, or growing older, keeps a window chronological.
LEMMA AppendOrdered ==
    ASSUME NEW ts \in Seq(Ages), Ordered(ts)
    PROVE  /\ Append(ts, 0) \in Seq(Ages)
           /\ Ordered(Append(ts, 0))
           /\ FreshCount(Append(ts, 0)) = FreshCount(ts) + 1
<1> DEFINE app == Append(ts, 0)
           old == {i \in DOMAIN ts : ts[i] <= Window}
<1>1. /\ Len(ts) \in Nat /\ DOMAIN ts = 1..Len(ts)
      /\ \A i \in 1..Len(ts) : ts[i] \in Ages
  BY LenProperties, ElementOfSeq
<1>2. 0 \in Ages /\ Ages \subseteq Nat /\ 0 <= Window
  BY BreakerAssumption DEF Ages, Stale
<1>3. /\ app \in Seq(Ages)
      /\ Len(app) = Len(ts) + 1
      /\ DOMAIN app = 1..Len(ts) + 1
      /\ \A i \in 1..Len(ts) : app[i] = ts[i]
      /\ app[Len(ts) + 1] = 0
  BY <1>1, <1>2, AppendProperties, LenProperties
<1> HIDE DEF app
<1>4. Ordered(app)
  <2> SUFFICES ASSUME NEW i \in DOMAIN app, NEW j \in DOMAIN app, i <= j
               PROVE  app[j] <= app[i]
    BY DEF Ordered
  <2>1. CASE j = Len(ts) + 1
    <3>1. app[i] \in Ages
      BY <1>3, ElementOfSeq
    <3>2. app[i] \in Nat
      BY <3>1, <1>2
    <3>3. app[j] = 0
      BY <2>1, <1>3
    <3>4. \A a \in Nat : 0 <= a
      OBVIOUS
    <3>5. 0 <= app[i]
      BY <3>2, <3>4
    <3>6. QED BY <3>3, <3>5
  <2>2. CASE j # Len(ts) + 1
    <3>1. i \in 1..Len(ts) /\ j \in 1..Len(ts)
      BY <2>2, <1>1, <1>3
    <3>2. ts[j] <= ts[i]
      BY <3>1, <1>1 DEF Ordered
    <3>3. QED BY <3>1, <3>2, <1>3
  <2>3. QED BY <2>1, <2>2
<1>5. {i \in DOMAIN app : app[i] <= Window} = old \union {Len(ts) + 1}
  <2>1. ASSUME NEW i \in 1..Len(ts) + 1
        PROVE  app[i] <= Window <=> i \in old \union {Len(ts) + 1}
    <3>1. CASE i = Len(ts) + 1
      BY <3>1, <1>2, <1>3
    <3>2. CASE i # Len(ts) + 1
      <4>1. i \in 1..Len(ts)
        BY <3>2, <1>1
      <4>2. QED BY <4>1, <3>2, <1>1, <1>3
    <3>3. QED BY <3>1, <3>2
  <2>2. old \union {Len(ts) + 1} \subseteq 1..Len(ts) + 1
    BY <1>1
  <2>3. QED BY <2>1, <2>2, <1>3
<1>6. IsFiniteSet(old) /\ Len(ts) + 1 \notin old
  <2>1. IsFiniteSet(1..Len(ts)) /\ old \subseteq 1..Len(ts)
    BY <1>1, FS_Interval
  <2>2. QED BY <2>1, <1>1, FS_Subset
<1>7. Cardinality(old \union {Len(ts) + 1}) = Cardinality(old) + 1
  BY <1>6, FS_AddElement
<1>8. FreshCount(app) = FreshCount(ts) + 1
  BY <1>5, <1>7 DEF FreshCount
<1>9. QED BY <1>3, <1>4, <1>8 DEF app

LEMMA OlderAge == \A a \in Ages : Older(a) \in Ages
BY BreakerAssumption DEF Older, Ages, Stale

LEMMA OlderMonotonic == \A a, b \in Ages : a <= b => Older(a) <= Older(b)
BY BreakerAssumption DEF Older, Ages, Stale

LEMMA OlderOrdered ==
    ASSUME NEW ts \in Seq(Ages), Ordered(ts)
    PROVE  /\ [i \in DOMAIN ts |-> Older(ts[i])] \in Seq(Ages)
           /\ Ordered([i \in DOMAIN ts |-> Older(ts[i])])
<1>1. /\ Len(ts) \in Nat /\ DOMAIN ts = 1..Len(ts)
      /\ \A i \in 1..Len(ts) : ts[i] \in Ages
  BY LenProperties, ElementOfSeq
<1>2. \A i \in 1..Len(ts) : Older(ts[i]) \in Ages
  BY <1>1, OlderAge
<1>3. [i \in 1..Len(ts) |-> Older(ts[i])] \in [1..Len(ts) -> Ages]
  BY <1>2
<1>4. [i \in DOMAIN ts |-> Older(ts[i])] \in Seq(Ages)
  BY <1>1, <1>3, SeqDef
<1>5. \A i, j \in DOMAIN ts : i <= j => Older(ts[j]) <= Older(ts[i])
  BY <1>1, OlderMonotonic DEF Ordered
<1>6. QED BY <1>4, <1>5 DEF Ordered

--------------------------------------------------------------------------------
(* Type correctness and the order of the window. *)

\* The inductive invariant: the type invariant alone does not say that the
\* windows are chronological, and without that PruneBefore need not return all
\* the fresh timestamps.
IInv == TypeOK /\ WindowOrdered

LEMMA InitIInv == Init => IInv
<1> SUFFICES ASSUME Init PROVE IInv
  OBVIOUS
<1>1. <<>> \in Seq(Ages) /\ Ordered(<<>>)
  BY EmptySeq DEF Ordered
<1>2. Stale \in Ages
  BY BreakerAssumption DEF Stale, Ages
<1>3. QED BY <1>1, <1>2 DEF Init, IInv, TypeOK, WindowOrdered, States

\* What an outcome leaves in the window.
LEMMA OutcomeWindow ==
    ASSUME IInv, NEW c \in Callers, NEW ok \in BOOLEAN, AfterAttempt(c, ok)
    PROVE  IInv'
<1>1. call' \in [Callers -> {"idle", "rejected", "running"}]
  BY DEF IInv, TypeOK, AfterAttempt
<1>2. 0 \in Ages /\ Ages \subseteq Nat
  BY BreakerAssumption DEF Ages, Stale
<1>3. /\ failures \in Seq(Ages) /\ Ordered(failures)
      /\ successes \in Seq(Ages) /\ Ordered(successes)
      /\ lastFailure \in Ages /\ state \in States
      /\ \A i \in DOMAIN failures : lastFailure <= failures[i]
  BY DEF IInv, TypeOK, WindowOrdered
<1>4. CASE ok /\ state = "HalfOpen"
  BY <1>1, <1>3, <1>4, EmptySeq
     DEF AfterAttempt, RecordSuccess, IInv, TypeOK, WindowOrdered, Ordered, States
<1>5. CASE ok /\ state # "HalfOpen"
  <2>1. /\ state' = state /\ lastFailure' = lastFailure
        /\ failures' = PruneBefore(failures)
        /\ successes' = PruneBefore(Append(successes, 0))
    BY <1>5 DEF AfterAttempt, RecordSuccess
  <2>2. /\ successes' \in Seq(Ages) /\ Ordered(successes')
        /\ failures' \in Seq(Ages) /\ Ordered(failures')
        /\ \A i \in DOMAIN failures' : \E j \in DOMAIN failures : failures'[i] = failures[j]
    BY <1>3, <2>1, AppendOrdered, PruneBeforeExact
  <2>3. QED BY <1>1, <1>3, <2>1, <2>2 DEF IInv, TypeOK, WindowOrdered
<1>6. CASE ~ok
  <2>1. /\ state' \in States /\ lastFailure' = 0
        /\ failures' = PruneBefore(Append(failures, 0))
        /\ successes' = PruneBefore(successes)
    BY <1>3, <1>6 DEF AfterAttempt, RecordFailure, States
  <2>2. /\ successes' \in Seq(Ages) /\ Ordered(successes')
        /\ failures' \in Seq(Ages) /\ Ordered(failures')
    BY <1>3, <2>1, AppendOrdered, PruneBeforeExact
  <2>3. \A i \in DOMAIN failures' : failures'[i] \in Nat
    BY <2>2, <1>2, LenProperties, ElementOfSeq
  <2>4. \A i \in DOMAIN failures' : lastFailure' <= failures'[i]
    BY <2>1, <2>3
  <2>5. QED BY <1>1, <1>2, <2>1, <2>2, <2>4 DEF IInv, TypeOK, WindowOrdered
<1>7. QED BY <1>4, <1>5, <1>6

LEMMA NextIInv == IInv /\ [Next]_vars => IInv'
<1> SUFFICES ASSUME IInv, [Next]_vars PROVE IInv'
  OBVIOUS
<1>1. /\ failures \in Seq(Ages) /\ Ordered(failures)
      /\ successes \in Seq(Ages) /\ Ordered(successes)
      /\ lastFailure \in Ages /\ state \in States
      /\ \A i \in DOMAIN failures : lastFailure <= failures[i]
      /\ call \in [Callers -> {"idle", "rejected", "running"}]
  BY DEF IInv, TypeOK, WindowOrdered
<1>2. 0 \in Ages /\ Ages \subseteq Nat
  BY BreakerAssumption DEF Ages, Stale
<1>3. ASSUME NEW c \in Callers, BeforeAttempt(c) PROVE IInv'
  BY <1>1, <1>3 DEF BeforeAttempt, IInv, TypeOK, WindowOrdered, Ordered, States
<1>4. ASSUME NEW c \in Callers, NEW ok \in BOOLEAN, AfterAttempt(c, ok) PROVE IInv'
  BY <1>4, OutcomeWindow
<1>5. CASE GetFailureRate
  <2>1. /\ failures' \in Seq(Ages) /\ Ordered(failures')
        /\ successes' \in Seq(Ages) /\ Ordered(successes')
        /\ \A i \in DOMAIN failures' : \E j \in DOMAIN failures : failures'[i] = failures[j]
    BY <1>1, <1>5, PruneBeforeExact DEF GetFailureRate
  <2>2. QED BY <1>1, <1>5, <2>1 DEF GetFailureRate, IInv, TypeOK, WindowOrdered
<1>6. CASE ForceOpen
  <2>1. \A i \in DOMAIN failures : failures[i] \in Nat
    BY <1>1, <1>2, LenProperties, ElementOfSeq
  <2>2. QED BY <1>1, <1>2, <1>6, <2>1 DEF ForceOpen, IInv, TypeOK, WindowOrdered, Ordered, States
<1>7. CASE ForceClose
  BY <1>1, <1>7, EmptySeq DEF ForceClose, IInv, TypeOK, WindowOrdered, Ordered, States
<1>8. CASE Tick
  <2>1. /\ failures' \in Seq(Ages) /\ Ordered(failures')
        /\ successes' \in Seq(Ages) /\ Ordered(successes')
    BY <1>1, <1>8, OlderOrdered DEF Tick
  <2>2. lastFailure' \in Ages
    BY <1>1, <1>8, OlderAge DEF Tick
  <2>3. \A i \in DOMAIN failures' : lastFailure' <= failures'[i]
    <3>1. \A i \in DOMAIN failures : failures[i] \in Ages
      BY <1>1, LenProperties, ElementOfSeq
    <3>2. QED BY <1>1, <1>8, <3>1, OlderMonotonic DEF Tick
  <2>4. QED BY <1>1, <1>8, <2>1, <2>2, <2>3 DEF Tick, IInv, TypeOK, WindowOrdered
<1>9. CASE UNCHANGED vars
  BY <1>9 DEF vars, IInv, TypeOK, WindowOrdered, Ordered
<1>10. QED BY <1>3, <1>4, <1>5, <1>6, <1>7, <1>8, <1>9 DEF Next

THEOREM IInvAlways == Spec => []IInv
BY InitIInv, NextIInv, PTL DEF Spec

\* The variables keep their types.
THEOREM TypeCorrect == Spec => []TypeOK
<1>1. IInv => TypeOK
  BY DEF IInv
<1>2. QED BY <1>1, IInvAlways, PTL

\* Both windows stay chronological, so that dropping a stale prefix drops every
\* stale timestamp, and the open period is measured from the latest failure.
THEOREM WindowStaysOrdered == Spec => []WindowOrdered
<1>1. IInv => WindowOrdered
  BY DEF IInv
<1>2. QED BY <1>1, IInvAlways, PTL

--------------------------------------------------------------------------------
(* When the breaker opens. *)

\* An attempt that ends while the breaker is closed opens it exactly when it
\* failed and the share of failures of the last Window ticks reaches the
\* threshold.
THEOREM OpensExactly == Spec => OpensExactlyAtRate
<1> DEFINE A == \A c \in Callers, ok \in BOOLEAN :
                   AfterAttempt(c, ok) /\ state = "Closed" =>
                      (state' = "Open" <=>
                         /\ ~ok
                         /\ Reaches(FreshCount(failures) + 1, FreshCount(successes),
                                    ThresholdNum, ThresholdDen))
<1>1. IInv => A
  <2> SUFFICES ASSUME IInv, NEW c \in Callers, NEW ok \in BOOLEAN,
                      AfterAttempt(c, ok), state = "Closed"
               PROVE  state' = "Open" <=>
                        /\ ~ok
                        /\ Reaches(FreshCount(failures) + 1, FreshCount(successes),
                                   ThresholdNum, ThresholdDen)
    OBVIOUS
  <2>1. CASE ok
    BY <2>1 DEF AfterAttempt, RecordSuccess
  <2>2. CASE ~ok
    <3>1. /\ failures' = PruneBefore(Append(failures, 0))
          /\ successes' = PruneBefore(successes)
          /\ state' = "Open" <=> RateReached(failures', successes')
      BY <2>2 DEF AfterAttempt, RecordFailure
    <3>2. Len(failures') = FreshCount(failures) + 1 /\ Len(successes') = FreshCount(successes)
      BY <3>1, AppendOrdered, PruneBeforeExact DEF IInv, TypeOK, WindowOrdered
    <3>3. QED BY <2>2, <3>1, <3>2 DEF RateReached
  <2>3. QED BY <2>1, <2>2
<1>2. IInv => [A]_vars
  BY <1>1
<1>3. QED BY <1>2, IInvAlways, PTL DEF OpensExactlyAtRate

--------------------------------------------------------------------------------
(* The breaker implements its contract. *)

inFlightOf(f) == {c \in Callers : f[c] = "running"}

\* What a change of one caller's entry does to the set of callers inside
\* operation().
LEMMA InFlightEnters ==
    ASSUME NEW c \in Callers, TypeOK, call' = [call EXCEPT ![c] = "running"]
    PROVE  inFlightOf(call') = inFlightOf(call) \union {c}
BY DEF TypeOK, inFlightOf

LEMMA InFlightLeaves ==
    ASSUME NEW c \in Callers, TypeOK, NEW v \in {"idle", "rejected"},
           call' = [call EXCEPT ![c] = v]
    PROVE  inFlightOf(call') = inFlightOf(call) \ {c}
BY DEF TypeOK, inFlightOf

\* Every behaviour of the breaker is one of its contract: only a probe after the
\* open period, a success or ForceClose lets callers through an open breaker.
THEOREM ImplementsContract == Spec => ContractSpec
<1>1. Init => Contract!Init
  BY DEF Init, Contract!Init
<1>2. IInv /\ [Next]_vars => [Contract!Next]_(Contract!vars)
  <2> SUFFICES ASSUME IInv, [Next]_vars
               PROVE  Contract!Next \/ UNCHANGED Contract!vars
    OBVIOUS
  <2>1. TypeOK
    BY DEF IInv
  <2>2. ASSUME NEW c \in Callers, BeforeAttempt(c)
        PROVE  Contract!Next \/ UNCHANGED Contract!vars
    <3>1. CASE state = "Open" /\ lastFailure > OpenPeriod
      <4>1. call' = [call EXCEPT ![c] = "running"] /\ state' = "HalfOpen"
        BY <2>2, <3>1, <2>1, BreakerAssumption DEF BeforeAttempt, TypeOK, Ages, Stale
      <4>2. inFlightOf(call') = inFlightOf(call) \union {c}
        BY <4>1, <2>1, InFlightEnters
      <4>3. Contract!Probe(c)
        BY <2>2, <3>1, <4>1, <4>2 DEF BeforeAttempt, Contract!Probe, inFlightOf
      <4>4. QED BY <4>3 DEF Contract!Next
    <3>2. CASE state = "Open" /\ ~(lastFailure > OpenPeriod)
      <4>1. call' = [call EXCEPT ![c] = "rejected"] /\ state' = state /\ lastFailure' = lastFailure
        BY <2>2, <3>2 DEF BeforeAttempt
      <4>2. inFlightOf(call') = inFlightOf(call) \ {c}
        BY <4>1, <2>1, InFlightLeaves
      <4>3. inFlightOf(call') = inFlightOf(call)
        BY <2>2, <4>2 DEF BeforeAttempt, inFlightOf
      <4>4. QED BY <4>1, <4>3 DEF Contract!vars, inFlightOf
    <3>3. CASE state # "Open"
      <4>1. call' = [call EXCEPT ![c] = "running"]
        BY <2>2, <3>3 DEF BeforeAttempt
      <4>2. state' = state /\ lastFailure' = lastFailure
        BY <2>2, <3>3 DEF BeforeAttempt
      <4>3. inFlightOf(call') = inFlightOf(call) \union {c}
        BY <4>1, <2>1, InFlightEnters
      <4>4. Contract!Admit(c)
        BY <2>2, <3>3, <4>2, <4>3 DEF BeforeAttempt, Contract!Admit, inFlightOf
      <4>5. QED BY <4>4 DEF Contract!Next
    <3>4. QED BY <3>1, <3>2, <3>3
  <2>3. ASSUME NEW c \in Callers, NEW ok \in BOOLEAN, AfterAttempt(c, ok)
        PROVE  Contract!Next \/ UNCHANGED Contract!vars
    <3>1. inFlightOf(call') = inFlightOf(call) \ {c} /\ c \in inFlightOf(call)
      <4>1. call' = [call EXCEPT ![c] = "idle"]
        BY <2>3 DEF AfterAttempt
      <4>2. inFlightOf(call') = inFlightOf(call) \ {c}
        BY <2>1, <4>1, InFlightLeaves
      <4>3. c \in inFlightOf(call)
        BY <2>3 DEF AfterAttempt, inFlightOf
      <4>4. QED BY <4>2, <4>3
    <3>2. CASE ok
      <4>1. /\ state' = IF state = "HalfOpen" THEN "Closed" ELSE state
            /\ lastFailure' = lastFailure
        BY <2>3, <3>2 DEF AfterAttempt, RecordSuccess
      <4>2. Contract!Succeed(c)
        BY <3>1, <4>1 DEF Contract!Succeed, inFlightOf
      <4>3. QED BY <4>2 DEF Contract!Next
    <3>3. CASE ~ok
      <4>1. /\ state' = "Open" \/ (state = "Closed" /\ state' = "Closed")
            /\ lastFailure' = 0
        <5>1. RecordFailure /\ state \in States
          BY <2>1, <2>3, <3>3 DEF AfterAttempt, TypeOK
        <5>2. QED BY <5>1 DEF RecordFailure, States
      <4>2. Contract!Fail(c)
        BY <3>1, <4>1 DEF Contract!Fail, inFlightOf
      <4>3. QED BY <4>2 DEF Contract!Next
    <3>4. QED BY <3>2, <3>3
  <2>4. CASE GetFailureRate
    BY <2>4 DEF GetFailureRate, Contract!vars
  <2>5. CASE ForceOpen
    BY <2>5 DEF ForceOpen, Contract!ForceOpen, Contract!Next
  <2>6. CASE ForceClose
    BY <2>6 DEF ForceClose, Contract!ForceClose, Contract!Next
  <2>7. CASE Tick
    <3>1. CASE state = "Open" /\ lastFailure # Stale
      <4>1. Contract!Elapse
        BY <2>7, <3>1 DEF Tick, Older, Contract!Elapse
      <4>2. QED BY <4>1 DEF Contract!Next
    <3>2. CASE ~(state = "Open" /\ lastFailure # Stale)
      BY <2>7, <3>2 DEF Tick, Older, Contract!vars
    <3>3. QED BY <3>1, <3>2
  <2>8. CASE UNCHANGED vars
    BY <2>8 DEF vars, Contract!vars
  <2>9. QED BY <2>2, <2>3, <2>4, <2>5, <2>6, <2>7, <2>8 DEF Next
<1>3. QED BY <1>1, <1>2, IInvAlways, PTL DEF Spec, ContractSpec, Contract!Spec

================================================================================
