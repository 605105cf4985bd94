--------------------------- MODULE PluginConfigProofs ---------------------------
(***************************************************************************)
(* Proofs about PluginConfig and the retry manager it builds, for any      *)
(* configuration.                                                          *)
(***************************************************************************)
EXTENDS PluginConfig, RetryManagerProofs, SequenceTheorems

Text == {Empty, "valid", "invalid", "https", "http", "unparseable", "short", "long",
         "known", "unknown"}

Config == [appId : Text, metaServer : Text, token : Text, logLevel : Text,
           timeout : Int, notificationTimeout : Int, retryInterval : Int,
           maxRetryTimes : Int, threshold : Int, enableCache : BOOLEAN, cacheDir : BOOLEAN,
           namespace : OptionalNames, service : Services \union {NoService}]

\* Cutting the fraction off both durations never hides that one is the longer.
LEMMA TruncatedOrder ==
    ASSUME NEW a \in Int, NEW b \in Int, Truncated(a) < Truncated(b)
    PROVE  a < b
BY DEF Truncated

LEMMA TruncatedBelow == ASSUME NEW d \in Int PROVE Truncated(d) <= d
BY DEF Truncated

LEMMA PlainConfig ==
    /\ Plain \in Config
    /\ Plain.timeout = Unset /\ Plain.notificationTimeout = Unset /\ Plain.threshold = 0
<1>1. Unset \in Int
  BY DEF Unset
<1>2. Empty \in OptionalNames /\ Empty \in Text
  BY DEF OptionalNames, Text
<1>3. NoService \in Services \union {NoService}
  OBVIOUS
<1>4. Plain \in Config
  BY <1>1, <1>2, <1>3 DEF Plain, Config, Text
<1>5. Plain.timeout = Unset
  BY DEF Plain
<1>6. Plain.notificationTimeout = Unset
  BY DEF Plain
<1>7. Plain.threshold = 0
  BY DEF Plain
<1>8. QED BY <1>4, <1>5, <1>6, <1>7

\* What the program may be given.
WrittenTypes(c) ==
    /\ c \in Config
    /\ c.timeout \in Timeouts \union {Unset}
    /\ c.notificationTimeout \in Timeouts \union {Unset}
    /\ c.threshold \in Thresholds \union {0}

LEMMA WrittenConfigs ==
    ASSUME NEW c \in Configurations
    PROVE  WrittenTypes(c)
<1>1. /\ Timeouts \subseteq Nat /\ Intervals \subseteq Nat
      /\ RetryTimes \subseteq Int /\ Thresholds \subseteq Nat
  BY ConfigAssumption
<1>2. Unset \in Int /\ Empty \in Text
  BY DEF Unset, Text
<1> USE DEF WrittenTypes
<1>3. ASSUME NEW t \in Timeouts \union {Unset}, NEW n \in Timeouts \union {Unset},
             c = WithTimeouts(t, n)
      PROVE  WrittenTypes(c)
  <2>1. t \in Int /\ n \in Int
    BY <1>1, <1>2
  <2>2. c \in Config /\ c.timeout = t /\ c.notificationTimeout = n /\ c.threshold = 0
    BY <1>3, <2>1, PlainConfig DEF WithTimeouts, Config
  <2>3. QED BY <2>2
<1>4. ASSUME NEW i \in Intervals \union {Unset}, NEW m \in RetryTimes,
             c = WithRetries(i, m)
      PROVE  WrittenTypes(c)
  <2>1. i \in Int /\ m \in Int
    BY <1>1, <1>2
  <2>2. QED BY <1>4, <2>1, PlainConfig DEF WithRetries, Config
<1>5. ASSUME NEW t \in Thresholds \union {0}, NEW e \in BOOLEAN, NEW d \in BOOLEAN,
             c = WithThreshold(t, e, d)
      PROVE  WrittenTypes(c)
  <2>1. t \in Int
    BY <1>1
  <2>2. /\ c \in Config /\ c.timeout = Unset /\ c.notificationTimeout = Unset
        /\ c.threshold = t
    BY <1>5, <2>1, PlainConfig DEF WithThreshold, Config
  <2>3. QED BY <2>2
<1>6. ASSUME NEW a \in Text, NEW m \in Text, NEW t \in Text, NEW l \in Text,
             c = WithStrings(a, m, t, l)
      PROVE  WrittenTypes(c)
  BY <1>6, PlainConfig DEF WithStrings, Config
<1>7. ASSUME NEW n \in OptionalNames, NEW s \in Services \union {NoService},
             c = WithNamespaces(n, s)
      PROVE  WrittenTypes(c)
  BY <1>7, PlainConfig DEF WithNamespaces, Config
<1>8. Empty \in Text /\ {"valid", "invalid", "https", "http", "unparseable", "short", "long",
                         "known", "unknown"} \subseteq Text
  BY DEF Text
<1>9. CASE c \in {WithTimeouts(t, n) : t, n \in Timeouts \union {Unset}}
  BY <1>1, <1>3, <1>9
<1>10. CASE c \in {WithRetries(i, m) : i \in Intervals \union {Unset}, m \in RetryTimes}
  BY <1>4, <1>10
<1>11. CASE c \in {WithThreshold(t, e, d) : t \in Thresholds \union {0}, e, d \in BOOLEAN}
  BY <1>5, <1>11
<1>12. CASE c \in {WithNamespaces(n, s) : n \in OptionalNames, s \in Services \union {NoService}}
  BY <1>7, <1>12
<1>13. CASE c \in {WithStrings(a, m, t, l) :
                     a \in {Empty, "valid", "invalid"},
                     m \in {Empty, "https", "http", "unparseable"},
                     t \in {Empty, "short", "valid", "long"},
                     l \in {Empty, "known", "unknown"}}
  BY <1>6, <1>8, <1>13
<1>14. QED BY <1>9, <1>10, <1>11, <1>12, <1>13 DEF Configurations

\* What the defaults make of each field.
Defaulted(c, d) ==
    /\ d.appId = c.appId /\ d.metaServer = c.metaServer /\ d.token = c.token
    /\ d.logLevel = c.logLevel /\ d.retryInterval = c.retryInterval
    /\ d.maxRetryTimes = c.maxRetryTimes /\ d.enableCache = c.enableCache
    /\ d.service = c.service
    /\ d.namespace = OrName(c.namespace, "application")
    /\ d.timeout = Or(c.timeout, 10000)
    /\ d.notificationTimeout = Or(c.notificationTimeout, 30000)
    /\ d.cacheDir = TRUE
    /\ d.threshold = OrThreshold(c.threshold)

ImplicitlyDefaulted(c, d) ==
    /\ d.appId = c.appId /\ d.metaServer = c.metaServer /\ d.token = c.token
    /\ d.logLevel = c.logLevel /\ d.retryInterval = c.retryInterval
    /\ d.maxRetryTimes = c.maxRetryTimes /\ d.enableCache = c.enableCache
    /\ d.service = c.service /\ d.namespace = c.namespace /\ d.timeout = c.timeout
    /\ d.notificationTimeout = c.notificationTimeout /\ d.cacheDir = c.cacheDir
    /\ d.threshold = OrThreshold(c.threshold)

LEMMA DefaultsFields == ASSUME NEW c \in Config PROVE Defaulted(c, setDefaultConfig(c))
BY DEF setDefaultConfig, Config, Defaulted

LEMMA ImplicitDefaultsFields ==
    ASSUME NEW c \in Config PROVE ImplicitlyDefaulted(c, applyImplicitDefaults(c))
BY DEF applyImplicitDefaults, Config, ImplicitlyDefaulted

\* What the defaults make of a configuration.
LEMMA DefaultsType ==
    ASSUME NEW c \in Config, c.timeout \in Nat \union {Unset},
           c.notificationTimeout \in Nat \union {Unset}
    PROVE  LET d == setDefaultConfig(c) IN
           d \in Config /\ d.timeout \in Nat /\ d.notificationTimeout \in Nat
<1>1. "application" \in OptionalNames
  BY ConfigAssumption DEF OptionalNames
<1> DEFINE name == OrName(c.namespace, "application")
           timeout == Or(c.timeout, 10000)
           notification == Or(c.notificationTimeout, 30000)
           rate == OrThreshold(c.threshold)
           c1 == [c EXCEPT !.namespace = name]
           c2 == [c1 EXCEPT !.timeout = timeout]
           c3 == [c2 EXCEPT !.notificationTimeout = notification]
           c4 == [c3 EXCEPT !.cacheDir = TRUE]
           c5 == [c4 EXCEPT !.threshold = rate]
<1>2. name \in OptionalNames
  BY <1>1 DEF OrName, Config
<1>3. timeout \in Nat /\ notification \in Nat
  BY DEF Or, Unset
<1>4. rate \in Int
  BY DEF OrThreshold, Config
<1> HIDE DEF name, timeout, notification, rate
<1>5. c1 \in Config
  BY <1>2 DEF Config
<1> HIDE DEF c1
<1>6. c2 \in Config /\ c2.timeout = timeout
  BY <1>3, <1>5 DEF Config
<1> HIDE DEF c2
<1>7. c3 \in Config /\ c3.timeout = timeout /\ c3.notificationTimeout = notification
  BY <1>3, <1>6 DEF Config
<1> HIDE DEF c3
<1>8. c4 \in Config /\ c4.timeout = timeout /\ c4.notificationTimeout = notification
  BY <1>7 DEF Config
<1> HIDE DEF c4
<1>9. c5 \in Config /\ c5.timeout = timeout /\ c5.notificationTimeout = notification
  BY <1>4, <1>8 DEF Config
<1> HIDE DEF c5
<1>10. setDefaultConfig(c) = c5
  BY DEF setDefaultConfig, c1, c2, c3, c4, c5, name, timeout, notification, rate, Config
<1>11. QED BY <1>3, <1>9, <1>10

LEMMA ImplicitDefaultsType ==
    ASSUME NEW c \in Config
    PROVE  LET d == applyImplicitDefaults(c) IN
           /\ d \in Config
           /\ d.timeout = c.timeout /\ d.notificationTimeout = c.notificationTimeout
           /\ d.appId = c.appId /\ d.metaServer = c.metaServer
<1>1. OrThreshold(c.threshold) \in Int
  BY DEF OrThreshold, Config
<1>2. QED BY <1>1 DEF applyImplicitDefaults, Config

\* A valid configuration that has both timeouts has them in order and in range.
LEMMA ValidTimeoutsFit ==
    ASSUME NEW c \in Config, c.timeout \in Nat, c.notificationTimeout \in Nat, ValidateConfig(c)
    PROVE  /\ c.timeout < c.notificationTimeout /\ 1000 <= c.timeout /\ c.timeout <= 30000
           /\ c.appId = "valid" /\ c.metaServer = "https"
<1> DEFINE d == applyImplicitDefaults(c)
<1>1. /\ d.timeout = c.timeout /\ d.notificationTimeout = c.notificationTimeout
      /\ d.appId = c.appId /\ d.metaServer = c.metaServer
  BY ImplicitDefaultsType
<1>2. /\ validateBasicFields(d) /\ validateTimeConfigs(d) /\ validateDependencies(d)
      /\ validateSecurityConfigs(d) /\ validateNetworkConfigs(d)
  BY DEF ValidateConfig
<1> HIDE DEF d
<1>3. /\ c.timeout # Unset /\ c.notificationTimeout # Unset
      /\ c.timeout \in Int /\ c.notificationTimeout \in Int
  BY DEF Unset
<1>4. c.timeout < c.notificationTimeout
  <2>1. Truncated(c.timeout) < Truncated(c.notificationTimeout)
    BY <1>1, <1>2, <1>3 DEF validateDependencies
  <2>2. QED BY <1>3, <2>1, TruncatedOrder
<1>5. 1000 <= c.timeout /\ c.timeout <= 30000
  <2>1. 1000 <= Truncated(c.timeout) /\ c.timeout <= 30000
    BY <1>1, <1>2, <1>3 DEF validateTimeConfigs, Within, validateNetworkConfigs
  <2>2. Truncated(c.timeout) <= c.timeout
    BY <1>3, TruncatedBelow
  <2>3. Truncated(c.timeout) \in Int
    BY <1>3 DEF Truncated
  <2>4. QED BY <1>3, <2>1, <2>2, <2>3
<1>6. c.appId = "valid" /\ c.metaServer = "https"
  BY <1>1, <1>2 DEF validateBasicFields, validateSecurityConfigs
<1>7. QED BY <1>4, <1>5, <1>6

--------------------------------------------------------------------------------
(* What becomes of a configuration. *)

\* The inductive invariant: what is accepted, and what is built, is a function of
\* what was written.
Derived ==
    /\ stage \in {"scanned", "defaulted", "rejected", "accepted", "built"}
    /\ written \in Configurations
    /\ stage = "scanned" => conf = written
    /\ stage = "defaulted" => conf = setDefaultConfig(written)
    /\ stage \in {"rejected", "accepted", "built"}
          => conf = applyImplicitDefaults(setDefaultConfig(written))
    /\ stage \in {"accepted", "built"} => ValidateConfig(setDefaultConfig(written))
    /\ stage = "rejected" => ~ValidateConfig(setDefaultConfig(written))
    /\ stage = "built" => threshold = Float32(OrThreshold(conf.threshold))

LEMMA DerivedInvariant == Spec => []Derived
<1>1. Init => Derived
  BY DEF Init, Derived
<1>2. Derived /\ [Next]_vars => Derived'
  BY DEF Derived, Next, SetDefaults, Validate, initComponents, Retry, vars
<1>3. QED BY <1>1, <1>2, PTL DEF Spec

\* Every accepted configuration, of any values, lets the client be built, with a
\* timeout of one to thirty seconds that is shorter than the notification timeout.
THEOREM TimeoutsFit == Spec => []AcceptedTimeoutsFit
<1>1. Derived => AcceptedTimeoutsFit
  <2> SUFFICES ASSUME Derived, stage \in {"accepted", "built"}
               PROVE  /\ initApolloClient(conf)
                      /\ conf.timeout < conf.notificationTimeout
                      /\ 1000 <= conf.timeout /\ conf.timeout <= 30000
    BY DEF AcceptedTimeoutsFit
  <2> DEFINE d == setDefaultConfig(written)
  <2>1. /\ written \in Config
        /\ written.timeout \in Nat \union {Unset}
        /\ written.notificationTimeout \in Nat \union {Unset}
    BY WrittenConfigs, ConfigAssumption DEF Derived, WrittenTypes
  <2>2. /\ d \in Config /\ d.timeout \in Nat /\ d.notificationTimeout \in Nat
        /\ ValidateConfig(d) /\ conf = applyImplicitDefaults(d)
    BY <2>1, DefaultsType DEF Derived
  <2> HIDE DEF d
  <2>3. /\ conf.timeout = d.timeout /\ conf.notificationTimeout = d.notificationTimeout
        /\ conf.appId = d.appId /\ conf.metaServer = d.metaServer
    BY <2>2, ImplicitDefaultsType
  <2>4. /\ d.timeout < d.notificationTimeout /\ 1000 <= d.timeout /\ d.timeout <= 30000
        /\ d.appId = "valid" /\ d.metaServer = "https"
    BY <2>2, ValidTimeoutsFit
  <2>5. QED BY <2>3, <2>4 DEF initApolloClient, Empty
<1>2. QED BY <1>1, DerivedInvariant, PTL

--------------------------------------------------------------------------------
(* Two ways to validate. *)

\* A written configuration and the defaulted one pass the same checks, unless a
\* default stands in for one of the two timeouts, or for the cache directory.
LEMMA DefaultsValidateAlike ==
    ASSUME NEW c \in Configurations, c.timeout = Unset <=> c.notificationTimeout = Unset,
           c.enableCache => c.cacheDir
    PROVE  ValidateConfig(setDefaultConfig(c)) <=> ValidateConfig(c)
<1> DEFINE b == setDefaultConfig(c)
           e == applyImplicitDefaults(c)
           d == applyImplicitDefaults(b)
<1>1. OrThreshold(OrThreshold(c.threshold)) = OrThreshold(c.threshold)
  BY DEF OrThreshold
<1>2. c \in Config /\ b \in Config
  BY WrittenConfigs, DefaultsType, ConfigAssumption DEF WrittenTypes
<1>3. /\ d.appId = e.appId /\ d.metaServer = e.metaServer /\ d.token = e.token
      /\ d.logLevel = e.logLevel /\ d.retryInterval = e.retryInterval
      /\ d.maxRetryTimes = e.maxRetryTimes /\ d.enableCache = e.enableCache
      /\ d.service = e.service /\ d.threshold = e.threshold
      /\ d.cacheDir = TRUE /\ e.cacheDir = c.cacheDir /\ e.enableCache = c.enableCache
      /\ d.timeout = Or(c.timeout, 10000) /\ e.timeout = c.timeout
      /\ d.notificationTimeout = Or(c.notificationTimeout, 30000)
      /\ e.notificationTimeout = c.notificationTimeout
  <2>1. Defaulted(c, b)
    BY <1>2, DefaultsFields
  <2>2. ImplicitlyDefaulted(b, d) /\ ImplicitlyDefaulted(c, e)
    BY <1>2, ImplicitDefaultsFields
  <2> HIDE DEF b
  <2> HIDE DEF d, e
  <2>3. QED BY <1>1, <2>1, <2>2 DEF Defaulted, ImplicitlyDefaulted
<1> HIDE DEF b, d, e
<1>4. validateBasicFields(d) <=> validateBasicFields(e)
  BY <1>3 DEF validateBasicFields
<1>5. validateNumericRanges(d) <=> validateNumericRanges(e)
  <2>1. d.maxRetryTimes = e.maxRetryTimes /\ d.threshold = e.threshold
    BY <1>3
  <2>2. QED BY <2>1, Zenon DEF validateNumericRanges
<1>6. validateEnumValues(d) <=> validateEnumValues(e)
  BY <1>3 DEF validateEnumValues
<1>7. validateTimeConfigs(d) <=> validateTimeConfigs(e)
  BY <1>3 DEF validateTimeConfigs, Within, Or, Truncated, Unset
<1>8. validateDependencies(d) <=> validateDependencies(e)
  BY <1>3 DEF validateDependencies, Or, Truncated, Unset
<1>9. validateSecurityConfigs(d) <=> validateSecurityConfigs(e)
  BY <1>3 DEF validateSecurityConfigs
<1>10. validateNetworkConfigs(d) <=> validateNetworkConfigs(e)
  BY <1>3 DEF validateNetworkConfigs, Or, Unset
<1>11. QED
  BY <1>4, <1>5, <1>6, <1>7, <1>8, <1>9, <1>10 DEF ValidateConfig, b, d, e

\* The plugin accepts a configuration exactly when ValidateConfig accepts it as it
\* was written, but for the configurations that set one of the two timeouts only and
\* those that enable the cache and name no directory.
THEOREM ValidatorsAlike == Spec => []ValidatorsAgree
<1>1. Derived => ValidatorsAgree
  <2> SUFFICES ASSUME Derived, stage \in {"rejected", "accepted"},
                      (written.timeout = Unset) <=> (written.notificationTimeout = Unset),
                      ~(written.enableCache /\ ~written.cacheDir)
               PROVE  (stage = "accepted") = ValidateConfig(written)
    BY DEF ValidatorsAgree
  <2>1. written \in Config
    BY WrittenConfigs DEF Derived, WrittenTypes
  <2>2. ValidateConfig(setDefaultConfig(written)) <=> ValidateConfig(written)
    BY <2>1, DefaultsValidateAlike DEF Derived
  <2>3. stage = "accepted" <=> ValidateConfig(written)
    BY <2>2 DEF Derived
  <2>4. ValidateConfig(written) \in BOOLEAN
    BY DEF ValidateConfig
  <2>5. QED BY <2>3, <2>4
<1>2. QED BY <1>1, DerivedInvariant, PTL

--------------------------------------------------------------------------------
(* The retry manager that is built. *)

\* The inductive invariant: the manager is used once it is built, and only then.
Retries == RetryInv /\ (stage # "built" => at = "idle" /\ attempt = 0)

LEMMA BuiltManager ==
    ASSUME NEW c \in Config
    PROVE  NewRetryManager(IF c.maxRetryTimes > 0 THEN c.maxRetryTimes ELSE 3,
                           IF c.retryInterval > 0 THEN c.retryInterval ELSE 1000) \in Manager
BY DEF Config, NewRetryManager, Manager

LEMMA ConfType ==
    ASSUME Derived
    PROVE  /\ conf \in Config
           /\ conf.timeout \in Timeouts \union {Unset, 10000}
           /\ conf.threshold \in Thresholds \union {0, 50}
<1> DEFINE b == setDefaultConfig(written)
<1>1. WrittenTypes(written)
  BY WrittenConfigs DEF Derived
<1>2. written \in Config /\ b \in Config
  BY <1>1, DefaultsType, ConfigAssumption DEF WrittenTypes
<1>3. Defaulted(written, b) /\ ImplicitlyDefaulted(b, applyImplicitDefaults(b))
  BY <1>2, DefaultsFields, ImplicitDefaultsFields
<1>4. applyImplicitDefaults(b) \in Config
  BY <1>2, ImplicitDefaultsType
<1>5. conf \in {written, b, applyImplicitDefaults(b)}
  BY DEF Derived
<1> HIDE DEF b
<1>6. /\ b.timeout \in Timeouts \union {Unset, 10000}
      /\ b.threshold \in Thresholds \union {0, 50}
  BY <1>1, <1>3 DEF Defaulted, WrittenTypes, Or, OrThreshold
<1>7. /\ applyImplicitDefaults(b).timeout \in Timeouts \union {Unset, 10000}
      /\ applyImplicitDefaults(b).threshold \in Thresholds \union {0, 50}
  BY <1>3, <1>6 DEF ImplicitlyDefaulted, OrThreshold
<1>8. QED BY <1>1, <1>2, <1>4, <1>5, <1>6, <1>7 DEF WrittenTypes

LEMMA RetriesInvariant == Spec => []Retries
<1>1. Init => Retries
  <2> SUFFICES ASSUME Init PROVE Retries
    OBVIOUS
  <2>1. manager \in Manager /\ manager.maxRetries = 0 /\ 0 <= MaxBackoff /\ 0 <= 0
    BY DEF Init, NewRetryManager, Manager, MaxBackoff
  <2>2. /\ at = "idle" /\ attempt = 0 /\ backoff = 0
        /\ cancelledAt = "none" /\ late = 0 /\ outcome = "none" /\ stage = "scanned"
    BY DEF Init, LoopInit
  <2>3. attempt \in Nat /\ backoff \in Nat
    BY <2>2
  <2>4. attempt <= manager.maxRetries /\ backoff <= MaxBackoff
    BY <2>1, <2>2
  <2>5. at \notin {"check", "begin", "run", "sleep"}
    BY <2>2
  <2>6. Heard
    BY <2>2 DEF Heard
  <2>7. QED BY <2>1, <2>2, <2>3, <2>4, <2>5, <2>6, Zenon DEF Retries, RetryInv
<1>2. Derived /\ Retries /\ [Next]_vars => Retries'
  <2> SUFFICES ASSUME Derived, Retries, [Next]_vars PROVE Retries'
    OBVIOUS
  <2>1. CASE SetDefaults \/ Validate
    <3>1. UNCHANGED <<manager, loop>> /\ stage # "built"
      BY <2>1 DEF SetDefaults, Validate
    <3>2. QED BY <3>1 DEF Retries, RetryInv, Heard, calculateBackoff, loop
  <2>2. CASE initComponents
    <3>1. /\ at = "idle" /\ attempt = 0 /\ UNCHANGED loop
      BY <2>2 DEF initComponents, Retries
    <3>2. manager' \in Manager
      BY <2>2, ConfType, BuiltManager DEF initComponents
    <3>3. 0 <= manager'.maxRetries
      BY <3>2 DEF Manager
    <3>4. QED BY <3>1, <3>2, <3>3 DEF Retries, RetryInv, Heard, loop
  <2>3. CASE Retry
    <3>1. RetryInv'
      BY <2>3, RetryKeepsInv DEF Retry, Retries
    <3>2. stage' = "built"
      BY <2>3 DEF Retry
    <3>3. QED BY <3>1, <3>2 DEF Retries
  <2>4. CASE UNCHANGED vars
    BY <2>4 DEF vars, loop, Retries, RetryInv, Heard, calculateBackoff
  <2>5. QED BY <2>1, <2>2, <2>3, <2>4 DEF Next
<1>3. QED BY <1>1, <1>2, DerivedInvariant, PTL DEF Spec

\* What a step does to the retry manager.
LEMMA RetryMoves == [Next]_vars => RetryNext \/ UNCHANGED loop
BY DEF Next, SetDefaults, Validate, initComponents, Retry, vars

\* For every number of retries: a cancellation keeps every later operation from
\* beginning, except the one that was about to be called when it came.
THEOREM CancelsAreHeard == Spec => []CancelHeard
<1>1. Retries => CancelHeard
  <2> SUFFICES ASSUME Retries PROVE CancelHeard
    OBVIOUS
  <2>1. Heard /\ cancelledAt \in {"none", "check", "begin", "run", "sleep"}
    BY DEF Retries, RetryInv
  <2>2. QED BY <2>1 DEF Heard, CancelHeard
<1>2. QED BY <1>1, RetriesInvariant, PTL

\* For every number of retries and every interval, each sleep of a call is as long as
\* the one before at least, as the interval unless that exceeds thirty seconds, and
\* never longer than thirty seconds.
THEOREM SleepsNeverShrink == Spec => BackoffGrows
<1> DEFINE Grows == at = "run" /\ at' = "sleep"
                       => /\ backoff' <= MaxBackoff
                          /\ backoff' >= backoff
                          /\ backoff' >= Least(manager.retryInterval, MaxBackoff)
<1>1. Retries /\ [Next]_vars => [Grows]_<<manager, loop>>
  <2> SUFFICES ASSUME Retries, [Next]_vars PROVE Grows
    OBVIOUS
  <2>1. CASE RetryNext
    BY <2>1, SleepsGrow DEF Retries
  <2>2. CASE UNCHANGED loop
    BY <2>2 DEF loop
  <2>3. QED BY <2>1, <2>2, RetryMoves
<1>2. QED BY <1>1, RetriesInvariant, PTL DEF Spec, BackoffGrows

--------------------------------------------------------------------------------
(* The threshold of the breaker that is built. *)

\* The float32 is normal, and within half a unit of the threshold.
LEMMA FloatIsNearest ==
    ASSUME NEW t \in Nat, 10 <= t, t <= 90
    PROVE  \E m \in Nat, k \in Nat, p \in Nat :
              /\ Float32(t) = <<m, k>> /\ 2^k = p
              /\ 24 <= k /\ k <= 27 /\ 16777216 <= p
              /\ 8388608 <= m /\ m < 16777216
              /\ t * p <= 100 * m + 50 /\ 100 * m <= t * p + 50
<1>1. 2^24 = 16777216 /\ 2^25 = 33554432 /\ 2^26 = 67108864 /\ 2^27 = 134217728
  OBVIOUS
<1> DEFINE Round(x) == LET q == x \div 100
                           r == x % 100
                       IN IF r > 50 \/ (r = 50 /\ q % 2 = 1) THEN q + 1 ELSE q
<1>2. ASSUME NEW x \in Nat
      PROVE  Round(x) \in Nat /\ x <= 100 * Round(x) + 50 /\ 100 * Round(x) <= x + 50
  OBVIOUS
<1> HIDE DEF Round
<1>3. ASSUME NEW k \in {24, 25, 26, 27}, NEW p \in Nat, 2^k = p,
             Float32(t) = <<Round(t * 2^k), k>>,
             838860800 <= t * p, t * p < 1677721550, 16777216 <= p
      PROVE  \E m \in Nat, j \in Nat, q \in Nat :
                /\ Float32(t) = <<m, j>> /\ 2^j = q
                /\ 24 <= j /\ j <= 27 /\ 16777216 <= q
                /\ 8388608 <= m /\ m < 16777216
                /\ t * q <= 100 * m + 50 /\ 100 * m <= t * q + 50
  <2> DEFINE x == t * p
             m == Round(x)
  <2>1. x \in Nat /\ 838860800 <= x /\ x < 1677721550
    BY <1>3
  <2>2. m \in Nat /\ x <= 100 * m + 50 /\ 100 * m <= x + 50
    BY <1>2, <2>1
  <2>3. Float32(t) = <<m, k>>
    BY <1>3
  <2> HIDE DEF m
  <2>4. x \in Nat => 8388608 <= m /\ m < 16777216
    <3> HIDE DEF x
    <3>1. QED BY <2>1, <2>2
  <2>5. k \in Nat /\ 24 <= k /\ k <= 27
    OBVIOUS
  <2>6. QED BY <1>3, <2>1, <2>2, <2>3, <2>4, <2>5
<1>4. CASE t >= 50
  <2>1. Float32(t) = <<Round(t * 2^24), 24>>
    BY <1>4 DEF Float32, Round
  <2>2. 838860800 <= t * 16777216 /\ t * 16777216 < 1677721550
    BY <1>4
  <2>3. QED BY <1>1, <1>3, <2>1, <2>2
<1>5. CASE 25 <= t /\ t < 50
  <2>1. Float32(t) = <<Round(t * 2^25), 25>>
    BY <1>5 DEF Float32, Round
  <2>2. 838860800 <= t * 33554432 /\ t * 33554432 < 1677721550
    BY <1>5
  <2>3. QED BY <1>1, <1>3, <2>1, <2>2
<1>6. CASE 13 <= t /\ t < 25
  <2>1. Float32(t) = <<Round(t * 2^26), 26>>
    BY <1>6 DEF Float32, Round
  <2>2. 838860800 <= t * 67108864 /\ t * 67108864 < 1677721550
    BY <1>6
  <2>3. QED BY <1>1, <1>3, <2>1, <2>2
<1>7. CASE t < 13
  <2>1. Float32(t) = <<Round(t * 2^27), 27>>
    BY <1>7 DEF Float32, Round
  <2>2. 838860800 <= t * 134217728 /\ t * 134217728 < 1677721550
    BY <1>7
  <2>3. QED BY <1>1, <1>3, <2>1, <2>2
<1>8. QED BY <1>4, <1>5, <1>6, <1>7

LEMMA InRange == ASSUME NEW a \in Int, NEW b \in Int, NEW x \in a..b PROVE a <= x /\ x <= b
OBVIOUS

\* The breaker gets the threshold that was written, or the default one.
LEMMA BuiltThreshold ==
    ASSUME Derived, stage = "built"
    PROVE  LET t == OrThreshold(written.threshold) IN
           t \in Nat /\ 10 <= t /\ t <= 90 /\ threshold = Float32(t)
<1> DEFINE t == OrThreshold(written.threshold)
           b == setDefaultConfig(written)
           d == applyImplicitDefaults(b)
<1>1. written \in Config /\ b \in Config
  BY WrittenConfigs, DefaultsType, ConfigAssumption DEF WrittenTypes, Derived
<1>2. t \in Nat
  BY WrittenConfigs, ConfigAssumption DEF WrittenTypes, Derived, OrThreshold
<1>3. Defaulted(written, b) /\ ImplicitlyDefaulted(b, d)
  BY <1>1, DefaultsFields, ImplicitDefaultsFields
<1>4. validateNumericRanges(d) /\ conf = d /\ threshold = Float32(OrThreshold(conf.threshold))
  BY DEF Derived, ValidateConfig
<1> HIDE DEF b, d
<1>5. OrThreshold(t) = t
  BY DEF OrThreshold
<1> HIDE DEF t
<1>6. b.threshold = t /\ d.threshold = OrThreshold(b.threshold)
  BY <1>3 DEF Defaulted, ImplicitlyDefaulted, t
<1>7. d.threshold = t /\ OrThreshold(d.threshold) = t
  BY <1>5, <1>6
<1>8. d.threshold \in 10..90
  BY <1>4, Zenon DEF validateNumericRanges
<1>9. 10 <= d.threshold /\ d.threshold <= 90
  BY <1>8, InRange, 10 \in Int, 90 \in Int
<1>10. QED BY <1>2, <1>4, <1>7, <1>9 DEF t

\* A fraction whose error is half a unit in the last place is on the right side of
\* every rate of few enough outcomes.
LEMMA Comparison ==
    ASSUME NEW t \in Nat, NEW m \in Nat, NEW p \in Nat, NEW n \in Nat, NEW f \in Nat,
           t * p <= 100 * m + 50, 100 * m <= t * p + 50, 50 * n < p
    PROVE  /\ f * 100 > t * n => f * p >= m * n
           /\ f * 100 < t * n => f * p < m * n
<1>1. ASSUME f * 100 > t * n PROVE f * p >= m * n
  <2>1. t * n + 1 <= f * 100
    BY <1>1
  <2>2. (t * n + 1) * p <= (f * 100) * p
    BY <2>1, ProductOrder
  <2>3. (100 * m) * n <= (t * p + 50) * n
    BY ProductOrder
  <2>4. (t * n + 1) * p = t * n * p + p /\ (t * p + 50) * n = t * n * p + 50 * n
    OBVIOUS
  <2>5. (f * 100) * p = 100 * (f * p) /\ (100 * m) * n = 100 * (m * n)
    OBVIOUS
  <2>6. f * p \in Nat /\ m * n \in Nat /\ t * n * p \in Nat
    OBVIOUS
  <2>7. QED BY <2>2, <2>3, <2>4, <2>5, <2>6
<1>2. ASSUME f * 100 < t * n PROVE f * p < m * n
  <2>1. f * 100 + 1 <= t * n
    BY <1>2
  <2>2. (f * 100 + 1) * p <= (t * n) * p
    BY <2>1, ProductOrder
  <2>3. (t * p) * n <= (100 * m + 50) * n
    BY ProductOrder
  <2>4. (f * 100 + 1) * p = 100 * (f * p) + p /\ (100 * m + 50) * n = 100 * (m * n) + 50 * n
    OBVIOUS
  <2>5. (t * n) * p = (t * p) * n
    OBVIOUS
  <2>6. f * p \in Nat /\ m * n \in Nat /\ (t * p) * n \in Nat
    OBVIOUS
  <2>7. QED BY <2>2, <2>3, <2>4, <2>5, <2>6
<1>3. QED BY <1>1, <1>2

\* Whatever threshold is accepted, and for windows of up to 300000 outcomes, the
\* breaker trips at every rate above the threshold and at none below it.
THEOREM ThresholdKept == ASSUME MaxCalls <= 300000 PROVE Spec => []ThresholdHonoured
<1>1. Derived => ThresholdHonoured
  <2> DEFINE t == OrThreshold(written.threshold)
  <2> SUFFICES ASSUME Derived, stage = "built", NEW n \in 1..MaxCalls, NEW f \in 0..n
               PROVE  /\ f * 100 > t * n => Trips(f, n)
                      /\ f * 100 < t * n => ~Trips(f, n)
    BY DEF ThresholdHonoured
  <2>1. t \in Nat /\ 10 <= t /\ t <= 90 /\ threshold = Float32(t)
    BY BuiltThreshold
  <2> HIDE DEF t
  <2>2. PICK m \in Nat, k \in Nat, p \in Nat :
              /\ Float32(t) = <<m, k>> /\ 2^k = p
              /\ 24 <= k /\ k <= 27 /\ 16777216 <= p
              /\ 8388608 <= m /\ m < 16777216
              /\ t * p <= 100 * m + 50 /\ 100 * m <= t * p + 50
    BY <2>1, FloatIsNearest, SMT
  <2>3. n \in Nat /\ f \in Nat /\ n <= 300000
    BY ConfigAssumption, SMT
  <2>4. 50 * n < p
    BY <2>2, <2>3, SMT
  <2>5. /\ f * 100 > t * n => f * p >= m * n
        /\ f * 100 < t * n => f * p < m * n
    BY <2>1, <2>2, <2>3, <2>4, Comparison, SMT
  <2>6. threshold[1] = m /\ 2^threshold[2] = p
    BY <2>1, <2>2, SMT
  <2>7. Trips(f, n) <=> f * p >= m * n
    BY <2>6, SMT DEF Trips
  <2>8. f * p \in Nat /\ m * n \in Nat
    BY <2>2, <2>3, SMT
  <2> HIDE DEF Trips
  <2>9. f * p < m * n => ~(f * p >= m * n)
    BY <2>8, SMT
  <2>10. QED BY <2>5, <2>7, <2>9
<1>2. QED BY <1>1, DerivedInvariant, PTL

--------------------------------------------------------------------------------
(* The namespaces. *)

LEMMA NthOfInterval == ASSUME NEW n \in Nat, NEW j \in 1..n PROVE Nth(1..n, j) = j
<1> DEFINE Rank(i) == Cardinality({h \in 1..n : h <= i})
<1>1. ASSUME NEW i \in 1..n PROVE Rank(i) = i
  <2>1. {h \in 1..n : h <= i} = 1..i
    OBVIOUS
  <2>2. Cardinality(1..i) = i
    BY FS_Interval
  <2>3. QED BY <2>1, <2>2
<1>2. Nth(1..n, j) = CHOOSE i \in 1..n : Rank(i) = j
  BY DEF Nth
<1> HIDE DEF Rank
<1>3. \E i \in 1..n : Rank(i) = j
  BY <1>1
<1> DEFINE chosen == CHOOSE i \in 1..n : Rank(i) = j
<1>4. chosen \in 1..n /\ Rank(chosen) = j
  BY <1>3
<1> HIDE DEF chosen
<1>5. chosen = j
  BY <1>1, <1>4
<1>6. QED BY <1>2, <1>5 DEF chosen

\* A sequence without empty names keeps all of them.
LEMMA PresentKeepsAll ==
    ASSUME NEW n \in Nat, NEW S, NEW names \in [1..n -> S], Empty \notin S
    PROVE  Present(names) = names
<1>1. {i \in DOMAIN names : names[i] # Empty} = 1..n
  OBVIOUS
<1>2. Cardinality(1..n) = n
  BY FS_Interval
<1>3. Present(names) = [j \in 1..n |-> names[Nth(1..n, j)]]
  BY <1>1, <1>2 DEF Present
<1>4. \A j \in 1..n : names[Nth(1..n, j)] = names[j]
  BY NthOfInterval
<1>5. QED BY <1>3, <1>4

\* What a configuration that is built says of namespaces.
LEMMA BuiltNames ==
    ASSUME Derived, stage = "built"
    PROVE  /\ conf.namespace \in Names
           /\ conf.service.namespace \in OptionalNames
           /\ ~conf.service.present => conf.service.namespace = Empty
           /\ \E n \in Nat : conf.service.additional \in [1..n -> OptionalNames]
<1> DEFINE b == setDefaultConfig(written)
           d == applyImplicitDefaults(b)
<1>1. written \in Config /\ b \in Config
  BY WrittenConfigs, DefaultsType, ConfigAssumption DEF WrittenTypes, Derived
<1>2. Defaulted(written, b) /\ ImplicitlyDefaulted(b, d)
  BY <1>1, DefaultsFields, ImplicitDefaultsFields
<1>3. conf = d
  BY DEF Derived
<1> HIDE DEF b, d
<1>4. conf.namespace = OrName(written.namespace, "application") /\ conf.service = written.service
  BY <1>2, <1>3 DEF Defaulted, ImplicitlyDefaulted
<1>5. written.namespace \in OptionalNames /\ written.service \in Services \union {NoService}
  BY <1>1 DEF Config
<1>6. conf.namespace \in Names
  BY <1>4, <1>5, ConfigAssumption DEF OrName, OptionalNames
<1>7. ASSUME NEW s \in Services
      PROVE  /\ s.namespace \in OptionalNames /\ s.present
             /\ \E n \in Nat : s.additional \in [1..n -> OptionalNames]
  <2>1. PICK name \in OptionalNames, m \in {Empty, "known", "unknown"},
             a \in UNION {[1..n -> OptionalNames] : n \in 0..MaxAdditional} :
                s = [present |-> TRUE, namespace |-> name, mergeStrategy |-> m, additional |-> a]
    BY DEF Services
  <2>2. PICK n \in 0..MaxAdditional : a \in [1..n -> OptionalNames]
    OBVIOUS
  <2>3. n \in Nat
    BY ConfigAssumption
  <2>4. s.namespace = name /\ s.present /\ s.additional = a
    BY <2>1
  <2>5. QED BY <2>2, <2>3, <2>4
<1>8. /\ NoService.namespace = Empty /\ ~NoService.present
      /\ NoService.additional \in [1..0 -> OptionalNames]
  BY DEF NoService
<1>9. CASE written.service \in Services
  BY <1>4, <1>6, <1>7, <1>9
<1>10. CASE written.service = NoService
  BY <1>4, <1>6, <1>8, <1>10, 0 \in Nat DEF OptionalNames
<1>11. QED BY <1>5, <1>9, <1>10

\* For any namespaces and any list of additional ones, what is loaded is what is
\* watched, in the same order, and nothing without a name is.
THEOREM SourcesAreTargets == Spec => []SourcesMatchTargets
<1>1. Derived => SourcesMatchTargets
  <2> SUFFICES ASSUME Derived, stage = "built"
               PROVE  /\ GetConfigSources = GetConfigWatchTargets
                      /\ \A i \in DOMAIN GetConfigSources : GetConfigSources[i] # Empty
    BY DEF SourcesMatchTargets
  <2> DEFINE own == conf.namespace
             of == conf.service.namespace
             more == conf.service.additional
             Name(n) == OrName(OrName(n, of), own)
             main == OrName(OrName(of, own), "application")
             names == [i \in DOMAIN more |-> Name(more[i])]
  <2>1. PICK n \in Nat : more \in [1..n -> OptionalNames]
    BY BuiltNames
  <2>2. /\ own \in Names /\ of \in OptionalNames
        /\ ~conf.service.present => of = Empty
    BY BuiltNames
  <2>3. Empty \notin Names
    BY ConfigAssumption
  <2>4. ASSUME NEW x \in OptionalNames
        PROVE  Name(x) \in Names /\ GetConfig(Name(x)) = Name(x)
    BY <2>2, <2>3 DEF OrName, OptionalNames, GetConfig
  <2>5. main \in Names /\ getMainConfigSource = main
    BY <2>2, <2>3 DEF OrName, OptionalNames, GetConfig, getMainConfigSource
  <2>6. names \in [1..n -> Names]
    BY <2>1, <2>4
  <2>7. getAdditionalConfigSources = names
    BY <2>1, <2>4 DEF getAdditionalConfigSources
  <2>8. GetConfigWatchTargets = <<main>> \o Present(names)
    BY DEF GetConfigWatchTargets
  <2> HIDE DEF names, main
  <2>9. Present(names) = names
    BY <2>3, <2>6, PresentKeepsAll
  <2>10. GetConfigSources = <<main>> \o names /\ GetConfigSources = GetConfigWatchTargets
    BY <2>5, <2>7, <2>8, <2>9 DEF GetConfigSources
  <2>11. <<main>> \o names \in Seq(Names)
    <3>1. names \in Seq(Names) /\ <<main>> \in Seq(Names)
      BY <2>5, <2>6, SeqDef
    <3>2. QED BY <3>1, ConcatProperties
  <2>12. \A i \in DOMAIN GetConfigSources : GetConfigSources[i] \in Names
    BY <2>10, <2>11, LenProperties, ElementOfSeq
  <2>13. QED BY <2>3, <2>10, <2>12
<1>2. QED BY <1>1, DerivedInvariant, PTL

--------------------------------------------------------------------------------
(* The types. *)

\* Every configuration is one of the known stages, its fields are in range, and the
\* threshold of a breaker that is built is a normal float32.
THEOREM ConfigTypeCorrect == Spec => []TypeOK
<1>1. Derived /\ Retries => TypeOK
  <2> SUFFICES ASSUME Derived, Retries PROVE TypeOK
    OBVIOUS
  <2>1. RetryTypeOK
    <3>1. RetryInv
      BY DEF Retries
    <3>2. manager.maxRetries \in Nat /\ MaxBackoff \in Nat
      BY <3>1 DEF RetryInv, Manager, MaxBackoff
    <3>3. attempt \in 0..manager.maxRetries /\ backoff \in 0..MaxBackoff
      BY <3>1, <3>2 DEF RetryInv
    <3>4. QED BY <3>1, <3>3, Zenon DEF RetryInv, RetryTypeOK, Heard
  <2>2. stage = "built" => threshold \in Floats
    <3> SUFFICES ASSUME stage = "built" PROVE threshold \in Floats
      OBVIOUS
    <3> DEFINE t == OrThreshold(written.threshold)
               mantissas == 2^23..2^24 - 1
               exponents == 24..27
    <3>1. t \in Nat /\ 10 <= t /\ t <= 90 /\ threshold = Float32(t)
      BY BuiltThreshold
    <3> HIDE DEF t
    <3>2. PICK m \in Nat, k \in Nat, p \in Nat :
                /\ Float32(t) = <<m, k>> /\ 2^k = p
                /\ 24 <= k /\ k <= 27 /\ 16777216 <= p
                /\ 8388608 <= m /\ m < 16777216
                /\ t * p <= 100 * m + 50 /\ 100 * m <= t * p + 50
      BY <3>1, FloatIsNearest, SMT
    <3>3. 2^23 = 8388608 /\ 2^24 - 1 = 16777215
      BY SMT
    <3>4. m \in mantissas
      BY <3>2, <3>3, SMT
    <3>5. k \in exponents
      BY <3>2, SMT
    <3> HIDE DEF mantissas, exponents
    <3>6. threshold \in mantissas \X exponents
      BY <3>1, <3>2, <3>4, <3>5, SMT
    <3>7. QED BY <3>6 DEF mantissas, exponents, Floats
  <2>3. /\ conf \in Config
        /\ conf.timeout \in Timeouts \union {Unset, 10000}
        /\ conf.threshold \in Thresholds \union {0, 50}
    BY ConfType
  <2>4. conf.namespace \in OptionalNames
    BY <2>3 DEF Config
  <2>5. stage \in {"scanned", "defaulted", "rejected", "accepted", "built"}
    BY DEF Derived
  <2>6. QED BY <2>1, <2>2, <2>3, <2>4, <2>5, SMT DEF TypeOK
<1>2. QED BY <1>1, DerivedInvariant, RetriesInvariant, PTL
================================================================================
