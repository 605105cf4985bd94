------------------------------ MODULE PluginConfig ------------------------------
(***************************************************************************)
(* The plugin's configuration: the defaults and the validation of          *)
(* InitializeResources (apollo.go, validator.go), the components built     *)
(* from what was accepted, and the namespaces that GetConfigSources and    *)
(* GetConfigWatchTargets (config.go) make of it.                           *)
(*                                                                         *)
(* Durations are milliseconds, the threshold is in hundredths; Unset is a  *)
(* nil duration, 0 an omitted threshold and Empty an omitted string. Other *)
(* strings are reduced to the kinds the checks tell apart; names are short *)
(* enough, and shutdown_timeout, which nothing uses, is left out.          *)
(***************************************************************************)
EXTENDS Integers, Sequences, FiniteSets, RetryManager

CONSTANTS
    Timeouts, Intervals,    \* durations tried
    RetryTimes,             \* values of max_retry_times tried
    Thresholds,             \* values of circuit_breaker_threshold tried
    Names,                  \* namespaces
    MaxAdditional,          \* bound: additional namespaces
    MaxCalls                \* bound: outcomes in a window of the breaker

Unset == -1
Empty == "empty"

ASSUME ConfigAssumption ==
    /\ Timeouts \subseteq Nat /\ Intervals \subseteq Nat
    /\ RetryTimes \subseteq Int /\ Thresholds \subseteq Nat
    /\ Empty \notin Names /\ "application" \in Names
    /\ MaxAdditional \in Nat /\ MaxCalls \in Nat

VARIABLES
    written,    \* the configuration as the user wrote it
    conf,       \* p.conf
    stage,      \* "scanned", "defaulted", "rejected", "accepted", "built"
    threshold   \* of the breaker, <<mantissa, exponent>>: see Float32

vars == <<written, conf, stage, threshold, manager, loop>>

NoService == [present |-> FALSE, namespace |-> Empty, mergeStrategy |-> Empty, additional |-> <<>>]

OptionalNames == Names \union {Empty}

\* What most fields have in every configuration tried.
Plain == [appId |-> "valid", metaServer |-> "https", token |-> Empty, logLevel |-> Empty,
          timeout |-> Unset, notificationTimeout |-> Unset,
          retryInterval |-> Unset, maxRetryTimes |-> 0, threshold |-> 0,
          enableCache |-> FALSE, cacheDir |-> FALSE, namespace |-> Empty, service |-> NoService]

WithTimeouts(t, n) == [Plain EXCEPT !.timeout = t, !.notificationTimeout = n]
WithRetries(i, m) == [Plain EXCEPT !.retryInterval = i, !.maxRetryTimes = m]
WithThreshold(t, e, d) == [Plain EXCEPT !.threshold = t, !.enableCache = e, !.cacheDir = d]
WithStrings(a, m, t, l) ==
    [Plain EXCEPT !.appId = a, !.metaServer = m, !.token = t, !.logLevel = l]
WithNamespaces(n, s) == [Plain EXCEPT !.namespace = n, !.service = s]

Services == {[present |-> TRUE, namespace |-> name, mergeStrategy |-> m, additional |-> a] :
                       name \in OptionalNames, m \in {Empty, "known", "unknown"},
                       a \in UNION {[1..n -> OptionalNames] : n \in 0..MaxAdditional}}

Configurations ==
    {WithTimeouts(t, n) : t, n \in Timeouts \union {Unset}}
        \union {WithRetries(i, m) : i \in Intervals \union {Unset}, m \in RetryTimes}
        \union {WithThreshold(t, e, d) : t \in Thresholds \union {0}, e, d \in BOOLEAN}
        \union {WithStrings(a, m, t, l) :
                    a \in {Empty, "valid", "invalid"},
                    m \in {Empty, "https", "http", "unparseable"},
                    t \in {Empty, "short", "valid", "long"},
                    l \in {Empty, "known", "unknown"}}
        \union {WithNamespaces(n, s) :
                    n \in OptionalNames, s \in Services \union {NoService}}

Init == /\ written \in Configurations
        /\ conf = written
        /\ stage = "scanned"
        /\ threshold = <<0, 0>>
        /\ manager = NewRetryManager(0, 0)
        /\ LoopInit

--------------------------------------------------------------------------------
(* Defaults and validation. *)

Or(value, default) == IF value = Unset THEN default ELSE value
OrName(name, default) == IF name = Empty THEN default ELSE name
OrThreshold(t) == IF t = 0 THEN 50 ELSE t

\* Mutant: the main namespace has no default.
setDefaultConfigButName(c) ==
    [c EXCEPT !.timeout = Or(@, 10000), !.notificationTimeout = Or(@, 30000),
              !.cacheDir = TRUE, !.threshold = OrThreshold(@)]

setDefaultConfig(c) ==
    [c EXCEPT !.namespace = OrName(@, "application"),
              !.timeout = Or(@, 10000), !.notificationTimeout = Or(@, 30000),
              !.cacheDir = TRUE, !.threshold = OrThreshold(@)]

\* Mutant: the threshold of a configuration validated on its own stays as it is.
applyNoDefaults(c) == c

\* applyImplicitDefaults, for a configuration that is validated on its own.
applyImplicitDefaults(c) == [c EXCEPT !.threshold = OrThreshold(@)]

\* The Seconds of a duration: its fraction is cut off.
Truncated(d) == (d \div 1000) * 1000

Within(d, least, most) == d = Unset \/ (least <= Truncated(d) /\ Truncated(d) <= most)

validateBasicFields(c) == /\ c.appId = "valid"
                          /\ c.metaServer \in {"https", "http"}
                          /\ c.token \in {Empty, "valid"}

validateEnumValues(c) == /\ c.logLevel \in {Empty, "known"}
                         /\ c.service.present => c.service.mergeStrategy \in {Empty, "known"}

\* The flag on plain HTTP is an error like any other.
validateSecurityConfigs(c) == c.token # "short" /\ c.metaServer # "http"

validateNumericRanges(c) == c.maxRetryTimes \in 0..10 /\ c.threshold \in 10..90

validateTimeConfigs(c) == /\ Within(c.timeout, 1000, 60000)
                          /\ Within(c.notificationTimeout, 5000, 300000)
                          /\ Within(c.retryInterval, 100, 30000)

\* Mutant: equal timeouts pass.
validateDependenciesLoosely(c) ==
    /\ c.timeout # Unset /\ c.notificationTimeout # Unset
          => Truncated(c.timeout) <= Truncated(c.notificationTimeout)
    /\ c.enableCache => c.cacheDir

validateDependencies(c) ==
    /\ c.timeout # Unset /\ c.notificationTimeout # Unset
          => Truncated(c.timeout) < Truncated(c.notificationTimeout)
    /\ c.enableCache => c.cacheDir

\* This check alone looks at the whole duration.
validateNetworkConfigs(c) == c.timeout # Unset => 100 <= c.timeout /\ c.timeout <= 30000

\* ValidateConfig: every check is made; the configuration is valid if none fails.
ValidateConfig(c) ==
    LET d == applyImplicitDefaults(c) IN
    /\ validateBasicFields(d) /\ validateNumericRanges(d) /\ validateEnumValues(d)
    /\ validateTimeConfigs(d) /\ validateDependencies(d)
    /\ validateSecurityConfigs(d) /\ validateNetworkConfigs(d)

SetDefaults == /\ stage = "scanned"
               /\ conf' = setDefaultConfig(conf)
               /\ stage' = "defaulted"
               /\ UNCHANGED <<written, threshold, manager, loop>>

Validate == /\ stage = "defaulted"
            /\ stage' = IF ValidateConfig(conf) THEN "accepted" ELSE "rejected"
            /\ conf' = applyImplicitDefaults(conf)
            /\ UNCHANGED <<written, threshold, manager, loop>>

--------------------------------------------------------------------------------
(* initComponents. *)

\* t hundredths as a float32: the pair <<m, k>> is m / 2^k, the nearest one with
\* 2^23 <= m < 2^24, ties to even.  t in 7..99.
Float32(t) ==
    LET k == CASE t >= 50 -> 24 [] t >= 25 /\ t < 50 -> 25 [] t >= 13 /\ t < 25 -> 26 [] t < 13 -> 27
        x == t * 2^k
        q == x \div 100
        r == x % 100
    IN <<IF r > 50 \/ (r = 50 /\ q % 2 = 1) THEN q + 1 ELSE q, k>>

\* recordFailure's failureRate >= threshold, for f failures of n outcomes; the
\* division is exact enough never to matter.
Trips(f, n) == f * 2^threshold[2] >= threshold[1] * n

\* Mutant: the breaker always gets the default threshold.
initComponentsDefault ==
    /\ stage = "accepted"
    /\ stage' = "built"
    /\ threshold' = Float32(50)
    /\ manager' = NewRetryManager(IF conf.maxRetryTimes > 0 THEN conf.maxRetryTimes ELSE 3,
                                  IF conf.retryInterval > 0 THEN conf.retryInterval ELSE 1000)
    /\ UNCHANGED <<written, conf, loop>>

\* max_retry_times 0, which is allowed, is taken for an omitted one.
initComponents ==
    /\ stage = "accepted"
    /\ stage' = "built"
    /\ threshold' = Float32(OrThreshold(conf.threshold))
    /\ manager' = NewRetryManager(IF conf.maxRetryTimes > 0 THEN conf.maxRetryTimes ELSE 3,
                                  IF conf.retryInterval > 0 THEN conf.retryInterval ELSE 1000)
    /\ UNCHANGED <<written, conf, loop>>

\* What startup demands of the configuration before it builds the client.
initApolloClient(c) == c.metaServer # Empty /\ c.appId # Empty

--------------------------------------------------------------------------------
(* The namespaces, by name; sources and targets hold nothing else that differs. *)

GetConfig(fileName) == OrName(fileName, conf.namespace)

getMainConfigSource ==
    IF conf.service.present
    THEN GetConfig(OrName(conf.service.namespace, conf.namespace))
    ELSE GetConfig(OrName(conf.namespace, "application"))

getAdditionalConfigSources ==
    [i \in DOMAIN conf.service.additional |->
        GetConfig(OrName(OrName(conf.service.additional[i], conf.service.namespace), conf.namespace))]

GetConfigSources == <<getMainConfigSource>> \o getAdditionalConfigSources

\* The j-th smallest of the numbers in S.
Nth(S, j) == CHOOSE i \in S : Cardinality({h \in S : h <= i}) = j

\* The names that are not empty, in their order.
Present(names) ==
    LET present == {i \in DOMAIN names : names[i] # Empty}
    IN [j \in 1..Cardinality(present) |-> names[Nth(present, j)]]

\* Entries that stay empty after both fallbacks are skipped.
GetConfigWatchTargets ==
    LET main == OrName(OrName(conf.service.namespace, conf.namespace), "application")
        Name(n) == OrName(OrName(n, conf.service.namespace), conf.namespace)
        names == [i \in DOMAIN conf.service.additional |-> Name(conf.service.additional[i])]
    IN <<main>> \o Present(names)

--------------------------------------------------------------------------------

\* Once built, the manager retries what it is given.
Retry == /\ stage = "built"
         /\ RetryNext
         /\ UNCHANGED <<written, conf, stage, threshold>>

Next == SetDefaults \/ Validate \/ initComponents \/ Retry

Spec == Init /\ [][Next]_vars

--------------------------------------------------------------------------------
(* Properties. *)

\* Normal floats between 1/16 and 1.
Floats == (2^23..2^24 - 1) \X (24..27)

TypeOK == /\ stage \in {"scanned", "defaulted", "rejected", "accepted", "built"}
          /\ conf.namespace \in OptionalNames
          /\ conf.timeout \in Timeouts \union {Unset, 10000}
          /\ conf.threshold \in Thresholds \union {0, 50}
          /\ stage = "built" => threshold \in Floats
          /\ RetryTypeOK

\* An accepted configuration lets startup build a client, whose timeout is really
\* shorter than the notification timeout and between one and thirty seconds,
\* though most checks see whole seconds only and each of the two may be a default.
AcceptedTimeoutsFit ==
    stage \in {"accepted", "built"} =>
        /\ initApolloClient(conf)
        /\ conf.timeout < conf.notificationTimeout
        /\ 1000 <= conf.timeout /\ conf.timeout <= 30000

\* The plugin accepts what ValidateConfig accepts when called with the
\* configuration as written, "so plugin validation and direct config validation stay
\* consistent" (VALIDATION.md): they differ only where the plugin's default stands
\* in for one of the two timeouts or for the cache directory.
ValidatorsAgree ==
    stage \in {"rejected", "accepted"} =>
        \/ (stage = "accepted") = ValidateConfig(written)
        \/ (written.timeout = Unset) # (written.notificationTimeout = Unset)
        \/ written.enableCache /\ ~written.cacheDir

\* The threshold passes through a float32 and is still the one that was written: the
\* breaker trips at every rate above it and at none below.  At the very rate it
\* may or may not trip.
ThresholdHonoured ==
    stage = "built" =>
        \A n \in 1..MaxCalls : \A f \in 0..n :
            /\ f * 100 > OrThreshold(written.threshold) * n => Trips(f, n)
            /\ f * 100 < OrThreshold(written.threshold) * n => ~Trips(f, n)

\* The namespaces that are loaded are those that are watched, in the same order,
\* whichever of the three places names them; each has a name.
SourcesMatchTargets ==
    stage = "built" =>
        /\ GetConfigSources = GetConfigWatchTargets
        /\ \A i \in DOMAIN GetConfigSources : GetConfigSources[i] # Empty
================================================================================
