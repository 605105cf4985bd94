CONSTANTS
    Timeouts = {900, 1000, 4900, 5000, 5900, 10000, 10900, 30000, 30900, 60000}
    Intervals = {50, 100, 999, 1000, 1900, 30000, 30900, 31000}
    RetryTimes = {0, 1, 2, 10, 11}
    Thresholds = {5, 10, 12, 13, 20, 25, 30, 33, 50, 70, 90, 95}
    Names = {"application", "n1", "n2"}
    MaxAdditional = 2
    MaxCalls = 10
SPECIFICATION Spec
INVARIANT TypeOK
INVARIANT AcceptedTimeoutsFit
INVARIANT ValidatorsAgree
INVARIANT ThresholdHonoured
INVARIANT SourcesMatchTargets
INVARIANT CancelHeard
PROPERTY BackoffGrows
CHECK_DEADLOCK FALSE
