CONSTANTS
    Starters = {s1}
    Cancellable = {}
    Expirable = {}
    Faults = {}
    ClientTimeout = 10
    MaxReleases = 1
SPECIFICATION Spec
PROPERTY TimeoutIsNoError
CHECK_DEADLOCK FALSE
