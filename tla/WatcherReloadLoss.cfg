CONSTANTS
    Starters = {s1}
    Cancellable = {}
    Expirable = {}
    Faults = {"reload"}
    ClientTimeout = 10
    MaxReleases = 1
SPECIFICATION Spec
INVARIANT AnnouncedIsHanded
CHECK_DEADLOCK FALSE
