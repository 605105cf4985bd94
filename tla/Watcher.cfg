CONSTANTS
    Starters = {s1, s2}
    Cancellable = {s1}
    Expirable = {s2}
    Faults = {"poll", "reload"}
    ClientTimeout = 10
    MaxReleases = 2
SPECIFICATION FairSpec
INVARIANT TypeOK
INVARIANT QuietAfterStop
PROPERTY StopReturns
PROPERTY NextUnblocks
PROPERTY CancelledLoopEnds
CHECK_DEADLOCK FALSE
