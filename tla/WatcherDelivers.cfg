CONSTANTS
    Starters = {s1, s2}
    Cancellable = {s1, s2}
    Expirable = {}
    Faults = {"poll"}
    ClientTimeout = 60
    MaxReleases = 3
SPECIFICATION ServedSpec
INVARIANT AnnouncedIsHanded
PROPERTY ReleasesArrive
PROPERTY FeedSpec
CHECK_DEADLOCK FALSE
