CONSTANTS
    Stoppers = {s1, s2}
    Readers = {r1}
    FrameworkReads = TRUE
    MaxStarts = 3
SPECIFICATION FairSpec
INVARIANT TypeOK
INVARIANT ClientsAccountedFor
INVARIANT StartedIsUsable
INVARIANT NoReadAfterTeardown
PROPERTY StartReturns
PROPERTY StopTearsDown
CHECK_DEADLOCK FALSE
