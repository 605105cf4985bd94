CONSTANTS
    Readers = {r1}
    Probers = {p1}
    MaxRetries = 1
    Outages = TRUE
    Moves = TRUE
    ThresholdNum = 1
    ThresholdDen = 2
    Window = 2
    OpenPeriod = 1
    MaxEvents = 2
SPECIFICATION FairSpec
INVARIANT TypeOK
PROPERTY ReadsBackInTime
PROPERTY CallsReturn
PROPERTY ReadsSucceedAgain
