CONSTANTS
    Readers = {r1}
    Probers = {p1}
    MaxRetries = 1
    Outages = FALSE
    Moves = FALSE
    ThresholdNum = 1
    ThresholdDen = 2
    Window = 2
    OpenPeriod = 1
    MaxEvents = 3
SPECIFICATION Spec
INVARIANT ProbeIsHarmless
