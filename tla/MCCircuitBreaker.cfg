\* Two callers, four outcomes in the window, threshold 1/2.
CONSTANTS
    Callers = {c1, c2}
    ThresholdNum = 1
    ThresholdDen = 2
    Window <- MCWindow
    OpenPeriod <- MCOpenPeriod
    MaxEvents = 4
SPECIFICATION FairSpec
INVARIANT TypeOK
INVARIANT WindowOrdered
PROPERTY OpensExactlyAtRate
PROPERTY ContractSpec
PROPERTY Recovers
