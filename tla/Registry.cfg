CONSTANTS
    Calls = {w1, w2}
    Namespaces = {n1, n2}
    None = None
    CallbackDoes = {"evict", "watch", "stop"}
    UserStops = TRUE
    MaxStartups = 2
SPECIFICATION FairSpec
INVARIANT TypeOK
INVARIANT OneLoopPerNamespace
INVARIANT NoCallbackAfterStop
INVARIANT NoSpuriousRetry
INVARIANT ListedWatches
PROPERTY CleanupCompletes
CHECK_DEADLOCK FALSE
