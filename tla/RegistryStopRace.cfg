CONSTANTS
    Calls = {w1}
    Namespaces = {n1}
    None = None
    CallbackDoes = {"evict"}
    UserStops = FALSE
    MaxStartups = 1
SPECIFICATION Spec
INVARIANT StopTearsBothDown
CHECK_DEADLOCK FALSE
