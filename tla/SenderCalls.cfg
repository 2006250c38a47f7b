CONSTANTS
    a = a
    b = b
    tv1 = tv1
    tv2 = tv2
    None = None
    Callers = {a, b}
    Configs = {tv1, tv2}
    Requests <- MixedRequests
    Reports = {"off"}
    MaxCalls = 1
SPECIFICATION Spec
INVARIANTS NoLeakedConnection SessionMatchesConfig WritesReachOwnTarget RetryOnFreshConnection OneWriteAfterCancel
PROPERTIES ImplementsContract ConnectionsAsViewed
CHECK_DEADLOCK FALSE
