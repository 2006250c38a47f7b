CONSTANTS
    a = a
    b = b
    tv1 = tv1
    tv2 = tv2
    None = None
    Callers = {a, b}
    Configs = {tv1, tv2}
    Requests <- ApartRequests
    Reports = {}
    MaxCalls = 1
SPECIFICATION FairSpec
PROPERTIES EveryCallReturns
CHECK_DEADLOCK FALSE
