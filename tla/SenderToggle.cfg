CONSTANTS
    a = a
    b = b
    tv1 = tv1
    tv2 = tv2
    None = None
    Callers = {a}
    Configs = {tv1}
    Requests <- PowerRequests
    Reports = {"off", "on"}
    MaxCalls = 1
SPECIFICATION Spec
INVARIANTS SingleToggle
CHECK_DEADLOCK FALSE
