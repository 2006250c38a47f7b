CONSTANTS
    tv1 = tv1
    tv2 = tv2
    Hosts = {tv1, tv2}
    Found = {tv2}
    None = None
    Torn = Torn
    Typed <- SomeTyped
    Stored <- SomeStored
    MaxEvents = 2
    MaxEdits = 2
SPECIFICATION Spec
INVARIANTS ViewIsTrue KeysReachShownTarget
CHECK_DEADLOCK FALSE
