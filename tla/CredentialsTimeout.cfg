CONSTANTS
    Procs = {cli}
    Pairs = {old, new1, new2}
    Old = {old}
    Absent = Absent
    Torn = Torn
    NumDirs = 2
    MaxOps = 1
SPECIFICATION FairSpec
PROPERTIES PairingTimesOut
CHECK_DEADLOCK FALSE
