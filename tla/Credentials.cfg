CONSTANTS
    a = a
    b = b
    k1 = k1
    k2 = k2
    k3 = k3
    id1 = id1
    id2 = id2
    old = old
    None = None
    Procs = {a, b}
    Pairs = {k1, k2, k3}
    AtvPairs = {k1, k2, k3, old}
    Old = {old}
    Ids = {id1, id2}
    Absent = Absent
    Torn = Torn
    NumDirs = 2
    MaxOps = 2
SYMMETRY Symmetry
SPECIFICATION FilesSpec
INVARIANTS FallbackOnlyUnpaired StoredPairWorks IdIsPersistent
    NoMixedPair TrustedPairStays AlarmHasCause
CHECK_DEADLOCK FALSE
