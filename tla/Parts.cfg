CONSTANTS
    v1 = v1
    v2 = v2
    tv = tv
    a1 = a1
    a2 = a2
    t1 = t1
    t2 = t2
    kPower = kPower
    kHome = kHome
    None = None
    Services = {v1, v2}
    Instances = {tv}
    Addrs = {a1, a2}
    Texts = {t1, t2}
    MaxEntries = 2
    NvFlags <- SomeNvFlags
    WakeFlags <- SomeWakeFlags
    MaxResumes = 1
    MaxTouches = 1
    MaxUnreal = 1
    MaxUnderway = 1
    MaxUnframedSize = 2
    Sizes = {1, 2, 3}
    Messages = 3
SPECIFICATION AllSpec
INVARIANTS RaceOnlyAtEnd ResultsAreRight BlameIsRight ResumeCoversAll
    GuessesAreSound HeldKeyHasCause StreamIsFaithful
PROPERTIES AllEnds
CHECK_DEADLOCK FALSE
