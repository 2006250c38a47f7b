CONSTANTS
    gui = gui
    cli = cli
    old = old
    tv1 = tv1
    tv2 = tv2
    Procs = {gui, cli}
    Targets = {old, tv1, tv2}
    Old = {old}
    None = None
    Torn = Torn
    NumDirs = 2
    MaxOps = 1
SYMMETRY Symmetry
SPECIFICATION Spec
INVARIANTS PrimaryWins
CHECK_DEADLOCK FALSE
