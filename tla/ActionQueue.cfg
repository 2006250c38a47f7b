CONSTANTS
    up = up
    down = down
    Actions = {up, down}
    QueueCap = 2
    MaxPresses = 4
SPECIFICATION FairSpec
INVARIANTS SentOnceInOrder DepthIsExact StatusSettles
PROPERTIES ComesToRest
CHECK_DEADLOCK FALSE
