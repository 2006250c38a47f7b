CONSTANTS
    MaxMsgs = 3
    MaxOps = 2
SPECIFICATION FairSpec
INVARIANTS FramesWhole ReadyWasEarned
PROPERTIES SuccessHasNoGap ImplementsView CloseEndsReader RequestsFinished
CHECK_DEADLOCK FALSE
