CONSTANTS
    ChanCap = 1
    MaxMsgs = 2
    MaxOps = 2
    MaxProbes = 1
SPECIFICATION FairSpec
INVARIANTS MessagesInOrder
PROPERTIES NoReplyMissed ClientIsClosed
CHECK_DEADLOCK FALSE
