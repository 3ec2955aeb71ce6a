SPECIFICATION FairSpec
CONSTANTS
    MaxSent = 3
    BufSize = 2
    Room = 1
INVARIANTS InOrder LossHasCause EndsAtEndOfStream IInv
PROPERTIES EofEndsTunnel NoHeadOfLineBlocking
CHECK_DEADLOCK FALSE
