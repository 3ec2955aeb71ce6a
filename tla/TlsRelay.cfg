SPECIFICATION TFairSpec
CONSTANTS
    MaxSent = 5
    MaxTotal = 5
    BufSize = 2
    Room = 2
INVARIANTS TIInv InOrder TLossHasCause HeldComesNext TEndsAtEndOfStream
PROPERTIES BackendEndsRelay BackendIsRead BrowserIsServed
CHECK_DEADLOCK FALSE
