SPECIFICATION Spec
CONSTANTS
    MaxSent = 3
    BufSize = 2
    Room = 1
INVARIANTS Unmodified
CHECK_DEADLOCK FALSE
