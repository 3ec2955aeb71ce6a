SPECIFICATION FairSpec
CONSTANTS
    Targets <- MCTargets
    Scripts <- AllScripts
INVARIANTS IInv ForwardsPrefix
PROPERTIES NothingStuck CloseEndsThread
CHECK_DEADLOCK FALSE
