SPECIFICATION FairSpec
CONSTANTS
    ServerLists <- MCServerLists
    TxId <- MCTxId
INVARIANTS LookupInv InBounds FirstServerWins BootstrapUsable
PROPERTIES LookupAdvances LookupEnds
CHECK_DEADLOCK FALSE
