SPECIFICATION FairSpec
CONSTANTS
    TLS_PQKEX_MAX_KEMS = 2
    StrangerHellos <- MCStrangerHellos
INVARIANT ProcessesInv
INVARIANT VerdictIsRight
PROPERTY EndsOnceConnected
CHECK_DEADLOCK FALSE
