SPECIFICATION Spec
CONSTANTS
    TLS_PQKEX_MAX_KEMS = 2
    StrangerHellos <- MCStrangerHellos
INVARIANT PassNamesTheVector
CHECK_DEADLOCK FALSE
