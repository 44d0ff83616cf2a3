CONSTANTS
    MaxRuns = 3
    Passphrases = {p1, p2}
    LongPassphrases = {p2}
SPECIFICATION Spec
INVARIANT ChainInv
INVARIANT SuccessIsReusable
PROPERTY StoredKeysAreFinal
PROPERTY StrandedForever
CHECK_DEADLOCK FALSE
