CONSTANTS
    Savers = {s1, s2}
    Loaders = {l1}
    GoodPassphrases = {g1, g2}
    LongPassphrases = {g2}
    ShortPassphrases = {b1}
    OutagePassphrases = {g1}
    NoKey = NoKey
    MaxLosses = 2
SPECIFICATION EnvSpec
INVARIANT NeverMixed
INVARIANT PowerLossIsSafe
PROPERTY CalmCallsSucceed
CHECK_DEADLOCK FALSE
