CONSTANTS
    Savers = {s1, s2}
    Loaders = {l1}
    GoodPassphrases = {g1}
    LongPassphrases = {}
    ShortPassphrases = {b1}
    NoKey = NoKey
SPECIFICATION Spec
INVARIANT SavedStaysComplete
CHECK_DEADLOCK FALSE
