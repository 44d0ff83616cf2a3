CONSTANTS
    Savers = {s1, s2, s3}
    Loaders = {l1, l2}
    GoodPassphrases = {g1, g2}
    LongPassphrases = {g2}
    ShortPassphrases = {b1}
    NoKey = NoKey
SPECIFICATION Spec
SYMMETRY Symmetry
INVARIANT IInv
PROPERTY ImplementsWriteOnce
PROPERTY LeftoverIsFinal
CHECK_DEADLOCK FALSE
