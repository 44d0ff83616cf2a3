CONSTANTS
    Savers = {s1, s2, s3}
    Loaders = {l1}
    GoodPassphrases = {g1, g2}
    LongPassphrases = {g2}
    ShortPassphrases = {b1}
    NoKey = NoKey
SPECIFICATION Spec
SYMMETRY Symmetry
INVARIANT IInv
INVARIANT SavedNeverReplaced
INVARIANT OnlyWithdrawnKeysMix
PROPERTY PartialStoreIsFinal
PROPERTY OnlyOwnerUnlinksSm2
CHECK_DEADLOCK FALSE
