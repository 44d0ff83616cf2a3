SPECIFICATION CryptoSpec
CONSTANTS
    PrivateKeys = {s1, s2}
    PublicKeys = {p1, p2}
    Messages = {m1, m2}
    MaxObjects = 4
    ForeignKeys <- MCForeignKeys
    Keys = {0, 1}
    Digests = {0, 1}
    Contexts <- MCContexts
    Nonces = {0, 1}
    Sm2Scalar <- MCSm2Scalar
    COMPOSITE_MAX_CONTEXT_BYTES = 1
    MaxSigned = 2
    MaxKeys = 3
    MaxCiphertexts = 3
INVARIANT ObjectInv
INVARIANT SignatureIsCurrent
INVARIANT VerifiedMeansSigned
INVARIANT OneEncoding
INVARIANT SignedVerifies
INVARIANT KemInv
INVARIANT MatchMeansOneExchange
PROPERTY FailureChangesNoKey
CHECK_DEADLOCK FALSE
