CONSTANTS
    MaxEdits = 2
    MaxConnections = 1
    MaxChains = 2
SPECIFICATION HandshakeSpec
INVARIANT ConnectionInv
INVARIANT HybridMeansIssued
INVARIANT SecretReachesSigner
INVARIANT StrictNeverDowngrades
PROPERTY ServesWhileValid
CHECK_DEADLOCK FALSE
