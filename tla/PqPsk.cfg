SPECIFICATION FairSpec
CONSTANTS
    Ids = {"a", "b"}
    Scenarios <- MCScenarios
INVARIANT AgreementInv
INVARIANT OfferedMeansCertificate
INVARIANT NegotiatedMeansHybrid
INVARIANT StrictNeverFallsBack
INVARIANT FallbackOnlyWithoutMatch
PROPERTY HandshakeEnds
PROPERTY ConfigurationDecides
CHECK_DEADLOCK FALSE
