CONSTANTS
    k1 = k1
    k2 = k2
    c1 = c1
    c2 = c2
    Key = {k1, k2}
    Garbage = Garbage
    Conn = {c1, c2}
    Lists <- MCLists
    RetryLists <- MCRetryLists
    FeatureSets <- SomeFeatures
    MaxRotations = 1
    MaxRejections = 2

SPECIFICATION Spec

SYMMETRY Symmetry

INVARIANTS
    SSLTypeOK
    GreaseExactlyWhenEnabled
    SamplesAreConsistent
    OffersWhatWasPrepared
    RetriesBoundedByRotations

CHECK_DEADLOCK FALSE
