CONSTANTS
    k1 = k1
    k2 = k2
    c1 = c1
    c2 = c2
    Key = {k1, k2}
    Garbage = Garbage
    Conn = {c1}
    Lists <- OneList
    RetryLists <- HonestRetryLists
    FeatureSets <- AllFeatures
    MaxRotations = 4
    MaxRejections = 5

SPECIFICATION Spec

INVARIANT AtMostThreeRetries

CHECK_DEADLOCK FALSE
