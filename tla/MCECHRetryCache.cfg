CONSTANTS
    h1 = h1
    h2 = h2
    h3 = h3
    c1 = c1
    c2 = c2
    Host <- MCHost
    Config <- MCConfig
    NoConfig = NoConfig
    NoReply = NoReply
    Capacity = 2
    TTL = 2
    MaxNow = 4

SPECIFICATION Spec

SYMMETRY Symmetry

INVARIANTS
    CacheTypeOK
    BoundedMap
    HoldsOnlyTheLatest
    KeptUntilCrowdedOut
    OrderedByUse

PROPERTY ImplementsContract
