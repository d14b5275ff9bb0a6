CONSTANTS
    Host = {x, y}
    Conn = {c1, c2}
    Nak = {k}
    NoConfig = NoConfig
    NoReply = NoReply
    Capacity = 2
    TTL = 0
    MaxNow = 1
    FailureLimit = 2
    MinAttempts = 3
    MinRate = 30
    NetworkType <- MCNetworkType
    MaxRotations = 1
    MaxAttempts = 2
    MaxChanges = 1

SPECIFICATION Spec

SYMMETRY Symmetry

INVARIANTS
    ConnectionsTypeOK
    SwitchLeavesNothingOld
    OneOldResultPerConnectionInFlight
    OneOldConfigurationPerConnectionInFlight

PROPERTIES
    EarlyDataGoesStaleOnlyByAStore
    RetriesMoveForward

CHECK_DEADLOCK FALSE
