CONSTANTS
    Host = {x, y}
    Conn = {c1}
    Nak = {k}
    NoConfig = NoConfig
    NoReply = NoReply
    Capacity = 1
    TTL = 0
    MaxNow = 0
    FailureLimit = 2
    MinAttempts = 3
    MinRate = 30
    NetworkType <- MCNetworkType
    MaxRotations = 1
    MaxAttempts = 2
    MaxChanges = 1

SPECIFICATION FairSpec

PROPERTIES
    PartsAreImplemented
    ConnectionsEnd

CHECK_DEADLOCK FALSE
