CONSTANTS
    Host = {"h1"}
    FailureLimit = 5
    MinAttempts = 10
    MinRate = 30
    MaxTotal = 12

SPECIFICATION Spec

INVARIANTS
    MonitorTypeOK
    CountersAgree
    DisabledOnEvidence
    VerdictMatchesResults

PROPERTIES
    FailureNeverReadmits
    SuccessDisablesOnlyWhenTheRateFirstCounts
