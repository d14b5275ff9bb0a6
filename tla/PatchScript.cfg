CONSTANT
    MaxAnchors = 2

SPECIFICATION Spec

INVARIANTS
    PatchTypeOK
    AtMostOncePerAnchor
    CompleteRunLeavesAll

PROPERTY TextComesAfterTheFiles
