CONSTANTS
    Conn = {"a", "b"}
    MaxScore = 200

SPECIFICATION Spec

INVARIANTS
    InterceptionTypeOK
    InterceptionIsNeverMissed
    JudgedAloneWhenUndisturbed

CHECK_DEADLOCK FALSE
