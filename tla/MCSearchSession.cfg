SPECIFICATION Spec
CONSTANTS
    Tab = {t1, t2}
    Kinds <- MCKinds
    NULL = NULL
    MISSING = MISSING
    Test = {a, b}
    TTL = 2
    Failures <- MCFailures
    MaxSessions = 2
    MaxNow = 3
SYMMETRY Symmetry
INVARIANTS
    LoggersAgree
    NoEventAfterExpiry
    NeverMasquerades
PROPERTY
    LostForGood
CHECK_DEADLOCK FALSE
