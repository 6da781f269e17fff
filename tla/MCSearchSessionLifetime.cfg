SPECIFICATION Spec
CONSTANTS
    Tab = {t1, t2}
    Kinds <- PageKind
    NULL = NULL
    MISSING = MISSING
    Test = {a, b}
    TTL = 2
    Failures <- NoFailure
    MaxSessions = 2
    MaxNow = 5
SYMMETRY Symmetry
INVARIANT
    SearchResetsLifetime
