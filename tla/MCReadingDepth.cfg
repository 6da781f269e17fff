SPECIFICATION Spec
CONSTANTS
    NULL = NULL
    MaxNow = 8
INVARIANTS
    VisibleLengthExact
    TimeToChangeExact
CHECK_DEADLOCK FALSE
