SPECIFICATION Spec
CONSTANTS
    Edit = {e1, e2}
    NONE = NONE
    INTERVAL = 3
    THRESHOLD = 4
    Start = 7
    MaxNow = 17
SYMMETRY Symmetry
INVARIANTS
    ReportedOnce
    NoneMissed
    ReportedSurvived
CHECK_DEADLOCK FALSE
