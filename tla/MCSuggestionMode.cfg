SPECIFICATION SSpec
CONSTANTS
    NONE = NONE
    Provided = FALSE
    MaxAttempts = 2
    MaxIds = 3
    MaxUses = 1
    MaxNow = 3
    QUALIFY = 1
INVARIANTS
    AttemptsKeepApart
    OpenedOnce
    UsesLoggedOnce
    OneOutcome
    FunnelJoins
PROPERTIES
    AbortTypeRight
    DurationWithinAttempt
    QualifiedRight
CHECK_DEADLOCK FALSE
