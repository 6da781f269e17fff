SPECIFICATION Spec
CONSTANTS
    Fault <- MCFault
    Component = {"gadget"}
    LIMIT = 2
    MaxErrors = 4
INVARIANTS
    SentOnce
    NoneMissed
    EarlierWins
CHECK_DEADLOCK FALSE
