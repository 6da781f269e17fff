SPECIFICATION Spec
CONSTANTS
    Tab = {t1, t2}
    NONE = NONE
    TICK = 2
    IDLE = 3
    RESET = 7
    DEBOUNCE = 1
    MAX_DELAY = 1
    MaxPending = 2
    MaxNow = 21
SYMMETRY Symmetry
INVARIANTS
    EachTickOnce
    NoDrift
    LimitNeverExceeded
    TickingPageIdlesOut
    CountLag
PROPERTIES
    ResetNeedsQuiet
    QuietEndsSession
