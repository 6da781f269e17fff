SPECIFICATION StatsdSpec
CONSTANTS
    UNDEFINED = UNDEFINED
    NAN = NAN
    TEXT = TEXT
    INF = INF
    NONE = NONE
    Number <- MCNumber
    Buckets <- MCBuckets
    MAX_BUCKETS = 3
    BatchSize = 9
    LineSize = 2
    MaxCalls = 3
INVARIANTS
    HistogramCumulative
    CounterAccurate
CHECK_DEADLOCK FALSE
