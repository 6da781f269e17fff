SPECIFICATION ProbeSpec
CONSTANTS
    Target = {t1, t2, t3}
    PULSES = 3
    MaxVisits = 2
INVARIANTS
    ReportComplete
PROPERTY
    EndsUnlessRejected
CHECK_DEADLOCK FALSE
