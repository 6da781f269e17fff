SPECIFICATION Spec
CONSTANTS
    Line <- MCLine
    LineLength <- MCLineLength
    BATCH_SIZE = 6
    SEP = 1
    Enabled = TRUE
    MaxLines = 6
INVARIANTS
    BeaconBounded
PROPERTY
    DeliverySpec
CHECK_DEADLOCK FALSE
