SPECIFICATION RateSpec
CONSTANTS
    Selector <- MCSelector
    ElementOf <- MCElementOf
    Encloses <- MCEncloses
    Scrolled <- MCScrolled
    MaxStarts = 3
INVARIANTS
    SingleGetsClick
    ImpressedOnce
PROPERTY
    ImpressionComes
CHECK_DEADLOCK FALSE
