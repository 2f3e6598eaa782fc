SPECIFICATION Spec
CONSTANTS
    Cases = 3
    Total = 3
    Warmup = 1
    SharedTopic = TRUE
INVARIANTS OwnRoundTrip Accounting ClosedUntilLate
PROPERTY RunEnds
CHECK_DEADLOCK FALSE
