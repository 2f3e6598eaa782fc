SPECIFICATION Spec
CONSTANTS
    Callers = {c1, c2}
    MaxMoves = 1
    Failures = {}
INVARIANT CancelNeverRaises
