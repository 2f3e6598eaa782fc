SPECIFICATION Spec

CONSTANTS
    Edits = 2

INVARIANT
    VerdictsCaught

CHECK_DEADLOCK FALSE
