SPECIFICATION Spec

CONSTANTS
    Edits = 2

INVARIANTS
    ClaimsCaught
    CitesHold
    ChainsApart

CHECK_DEADLOCK FALSE
