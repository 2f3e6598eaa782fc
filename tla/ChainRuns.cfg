SPECIFICATION Spec

CONSTANTS
    Cases = 2
    Runs = 2

INVARIANTS
    CleanStart
    StatusHonest
    FilesAgree

PROPERTY
    RunsEnd

CHECK_DEADLOCK FALSE
