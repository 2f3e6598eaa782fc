\* One run of one case.
SPECIFICATION Spec

CONSTANTS
    Cases = 1
    Runs = 1

INVARIANT NotesTrue

CHECK_DEADLOCK FALSE
