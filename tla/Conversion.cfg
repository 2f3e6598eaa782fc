\* Arrays of up to two items, floats of two bytes, every set of installed
\* modules.
SPECIFICATION Spec
CONSTANTS
    MaxItems = 2
    Width = 2
CHECK_DEADLOCK FALSE
INVARIANTS RoundTrip CountsTrue
