\* A user beside one owner, or beside two whose calls overlap.
SPECIFICATION BoundedSpec
CONSTANTS
    Owners = {o1, o2}
    First = o1
    Users = {u1}
    MaxStarts = 2
    MaxSubs = 2
    SlowCallback = TRUE
    StartFails = TRUE
INVARIANTS TypeOK OneSpinner QuietWhenStopped HandlesCurrent DeliveryReady
PROPERTIES ImplementsSession StopReturns
CHECK_DEADLOCK FALSE
