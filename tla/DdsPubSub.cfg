SPECIFICATION Spec
CONSTANTS
    Clients = {c1, c2}
    MaxSubs = 3
    Twins = {1, 2}
    MaxListeners = 2
    MaxBatch = 2
INVARIANTS ActiveDelivers
PROPERTIES UnsubscribeHolds ImplementsContract
