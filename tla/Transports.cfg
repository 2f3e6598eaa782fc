\* Two threads; a ROSTransport makes at most three DimosROS.
SPECIFICATION Spec
CONSTANTS
    Threads = {t1, t2}
    MaxPubsubs = 3
INVARIANTS ReachesStarted RaisesForCause AtRestTrue
PROPERTIES LockReleased
