\* Two topics, one with a queue of at most one message (or unbounded, cut at
\* one), and two middleware threads.
SPECIFICATION Spec
CONSTANTS
    Topics = {ta, tb}
    QueueTopic = ta
    Dispatchers = {d1, d2}
    MaxPending = 1
    MaxQueued = 1
SYMMETRY Symmetry
INVARIANTS EndsClean 
PROPERTY AnnouncedOnce
