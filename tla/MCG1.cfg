\* Two threads, two moves, every call may fail, either configuration.
SPECIFICATION SdkSpec
CONSTANTS
    Callers = {c1, c2}
    MaxMoves = 2
    Failures = {"Move", "SetVelocity", "StopMove", "StartTimer"}
    Failing = TRUE
INVARIANTS DeadMan StopHolds OneTimer SerialCancel AiFromKnownState GetsUp
PROPERTY MotionEnds
