CONSTANTS
    Tasks = {t1, t2}
    Keys = {k1, k2}
    Bodies <- MCBodies
    MaxTime = 2
    MaxMessages = 3
    MaxPending = 2
    MaxTargets = 1
    MaxAway = 1
    ClockGoesBack = FALSE
SPECIFICATION Spec
INVARIANTS EnvelopeIsConsistent RepliedOnce RetryIsAnswered
PROPERTY ReceiptsAreKept
SYMMETRY Symmetry
CHECK_DEADLOCK FALSE
