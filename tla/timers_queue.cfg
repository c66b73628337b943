CONSTANTS
    Ids = {0, 1, 2}
    Periods = {0, 1}
    Rets <- EndOrPeriod
    MsPerSec = 2
    OverdueWait = 2
    IntSpan = 8
    WalkSpan = 1
    MaxNow = 4
    ClockIsSet = TRUE
    MaxSignals = 1
SPECIFICATION Spec
INVARIANTS Sorted TimersAccounted WalkIsComplete SkewBounded
PROPERTY OncePerPass
CHECK_DEADLOCK FALSE
