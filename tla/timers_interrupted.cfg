CONSTANTS
    Ids = {0, 1}
    Periods = {1, 3}
    Rets <- EndOrPeriod
    MsPerSec = 2
    OverdueWait = 2
    IntSpan = 8
    WalkSpan = 2
    MaxNow = 5
    ClockIsSet = FALSE
    MaxSignals = 1
SPECIFICATION Spec
INVARIANT SleepsUntilNextTimer
CHECK_DEADLOCK FALSE
