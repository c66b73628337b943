CONSTANTS
    n1 = n1
    NoNode = NoNode
    Fds = {0}
    SetSize = 1
    Nodes = {n1}
    Masks <- ReadOnly
    AddMayFail = FALSE
    ErrorOnly = FALSE
    MaxStops = 1
    Ids = {0, 1}
    Periods = {0}
    Rets <- EndOrLong
    MsPerSec = 5
    OverdueWait = 1
    IntSpan = 6
    WalkSpan = 4
    MaxNow = 4
    MaxSignals = 1
    Disciplined = TRUE
SPECIFICATION FairSpec
INVARIANTS SleepBounded NothingOutlives
PROPERTIES DueFires StopQuits
CHECK_DEADLOCK FALSE
