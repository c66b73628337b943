CONSTANTS
    n1 = n1
    n2 = n2
    n3 = n3
    NoNode = NoNode
    Fds = {0, 1, 2}
    SetSize = 2
    Nodes = {n1, n2, n3}
    Masks <- SingleMasks
    AddMayFail = FALSE
    ErrorOnly = FALSE
    Disciplined = TRUE
    MaxStops = 1
SPECIFICATION FairSpec
INVARIANTS TypeOK CountExact
PROPERTIES DispatchContract StopQuits
CHECK_DEADLOCK FALSE
