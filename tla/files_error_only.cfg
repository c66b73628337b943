CONSTANTS
    n1 = n1
    n2 = n2
    n3 = n3
    NoNode = NoNode
    Fds = {0, 1}
    SetSize = 2
    Nodes = {n1, n2}
    Masks <- SingleMasks
    AddMayFail = FALSE
    ErrorOnly = TRUE
    Disciplined = TRUE
    MaxStops = 0
SPECIFICATION Spec
INVARIANT ErrorReachesActiveHandler
CHECK_DEADLOCK FALSE
