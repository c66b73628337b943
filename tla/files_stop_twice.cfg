CONSTANTS
    n1 = n1
    n2 = n2
    n3 = n3
    NoNode = NoNode
    Fds = {0, 1}
    SetSize = 1
    Nodes = {n1, n2}
    Masks <- SingleMasks
    AddMayFail = FALSE
    ErrorOnly = FALSE
    Disciplined = TRUE
    MaxStops = 2
SPECIFICATION FairSpec
PROPERTY StopQuits
CHECK_DEADLOCK FALSE
