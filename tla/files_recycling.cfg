CONSTANTS
    n1 = n1
    n2 = n2
    n3 = n3
    NoNode = NoNode
    Fds = {0, 2}
    SetSize = 2
    Nodes = {n1, n2, n3}
    Masks <- AnyMask
    AddMayFail = TRUE
    ErrorOnly = TRUE
    Disciplined = FALSE
    MaxStops = 1
SPECIFICATION Spec
SYMMETRY NodeSymmetry
INVARIANTS BlocksAccounted RegistryAgrees NothingLeaks
CHECK_DEADLOCK FALSE
