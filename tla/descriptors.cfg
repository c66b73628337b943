SPECIFICATION MCSpec
CONSTANTS
    MaxFd = 5
    Debug = 1
    LogMaxLen = 32
    HeadLens = {30, 40}
    MsgLens = {0, 1, 5}
    DumpLens = {0, 1, 16, 17, 47, 100}
    MaxHeld = 2
    Starts <- MCStarts
INVARIANTS
    NothingStrays
    OwnersAgree
    SocketsReady
    LogContract
CHECK_DEADLOCK FALSE
