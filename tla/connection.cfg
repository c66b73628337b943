CONSTANTS
    Chunk = 2
    SndBuf = 2
    WelcomeLen = 2
    MaxBytes = 5
SPECIFICATION FairSpec
INVARIANTS TypeOK EchoInOrder RegisteredLives ClosedForCause
PROPERTY EndSeen
CHECK_DEADLOCK FALSE
