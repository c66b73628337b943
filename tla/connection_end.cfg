CONSTANTS
    Chunk = 2
    SndBuf = 2
    WelcomeLen = 1
    MaxBytes = 2
SPECIFICATION Spec
PROPERTY EndReadsOkZero
CHECK_DEADLOCK FALSE
