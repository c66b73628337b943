CONSTANTS
    Heads <- Buckets
    Entries = {i1, i2, i3}
    NULL = NULL
    Sentinel = Sentinel
    Nodes <- ManyNodes
    Key <- ManyKeys
    Keys <- SmallKeys
    Vals = {v, w}
    KHash <- SmallKHash
    Requested <- SmallRequested
    MinBuckets = 2
    MaxBuckets = 4
    Threads <- SmallThreads
    Ptrs <- SmallPtrs
    Sizes <- SmallSizes
    Span = 8
    Data <- SmallData
    HeapSizes <- SmallHeaps
    Growth = 2
    MaxItems = 6
    LongSpan = 256
    IntSpan = 64
    ByteSpan = 8
SPECIFICATION MCSpec
INVARIANTS TreeRules SearchesAgree RingsSound UsedMemoryExact NumbersLaw Utf8Law IntegersKept
PROPERTIES TreeAbs AbsSpec HeapContract
SYMMETRY ItemSymmetry
CHECK_DEADLOCK FALSE
