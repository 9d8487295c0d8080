SPECIFICATION LoadSpec
CONSTANTS
    k1 = k1
    k2 = k2
    other = other
    v1 = v1
    Keys = {k1, k2, other}
    OwnKeys = {k1, k2}
    Values = {v1}
    NULL = NULL
    UNSUPPORTED = UNSUPPORTED
    Times <- MCTimes
    Workers = {w1, w2}
    NumFiles = 2
    InitFiles = 1
    MaxFailures = 0
    FileContents <- AnyContents
CHECK_DEADLOCK FALSE
INVARIANT Converges
