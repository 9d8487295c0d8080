SPECIFICATION Spec
CONSTANTS
    MaxSize = 7
    MaxThreads = 4
    MaxMinShardSize = 3
INVARIANT
    EveryStreamReadable
CHECK_DEADLOCK FALSE
