SPECIFICATION Spec
CONSTANTS
    NumNames = 3
    Malformed = {2}
    Corrupt = {}
    Snapshots <- MCSnapshots
INVARIANT
    UdfClientOutlivesLoader
CHECK_DEADLOCK FALSE
