SPECIFICATION Spec
CONSTANTS
    NumNames = 3
    Malformed = {2}
    Corrupt = {1}
    Snapshots <- MCSnapshots
PROPERTY
    EveryFileLoaded
CHECK_DEADLOCK FALSE
