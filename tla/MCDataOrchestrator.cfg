SPECIFICATION Spec
CONSTANTS
    NumNames = 3
    Malformed = {2}
    Corrupt = {}
    Snapshots <- MCSnapshots
INVARIANTS
    TypeOK
    NoFileLost
    LoadedInOrder
PROPERTIES
    EveryFileLoaded
    ShutdownCompletes
CHECK_DEADLOCK FALSE
