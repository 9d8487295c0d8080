SPECIFICATION Spec
CONSTANTS
    junk = junk
    Eof = Eof
INVARIANTS
    RecordsAreReadOnce
    StorageIsExact
    FilesAreNotifiedOnce
    SnapshotStandsForFiles
    ConversionIsExact
    LoadTestIsTrue
    PublishedDataAreComplete
PROPERTIES
    StreamIsPlain
CHECK_DEADLOCK FALSE
