SPECIFICATION Spec
CONSTANT NoCode = NoCode
INVARIANTS
    UdfIsConsistent
    LookupsAreTrue
    QueriesAreRight
    RequestsAreAnswered
    GroupsAreExtracted
    RealtimeUpdatesAreKept
    UsedQueueIsKept
    StartUpIsSafe
PROPERTIES
    NoForbiddenStep
CHECK_DEADLOCK FALSE
