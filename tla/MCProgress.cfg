SPECIFICATION Spec
CONSTANT NoCode = NoCode
PROPERTIES
    WaitsEnd
    MappingsConverge
    UpdatesArrive
    QueuesAreReplaced
CHECK_DEADLOCK FALSE
