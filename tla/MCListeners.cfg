SPECIFICATION Spec
CONSTANTS
    a = a
    b = b
    Paths <- MCPaths
    Prefixes <- MCPrefixes
    Hears <- MCHears
    Offsets <- MCOffsets
    Capacity = 2
    MaxRaw = 1
    MaxEvents = 2
    MaxListeners = 3
    MaxSyncs = 1
CHECK_DEADLOCK FALSE
INVARIANTS
    TypeOK
    HeardInOrder
PROPERTIES
    NobodyMissed
    EveryEventHandedOut
    TearDownEnds
