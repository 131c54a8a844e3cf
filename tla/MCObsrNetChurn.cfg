SPECIFICATION FairSpec
CONSTANTS
    a = a
    b = b
    x1 = x1
    x2 = x2
    y1 = y1
    c1 = c1
    c2 = c2
    Server = server
    Empty = Empty
    Absent = Absent
    NoId = NoId
    Paths <- MCPaths
    Values <- MCOnePerPath
    TypeOf <- MCTypeOf
    HomeOf <- MCHomeOf
    Ids <- MCIds
    Capacity = 2
    Clients <- MCOneClient
    Writers <- MCPair
    Ops <- MCAllOps
    ParserStart <- MCAnyStart
    MaxTime = 3
    MaxWrites = 2
    MaxDrops = 1
    MaxRestarts = 1
    MaxStuck = 1
CHECK_DEADLOCK FALSE
INVARIANTS
    TypeOK
    StoresConsistent
    KnownIsTold
    IdsComeFirst
PROPERTIES
    EveryoneGetsIn
