SPECIFICATION Spec
CONSTANTS
    a = a
    b = b
    x1 = x1
    x2 = x2
    y1 = y1
    c1 = c1
    c2 = c2
    Server = server
    Empty = Empty
    Absent = Absent
    NoId = NoId
    Paths <- MCPaths
    Values <- MCOnePerPath
    TypeOf <- MCTypeOf
    HomeOf <- MCHomeOf
    Ids <- MCIds
    Capacity = 2
    Clients <- MCTwoClients
    Writers <- MCOneClient
    Ops <- MCSetOnly
    ParserStart = {NoId}
    MaxTime = 3
    MaxWrites = 1
    MaxDrops = 0
    MaxRestarts = 0
    MaxStuck = 0
CHECK_DEADLOCK FALSE
INVARIANTS
    LatestEverywhere
