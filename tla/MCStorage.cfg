SPECIFICATION Spec
CONSTANTS
    a = a
    b = b
    c = c
    i1 = i1
    i2 = i2
    s1 = s1
    n1 = n1
    n2 = n2
    root = root
    Empty = Empty
    Absent = Absent
    NoId = NoId
    Broken = Broken
    Paths <- MCPaths
    Values <- MCValues
    TypeOf <- MCTypeOf
    Ids <- MCIds
    Prefixes <- MCPrefixes
    Matching <- MCMatching
    Offsets <- MCOffsets
    Capacity = 2
    MaxTime = 2
SYMMETRY MCSymmetry
INVARIANTS
    TypeOK
    LifecycleOK
    PathIndexOK
    IdIndexOK
    ListenersAgree
    NothingForgotten
    UpdatesConverge
PROPERTIES
    PendingOnlyYieldsToNewer
    TypeChangesThroughEmpty
