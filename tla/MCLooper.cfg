SPECIFICATION FairSpec
CONSTANTS
    f1 = f1
    f2 = f2
    Free = Free
    Fds <- MCFds
    Flags <- MCFlags
    Kinds <- MCKinds
    Capacity = 2
    TimerCapacity = 2
    MaxCalls = 4
    MaxStarts = 2
INVARIANTS
    TypeOK
    HeardIsForMe
    PollerAgrees
    DiesOnlyOfReuse
    StopLeavesNothing
PROPERTIES
    StopReturns
CHECK_DEADLOCK FALSE
