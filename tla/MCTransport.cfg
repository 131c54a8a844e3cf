SPECIFICATION FairSpec
CONSTANTS
    Size = 7
    Blank <- MCBlank
    Sizes <- MCSizes
    PipeSize = 4
    MaxMessages = 3
    MaxCuts = 2
INVARIANTS
    TypeOK
PROPERTIES
    IsAChannel
    ReadInTheEnd
CHECK_DEADLOCK FALSE
