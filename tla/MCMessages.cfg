SPECIFICATION FairSpec
CONSTANTS
    ByteMax = 15
    WriterBuffer = 28
    Meant <- MCMeant
    Junk <- MCJunk
    Taken = 1
    MaxSent = 3
    MaxCuts = 1
INVARIANTS
    NoneOvertaken
    ParsedToTheEnd
    ArrivesAsMeant
PROPERTIES
    OnlyTheLongHoldUp
CHECK_DEADLOCK FALSE
