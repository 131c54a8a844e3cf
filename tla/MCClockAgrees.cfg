SPECIFICATION ClockSpec
CONSTANTS
    Skews <- MCSkews
    Never = Never
    MaxTime = 2
    MaxAsked = 1
    MaxCloses = 0
CHECK_DEADLOCK FALSE
PROPERTIES
    SyncedWithServer
