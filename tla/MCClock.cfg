SPECIFICATION ClockSpec
CONSTANTS
    Skews <- MCSkews
    Never = Never
    MaxTime = 6
    MaxAsked = 2
    MaxCloses = 2
CHECK_DEADLOCK FALSE
INVARIANTS
    OneExchangeEach
PROPERTIES
    MeasuredWithinRoundTrip
