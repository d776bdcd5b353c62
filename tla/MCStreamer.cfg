SPECIFICATION FairSpec
CONSTANTS
    Mode <- MCMode
    Sizes <- MCSizes
    Capacity = 17
    WireMod = 4
    MaxFrames = 3
CHECK_DEADLOCK FALSE
INVARIANTS
    WholeFrames
PROPERTIES
    NothingAfterBye
    StartStopReturn
