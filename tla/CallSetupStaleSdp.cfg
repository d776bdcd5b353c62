SPECIFICATION Spec
CONSTANTS
    Settings <- MCSettings
    FDs <- MCFDs
    Nodes <- MCNodes
    MaxOthers = 1
    MaxCalls = 2
    MaxDeaths = 1
    MaxRefusals = 1
CHECK_DEADLOCK FALSE
INVARIANT
    SdpIsFresh
