SPECIFICATION FairSpec
CONSTANTS
    Tracks <- MCTracks
    WaitsForSdp = FALSE
CHECK_DEADLOCK FALSE
PROPERTIES
    StopWaitsForPrepare
