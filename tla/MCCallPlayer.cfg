SPECIFICATION FairSpec
CONSTANTS
    Tracks <- MCTracks
    WaitsForSdp = TRUE
CHECK_DEADLOCK FALSE
INVARIANTS
    CompletesOnceAtEnd
    NoUseAfterReset
    VideoGoesOn
PROPERTIES
    StopReturns
    PlaybackCompletes
