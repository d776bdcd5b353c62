SPECIFICATION Spec
CONSTANTS
    Formats <- MCFormats
    Sockets <- MCSockets
    Units <- MCUnits
    NumTracks = 1
    MaxSeeks = 1
    MaxMoves = 1
    MaxMedia = 1
    Late = FALSE
    MaxBuffers = 2
    LowWater = 1
    HighWater = 1
    Spacing = 2
CHECK_DEADLOCK FALSE
INVARIANTS
    AssertionsHold
    CheckArmed
    FreshAfterSeek
    SeekDoneOnce
