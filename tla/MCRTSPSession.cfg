SPECIFICATION FairSpec
CONSTANTS
    Formats <- MCFormats
    Sockets <- MCSockets
    Units <- MCUnits
    NumTracks = 1
    MaxSeeks = 0
    MaxMoves = 1
    MaxMedia = 1
    Late = TRUE
    MaxBuffers = 2
    LowWater = 1
    HighWater = 1
    Spacing = 2
CHECK_DEADLOCK FALSE
INVARIANTS
    SocketsClosed
PROPERTIES
    EndNoticed
    BufferingEnds
    CallsReturn
