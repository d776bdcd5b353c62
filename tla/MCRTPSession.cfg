SPECIFICATION FairSpec
CONSTANTS
    Formats <- MCFormats
    Sockets = {"audio", "video"}
    Units <- MCUnits
    NumTracks = 2
    MaxBuffers = 1
    MaxMedia = 1
    Spacing = 1
CHECK_DEADLOCK FALSE
PROPERTIES
    MediaGoesOn
