SPECIFICATION Spec
CONSTANTS
    Streams <- MCStreams
    WireMod = 8
    WideMod = 64
    FirstSeq = 5
    MaxLag = 3
    Patience = 1
INVARIANTS
    InOrder
    WholeUnits
    HolesMarked
PROPERTIES
    NothingWasted
CHECK_DEADLOCK FALSE
