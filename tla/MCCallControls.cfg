SPECIFICATION ControlsSpec
CONSTANTS
    Qualities = {high, medium, low}
    Garbage <- MCGarbage
    MaxCalls = 2
    MaxCount = 2
    MaxReads = 3
CHECK_DEADLOCK FALSE
INVARIANTS
    PanelBelongsToCall
    QualityIsChosen
    ReadingsAddUp
