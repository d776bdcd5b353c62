SPECIFICATION FairSpec
CONSTANTS
    e1 = e1
    e2 = e2
    stop = stop
    c1 = c1
    Event <- MCEvent
    StopEvent <- MCStopEvent
    Client <- MCClient
    MaxTime = 2
    MaxTimeout = 1
    MaxPosts = 3
CHECK_DEADLOCK FALSE
INVARIANTS
    PostedOnce
    NoOversleep
PROPERTIES
    FlushHandlesAll
    ImplementsSchedule
    StopTerminates
    EveryPostHandled
