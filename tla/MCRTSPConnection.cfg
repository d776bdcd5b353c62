SPECIFICATION FairSpec
CONSTANTS
    c1 = c1
    c2 = c2
    d1 = d1
    r1 = r1
    r2 = r2
    Connect <- MCConnect
    Disconnect <- MCDisconnect
    Request <- MCRequest
    MaxInbox = 1
CHECK_DEADLOCK FALSE
INVARIANTS
    RepliedOnce
    ResponseMatches
    PolledOnce
PROPERTIES
    DisconnectSettles
