SPECIFICATION FairSpec
CONSTANTS
    None = None
    Targets <- MCTargets
    RouteKind <- MCRouteKind
    Parts <- MCParts
    Clients = {c1}
    MaxResetCount = 2
    StateTimeOut = 1
    Slots = {4}
    Descriptors = {4}
    ClientSegments <- BigSegments
    CanLeave = {c1}
    SendBuffer = 2
    SigpipeIgnored = TRUE
    Load = 1
    MaxSegments <- OneEach
    MaxSendFaults = 0
    MaxLapses = 0
PROPERTIES
    LeaverReclaimed
