SPECIFICATION Spec
CONSTANTS
    None = None
    Targets <- MCTargets
    RouteKind <- MCRouteKind
    Parts <- MCParts
    Clients = {c1, c2, c3}
    MaxResetCount = 2
    StateTimeOut = 1
    Slots = {4, 5}
    Descriptors = {4, 5}
    ClientSegments <- PageSegments
    CanLeave = {c1}
    SendBuffer = 1
    SigpipeIgnored = FALSE
    Load = 3
    MaxSegments <- OneEach
    MaxSendFaults = 0
    MaxLapses = 1
INVARIANTS
    SocketOwnership
    BlocksOnlyInSend
PROPERTIES
    ImplementsService
CHECK_DEADLOCK FALSE
