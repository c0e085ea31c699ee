SPECIFICATION Spec
CONSTANTS
    None = None
    Targets <- MCTargets
    RouteKind <- MCRouteKind
    Parts <- MCParts
    Clients = {c1}
    MaxResetCount = 2
    StateTimeOut = 1
    Slots = {4}
    Descriptors = {4}
    ClientSegments <- SplitSegments
    CanLeave = {}
    SendBuffer = 2
    SigpipeIgnored = TRUE
    Load = 1
    MaxSegments <- TwoEach
    MaxSendFaults = 0
    MaxLapses = 0
INVARIANTS
    SplitRequestAwaited
