SPECIFICATION Spec
CONSTANTS
    None = None
    Targets <- MCTargets
    RouteKind <- MCRouteKind
    Parts <- MCParts
    Clients = {c1, c2}
    MaxResetCount = 2
    StateTimeOut = 1
    Slots = {4}
    Descriptors = {4}
    ClientSegments <- MixedSegments
    CanLeave = {c1}
    SendBuffer = 2
    SigpipeIgnored = TRUE
    Load = 1
    MaxSegments <- TwoThenOne
    MaxSendFaults = 1
    MaxLapses = 1
INVARIANTS
    NothingLeftBehind
    LayersAgree
    ResponseIntegrity
PROPERTIES
    MeasuredIffAnswered
