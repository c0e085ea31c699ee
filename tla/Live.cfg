SPECIFICATION FairSpec
CONSTANTS
    None = None
    Targets <- MCTargets
    RouteKind <- MCRouteKind
    Parts <- MCParts
    Clients = {c1, c2}
    MaxResetCount = 2
    StateTimeOut = 1
    Slots = {4, 5}
    Descriptors = {4, 5}
    ClientSegments <- LiveSegments
    CanLeave = {c1}
    SendBuffer = 1
    SigpipeIgnored = TRUE
    Load = 2
    MaxSegments <- OneEach
    MaxSendFaults = 1
    MaxLapses = 1
INVARIANTS
    ResponseIntegrity
    NoCrash
PROPERTIES
    BreaksOffOnlyLeavers
    EveryRequestAnswered
    IdleLeaverReclaimed
    SlotsReclaimed
