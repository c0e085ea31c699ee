SPECIFICATION FairSpec
CONSTANTS
    None = None
    Targets <- MCTargets
    RouteKind <- MCRouteKind
    Parts <- MCParts
    Client = c1
    Clients = {c1}
    MaxResetCount = 4
    StateTimeOut = 1
    FlightRecords = 2
    Asked <- MCAsked
    SigpipeIgnored = FALSE
    MaxRequests = 2
    MaxSendFaults = 1
INVARIANTS
    FirstTurnOnce
    AssertsOnlyWithoutHint
    RestsAsItsHandler
PROPERTIES
    FirstTurnArrives
    LeaverReleased
CHECK_DEADLOCK FALSE
