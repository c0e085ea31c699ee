SPECIFICATION Spec
CONSTANTS
    None = None
    Segments = {"", "a", "b", "c"}
    Methods = {"GET", "POST"}
    Patterns <- MCPatterns
    FilePatterns <- MCFilePatterns
    JoinPrefixes <- MCPrefixes
    Files = {f, g}
    f = f
    g = g
    Requests <- MCRequests
    MaxCalls = 4
INVARIANTS
    TypeOK
    RoutesFoundAsAdded
    FoundRoutesFit
    StaticServesItsFile
PROPERTIES
    OnlyContendersTakeRoutes
CHECK_DEADLOCK FALSE
SYMMETRY FileSymmetry
