SPECIFICATION FairSpec
CONSTANTS
    ChunkSize = 2
    MaxSize = 7
    MaxChanges = 2
    MaxRequests = 2
INVARIANTS
    TypeOK
    WholeFileIfIntact
    BytesInPlace
    EndsAtItsSize
PROPERTIES
    CallsAsInHttpHandler
    ResponseEnds
CHECK_DEADLOCK FALSE
