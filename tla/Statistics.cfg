SPECIFICATION Spec
CONSTANTS
    None = None
    Garbage = Garbage
    Lowest <- MCLowest
    Highest = 8
    Second = 2
    Names = {"resp_tm"}
    Plans <- PointAndSeries
    LateKinds = {"increment"}
    Measures = {d1}
    Values <- NegativeValue
    MaxMetrics = 2
    MaxLate = 1
    MaxReceived = 3
    Horizon = 2
INVARIANTS
    TypeOK
    AggregatesCorrect
    SeriesKeepTheLast
    OutOfRangeOnlyEarly
PROPERTIES
    DurationsReachTheirMetric
CHECK_DEADLOCK FALSE
