SPECIFICATION Spec
CONSTANTS
    None = None
    Garbage = Garbage
    Lowest <- MCLowest
    Highest = 8
    Second = 2
    Names = {"resp_tm"}
    Plans <- ServerPlans
    LateKinds = {}
    Measures = {d1}
    Values <- OneValue
    MaxMetrics = 1
    MaxLate = 0
    MaxReceived = 2
    Horizon = 3
INVARIANTS
    ReportAlwaysAvailable
CHECK_DEADLOCK FALSE
