SPECIFICATION Spec
CONSTANTS
    MaxLines = 5
INVARIANTS
    AcceptedIffWellFormed
    HandlerAgrees
CHECK_DEADLOCK FALSE
