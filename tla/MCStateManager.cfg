SPECIFICATION Spec
CONSTANTS
    States <- MCStates
    InitialState = "START"
    ErrorState = "ERROR_STATE"
    TransitionMap <- MCTransitionMap
    MaxResetCounts <- MCMaxResetCounts
    TimeOuts <- MCTimeOuts
    ResetBound = 5
    Horizon = 10
INVARIANTS
    TypeOK
    BoundedStay
PROPERTIES
    DoomedUntilCleared
    LegalMoves
