SPECIFICATION Spec
CONSTANTS
    Worker = {w1, w2}
    None = None
    Dead = Dead
    Order <- ForkOrder
    Kind <- ForkKind
    Edge <- ForkEdge
    MaxAttempts = 2
    EmitsFailure <- Act
    Outcome <- AllOutcomes
    WindowMayClose = TRUE
    MaxCancels = 1
    MaxCrashes = 1
    MaxFreezes = 0
    MaxErrors = 1
INVARIANTS
    DataFlow
    ProgressIsExact
    OneWorkerInside
    OneLiveChildPerNode
    UnbrokenCancelReachesChildren
PROPERTIES
    NothingStartsAfterCancel
    AttemptSettlesOnce
    OutcomeIsFinal
