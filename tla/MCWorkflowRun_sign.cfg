SPECIFICATION FairSpec
CONSTANTS
    Worker = {w1, w2}
    None = None
    Dead = Dead
    Order <- SignOrder
    Kind <- SignKind
    Edge <- SignEdge
    MaxAttempts = 1
    EmitsFailure <- NoNode
    Outcome <- AllOutcomes
    WindowMayClose = TRUE
    MaxCancels = 1
    MaxCrashes = 1
    MaxFreezes = 0
    MaxErrors = 1
INVARIANTS
    SleeperIsRechecked
    RequestsAreWithdrawn
PROPERTIES
    RunSettles
