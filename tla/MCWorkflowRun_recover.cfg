SPECIFICATION FairSpec
CONSTANTS
    Worker = {w1}
    None = None
    Dead = Dead
    Order <- ChainOrder
    Kind <- ChainKind
    Edge <- ChainEdge
    MaxAttempts = 1
    EmitsFailure <- NoNode
    Outcome <- Succeeding
    WindowMayClose = FALSE
    MaxCancels = 0
    MaxCrashes = 1
    MaxFreezes = 0
    MaxErrors = 0
PROPERTIES
    RunSucceeds
