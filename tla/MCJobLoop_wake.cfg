SPECIFICATION FairLoopSpec
CONSTANTS
    PassId = {p1, p2, p3}
    LoopId = {l1, l2}
    MaxStops = 1
    None = None
PROPERTIES
    OnlyDisposeSilencesWake
CHECK_DEADLOCK FALSE
