SPECIFICATION FairLoopSpec
CONSTANTS
    PassId = {p1, p2, p3}
    LoopId = {l1, l2}
    MaxStops = 1
    None = None
INVARIANTS
    OnePassInFlight
    OneLiveChain
PROPERTIES
    StoppedIsQuiet
    WakeIsServed
CHECK_DEADLOCK FALSE
