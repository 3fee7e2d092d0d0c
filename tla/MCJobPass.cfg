SPECIFICATION FairSpec
CONSTANTS
    Concurrency = 3
    BatchLimit = 4
    IntervalMs = 4
    MaxDoublings = 5
    MaxStray = 1
INVARIANTS
    OneClaimAtATime
    LostClaimIsOwn
    DelayIsBounded
PROPERTIES
    PassesEnd
