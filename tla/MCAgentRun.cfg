SPECIFICATION FairSpec
CONSTANTS
    p = p
    q = q
    Worker <- MCWorker
    Runs = 2
    Concurrency <- MCConcurrency
    None = None
    MaxTroubles = 2
INVARIANTS
    OwnerIsCurrent
    WithinConcurrency
    StoppedHasDrained
PROPERTIES
    RunsSettle
CHECK_DEADLOCK FALSE
