SPECIFICATION FairSpec
CONSTANTS
    Process = {p, q}
    Slots = 1
    Operator = {o1, o2}
    Event = {w, m}
    Mailed = {m}
    MaxAttempts = 2
    Page = 1
    None = None
    Replayed = {w}
    MaxRuns = 2
    MaxChanges = 2
    MaxTroubles = 1
INVARIANTS
    RequestsAreCaused
PROPERTIES
    KeepsThePromise
    RunsConclude
CHECK_DEADLOCK FALSE
