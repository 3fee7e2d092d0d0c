SPECIFICATION FairSpec
CONSTANTS
    Workspace = {w1, w2}
    Process = {p1}
    Broken = {w1}
    Page = 1
    HeldSkips = 0
    RetryLimit = 1
    Period = 2
    None = None
    MaxTime = 3
    MaxChanges = 1
    MaxEdits = 1
    MaxTroubles = 1
INVARIANTS
    PassIsCurrent
PROPERTIES
    FiresInItsZone
    DueIsServed
CHECK_DEADLOCK FALSE
