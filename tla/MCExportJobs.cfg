SPECIFICATION FairSpec
CONSTANTS
    Process = {p, q}
    Jobs = 2
    Page = 2
    SweepLimit = 1
    None = None
    MaxTroubles = 1
INVARIANTS
    FilesAreReachable
    CompletedJobHasFile
PROPERTIES
    KeepsTheLedger
    JobsSettle
