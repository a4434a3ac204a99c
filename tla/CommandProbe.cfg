CONSTANTS
    Count = 2
    Concurrency = 2
    Orphans = TRUE

SPECIFICATION SafeSpec

INVARIANT TypeOK
INVARIANT EvidenceIsClean
INVARIANT LaunchedAreRecorded
PROPERTY ImplementsExecution
