CONSTANTS
    Count = 1
    Concurrency = 1
    Orphans = TRUE

SPECIFICATION Spec

PROPERTY WorkersLeave
