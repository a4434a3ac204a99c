CONSTANTS
    Commands = {"repeat", "suite"}
    SameNames = {{"http", "HTTP"}, {"grpc"}}
    MaxRuns = 3
    Budgets = {"startup_ready_p95"}
    Limits = {0, 1}
    Durations = {1, 2}
    Again = {"suite"}
    Invocations = 2
    MaxFaults = 1
    Paths <- ReportPaths
    Values <- ReportValues
    Absent <- NoReport
    NoPath <- Nowhere
    Torn <- TornReport

SPECIFICATION Spec

INVARIANT TypeOK
INVARIANT EvidenceIsCurrent
INVARIANT ExitCodeIsEarned
INVARIANT JUnitAgrees
PROPERTY ImplementsAtomicFile
