CONSTANTS
    r1 = r1
    r2 = r2
    Requests = {r1, r2}
    Concurrency = 2
    Driver = "grpc"
    Readiness = "http"
    Streams = {}
    PreStop = TRUE
    PostSignal = TRUE
    Telemetry = TRUE
    InflightComplete = TRUE
    ForbidForceKill = FALSE
    ExitKinds = {"expected", "other", "oom"}
    MaxFailed = 0
    KeepOnFailure = TRUE
    RuntimeFaults = TRUE

SPECIFICATION SafeSpec

SYMMETRY Symmetry

INVARIANT PassedIsEarned
INVARIANT SignalAssertionIsTrue
INVARIANT NothingLeftBehind
INVARIANT ExitCodeTellsTruth
INVARIANT InterruptNeverPasses
INVARIANT NoProbingAfterReturn
INVARIANT DeadlinePassMeansInTime
PROPERTY WithdrawalInTime
