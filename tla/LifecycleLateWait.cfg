CONSTANTS
    r1 = r1
    Requests = {r1}
    Concurrency = 1
    Driver = "http"
    Readiness = "http"
    Streams = {}
    PreStop = FALSE
    PostSignal = TRUE
    Telemetry = FALSE
    InflightComplete = TRUE
    ForbidForceKill = TRUE
    ExitKinds = {"expected", "other", "oom"}
    MaxFailed = 0
    KeepOnFailure = FALSE
    RuntimeFaults = FALSE

SPECIFICATION SafeSpec

INVARIANT DeadlineFailMeansLate
