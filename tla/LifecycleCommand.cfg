CONSTANTS
    r1 = r1
    Requests = {r1}
    Concurrency = 1
    Driver = "command"
    Readiness = "exec"
    Streams = {"grpc_stream"}
    PreStop = FALSE
    PostSignal = TRUE
    Telemetry = FALSE
    InflightComplete = FALSE
    ForbidForceKill = TRUE
    ExitKinds = {"expected"}
    MaxFailed = 0
    KeepOnFailure = FALSE
    RuntimeFaults = FALSE

SPECIFICATION Spec

INVARIANT TypeOK
INVARIANT PassedIsEarned
 
