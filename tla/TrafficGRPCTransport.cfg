CONSTANTS
    Count = 2
    Concurrency = 2
    Driver = "grpc"
    Phases = {"post_signal"}
    MaxFailed = 0

SPECIFICATION SafeSpec

INVARIANT GRPCRejectMeansServerStatus
