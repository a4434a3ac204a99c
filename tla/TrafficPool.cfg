CONSTANTS
    Count = 3
    Concurrency = 2
    Driver = "grpc"
    Phases = {"initial", "post_signal"}
    MaxFailed = 0

SPECIFICATION Spec

INVARIANT TypeOK
INVARIANT DoneMeansSettled
INVARIANT WaitStartedFindsARequest
INVARIANT UnansweredIsConfirmed
INVARIANT PassMeansAllServed
INVARIANT PolicyVerdictIsFinal
PROPERTY ConfirmedSpansSignal
PROPERTY ImplementsExecution
PROPERTY WorkersLeave
