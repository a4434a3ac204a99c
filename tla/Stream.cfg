CONSTANTS
    Kinds = {"sse", "websocket", "grpc"}
    MinimumMessages = 2
    MaxMessages = 3

SPECIFICATION Spec

INVARIANT TypeOK
INVARIANT GracefulIsEarned
INVARIANT NeverCutEarly
PROPERTY ObservationEnds
PROPERTY ImplementsObservation
