CONSTANTS
    r1 = r1
    r2 = r2
    e1 = e1
    e2 = e2
    Requests = {r1, r2}
    Exports = {e1, e2}
    MinSpans = 1
    MinPoints = 1

SPECIFICATION Spec

INVARIANT TypeOK
INVARIANT SpansPassIsEarned
INVARIANT PointsPassIsFlush
INVARIANT SatisfiedWaitPasses
PROPERTY StartupSpansNeverCount
PROPERTY EnoughEndsWait
