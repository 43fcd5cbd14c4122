\* Two threads, two peers of which one fits the table of failures, and one
\* principal; readings reach the lock up to one unit of time late.
CONSTANTS
    w1 = w1  w2 = w2
    p1 = p1  p2 = p2
    a = a
    MaxEvents = 4
    Rejected = Rejected
    Workers = {w1, w2}
    Peers = {p1, p2}
    Principals = {a}
    MaxFailures = 1
    FailureWindow = 2
    MaxTracked = 1
    RateLimit = 2
    RateWindow = 2
    MaxConcurrent = 1
    MaxDelay = 1
    MaxClock = 4
CONSTRAINT EventBound
SYMMETRY Symmetry
SPECIFICATION Spec
INVARIANTS
    AttemptsWithinRate
    SlotsAreExact
    FailuresWithinBudget
    TableIsBounded
PROPERTIES
    RefusalsAreDeserved
CHECK_DEADLOCK FALSE
