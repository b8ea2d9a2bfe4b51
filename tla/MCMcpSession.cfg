SPECIFICATION CastSpec
CONSTANTS
    Calls = {c1, c2}
    ServerRequests = {n1}
    QueueDepth = 1
    PipeSize = 1
    Casts = {{c1, c2}, {c1, n1}}
INVARIANT ClosedMeansUnanswered
PROPERTIES FailedCallsAreNotBegun SessionNeverHangs
CHECK_DEADLOCK FALSE
