SPECIFICATION SuiteSpec
CONSTANTS
    MaxTransitions = 8
    Drainers = {d1, d2, d3}
    BatchSize = 3
    Workers = {w1, w2}
    MaxCalls = 3
    Concurrency = 2
    MaxIterations = 2
INVARIANT BatchIsExact
INVARIANT TranscriptAnswersEveryCall
PROPERTY OrderedDelivery
PROPERTY WorkersEnd
CHECK_DEADLOCK FALSE
