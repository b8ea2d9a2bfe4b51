SPECIFICATION Spec
CONSTANTS
    Requests = {r1, r2, r3, r4}
    MaxFailures = 2
    HalfOpenMax = 2
    ResetTimeout = 2
    HalfOpenTimeout = 3
    MaxResets = 0
    PublicApi = FALSE
    NoPermit = NoPermit
SYMMETRY Symmetry
PROPERTY TrialWaitsForClosedRequests
