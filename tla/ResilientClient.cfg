SPECIFICATION Spec
CONSTANTS
    Requests = {c1, c2, s1}
    Streams = {s1}
    MaxAttempts = 2
    MaxFailures = 1
    HalfOpenMax = 2
    ResetTimeout = 1
    HalfOpenTimeout = 2
    NoPermit = NoPermit
INVARIANTS CallsSettleOnce
PROPERTIES OpensOnFinalEvidence CallsReturn
