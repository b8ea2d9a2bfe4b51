SPECIFICATION Spec
CONSTANTS
    Requests = {c1, s1}
    Streams = {s1}
    InitialWeights <- TwoWeights
    MaxId = 3
    RecoveryAfter = 1
INVARIANTS HealthAndWeightFollowTheClient CallsFollowTheirChain
PROPERTY CallsReturn
