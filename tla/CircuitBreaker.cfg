SPECIFICATION FairSpec
CONSTANTS
    Requests = {r1, r2, r3}
    MaxFailures = 2
    HalfOpenMax = 2
    ResetTimeout = 2
    HalfOpenTimeout = 3
    MaxResets = 1
    PublicApi = TRUE
    NoPermit = NoPermit
INVARIANTS CountersMatchState NothingOutlivesItsRequest
PROPERTIES OpenLastsResetTimeout PreResetRequestTakesNothing NeitherStateIsForEver
