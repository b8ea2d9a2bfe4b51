SPECIFICATION InstanceSpec
CONSTANTS
    Requests = {a, b}
    Estimate = 3
    Actuals = {0, 1, 6}
    RequestBurst = 1
    TokenBurst = 2
    MaxInstallments = 1
    MaxInt = 27
    MaxResets = 1
    Extra = {}
CHECK_DEADLOCK FALSE
INVARIANT LateReportsSettleNothing
