SPECIFICATION InstanceSpec
CONSTANTS
    Requests = {a, b, c}
    Estimate = 3
    Actuals = {0, 1, 6}
    RequestBurst = 1
    TokenBurst = 2
    MaxInstallments = 1
    MaxInt = 27
    MaxResets = 2
    Extra = {c}
CHECK_DEADLOCK FALSE
INVARIANTS LedgerBalances NeverUndercharged
PROPERTY CallsReturn
