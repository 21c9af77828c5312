\* A plain and a split request.
SPECIFICATION Spec
CONSTANTS
    NumRequests = 2
    Split = {2}
    Need = 1
    Transfers = {t1}
    Ticks = {k1, k2}
    Lag = 0
    Offset = 1
    Required = 2
    TTL = 2
    MaxBlock = 4
    Fallible = FALSE
    None = None
INVARIANTS
    CreditedOnce
