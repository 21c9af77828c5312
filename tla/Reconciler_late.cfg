\* One plain request: a payment in time expires, for its tick read the height
\* before the payment and the clock after the deadline.
SPECIFICATION Spec
CONSTANTS
    NumRequests = 1
    Split = {}
    Need = 1
    Transfers = {t1}
    Ticks = {k1}
    Lag = 0
    Offset = 1
    Required = 2
    TTL = 1
    MaxBlock = 4
    Fallible = FALSE
    None = None
INVARIANTS
    PaidInTimeIsKept
