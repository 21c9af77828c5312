\* One split request, answers that lag, two ticks of which one may fail.
SPECIFICATION Spec
CONSTANTS
    NumRequests = 1
    Split = {1}
    Need = 2
    Transfers = {t1, t2}
    Ticks = {k1, k2}
    Lag = 1
    Offset = 1
    Required = 2
    TTL = 1
    MaxBlock = 4
    Fallible = TRUE
    None = None
SYMMETRY Symmetric
INVARIANTS
    SplitTotals
    ReportedOnce
    NothingSkipped
