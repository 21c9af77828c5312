\* One plain request, two overlapping ticks.
SPECIFICATION Spec
CONSTANTS
    NumRequests = 1
    Split = {}
    Need = 1
    Transfers = {t1}
    Ticks = {k1, k2}
    Lag = 0
    Offset = 1
    Required = 2
    TTL = 1
    MaxBlock = 4
    Fallible = FALSE
    None = None
PROPERTIES
    DetectedIsKept
