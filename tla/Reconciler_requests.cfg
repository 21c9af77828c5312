\* Two plain requests, two overlapping ticks, exact nodes; no symmetry, for liveness.
SPECIFICATION FairSpec
CONSTANTS
    NumRequests = 2
    Split = {}
    Need = 1
    Transfers = {t1}
    Ticks = {k1, k2}
    Lag = 0
    Offset = 1
    Required = 2
    TTL = 1
    MaxBlock = 3
    Fallible = FALSE
    None = None
INVARIANTS
    TypeOK
    PaidIsDeep
PROPERTIES
    ExpiredIsUnpaid
    EndsAreFinal
    EveryRequestEnds
