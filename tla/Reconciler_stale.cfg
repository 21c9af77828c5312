\* One plain request and a node one block behind: a tick with an older height
\* writes a paid request back to confirming, with the two confirmations of the code.
SPECIFICATION Spec
CONSTANTS
    NumRequests = 1
    Split = {}
    Need = 1
    Transfers = {t1}
    Ticks = {k1, k2}
    Lag = 1
    Offset = 1
    Required = 2
    TTL = 1
    MaxBlock = 4
    Fallible = FALSE
    None = None
PROPERTIES
    PaidStaysPaid
