\* Two overlapping scans, which may fail at every await, of which only one is
\* repeated, and providers that lag.
SPECIFICATION FairSpec
CONSTANTS
    Transfers = {t1, t2}
    Sold = {t1}
    Scans = {k1, k2}
    Cron = {k1}
    Window = 2
    Required = 2
    Lag = 1
    MaxBlock = 4
INVARIANTS
    TypeOK
    NothingMissed
PROPERTIES
    CollectionsStay
    EveryTransferShown
