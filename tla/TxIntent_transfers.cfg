\* One transfer under every fault: two payloads race on its key.
SPECIFICATION FairSpec
CONSTANTS
    Intents = {i1}
    Refunds = {}
    Payloads = {c1, c2}
    Handlers = {p1, p2}
    Faults = {"crash", "slow", "lostReply"}
    MaxChain = 2
    None = None
INVARIANTS
    TypeOK
    TrackedPaidOnce
    NoPayloadSwap
PROPERTIES
    BroadcastingEnds
