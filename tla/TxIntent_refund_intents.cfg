\* One refund intent under every fault, with room for a third payment.
SPECIFICATION Spec
CONSTANTS
    Intents = {r1}
    Refunds = {r1}
    Payloads = {c1}
    Handlers = {p1, p2}
    Faults = {"crash", "slow", "lostReply"}
    MaxChain = 3
    None = None
SYMMETRY Symmetric
INVARIANTS
    SettledRowsAreTrue
PROPERTIES
    ImplementsOrder
