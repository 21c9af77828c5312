\* A request dies after the node took its transaction.
SPECIFICATION Spec
CONSTANTS
    Intents = {i1}
    Refunds = {}
    Payloads = {c1}
    Handlers = {p1, p2}
    Faults = {"crash"}
    MaxChain = 2
    None = None
INVARIANTS
    NoDoublePayment
