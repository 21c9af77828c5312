\* No fault: /tx/sync applies the receipt of the first hash after the retry.
SPECIFICATION Spec
CONSTANTS
    Intents = {i1}
    Refunds = {}
    Payloads = {c1}
    Handlers = {p1, p2}
    Faults = {}
    MaxChain = 3
    None = None
INVARIANTS
    NoDoublePayment
