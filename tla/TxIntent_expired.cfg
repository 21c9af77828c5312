\* A create uses the key of a confirmed transfer again after its TTL.
SPECIFICATION Spec
CONSTANTS
    Intents = {i1}
    Refunds = {}
    Payloads = {c1}
    Handlers = {p1}
    Faults = {}
    MaxChain = 1
    None = None
PROPERTIES
    ConfirmedIsFinal
