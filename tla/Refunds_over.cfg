\* One request creates and one reviews at a time.
SPECIFICATION Spec
CONSTANTS
    Refunds = {r1, r2}
    Payments = {y1}
    Collected = 1
    Intents = {i1, i2}
    Hashes = {n1, n2}
    Addresses = {a1}
    Creators = {c1}
    Reviewers = {v1}
    MayDie = FALSE
    None = None
SYMMETRY Symmetric
CHECK_DEADLOCK FALSE
INVARIANTS
    RefundedWithinCollected
