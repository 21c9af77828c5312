\* One refund is executed with the transaction of something else.
SPECIFICATION Spec
CONSTANTS
    Refunds = {r1}
    Payments = {y1}
    Collected = 1
    Intents = {i1}
    Hashes = {n1}
    Addresses = {a1}
    Creators = {c1}
    Reviewers = {v1}
    MayDie = FALSE
    None = None
CHECK_DEADLOCK FALSE
INVARIANTS
    ExecutedByItsOwn
