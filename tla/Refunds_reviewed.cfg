\* Two requests create and two review at once; any of them may die.
SPECIFICATION Spec
CONSTANTS
    Refunds = {r1, r2}
    Payments = {y1}
    Collected = 1
    Intents = {i1, i2}
    Hashes = {n1, n2}
    Addresses = {a1}
    Creators = {c1, c2}
    Reviewers = {v1, v2}
    MayDie = TRUE
    None = None
SYMMETRY Symmetric
CHECK_DEADLOCK FALSE
INVARIANTS
    TypeOK
    RefundPaidOnce
    ExecutedIsPaid
    OneOpenRefund
