\* Three requests at once, transactions that revert or lose their nonce, timeouts
\* anywhere.
SPECIFICATION Spec
CONSTANTS
    Handlers = {h1, h2, h3}
    Managers = {m1}
    Cap = 1
    MaxPool = 3
    MaxTaken = 1
    MaxSpent = 2
    None = None
SYMMETRY Symmetric
INVARIANTS
    TypeOK
    ScopedIsSetUp
    SpentWithinCap
