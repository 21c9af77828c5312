\* One recovery whose commit may die between its two writes.
SPECIFICATION Spec
CONSTANTS
    Clients = {c1}
    Handlers = {r1}
    Shares = {s0, s1}
    First = s0
    None = None
SYMMETRY Symmetric
INVARIANTS
    NeverBricked
