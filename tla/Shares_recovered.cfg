\* Two browsers, two requests at a time and up to three recoveries; requests
\* and the process may die anywhere.
SPECIFICATION Spec
CONSTANTS
    Clients = {c1, c2}
    Handlers = {r1, r2}
    Shares = {s0, s1, s2, s3}
    First = s0
    None = None
SYMMETRY Symmetric
INVARIANTS
    TypeOK
    Recoverable
    KeptDeviceSigns
