\* Two forms over two indexes, one request of a terminal delivered by two
\* handlers at a time, a window of two ticks.
SPECIFICATION Spec
CONSTANTS
    Forms = {f1, f2}
    Requests = {q1}
    Handlers = {p1, p2}
    Window = 2
    Ahead = 1
    Delay = 1
    MaxIndex = 2
    MaxTime = 6
    None = None
SYMMETRY Symmetric
INVARIANTS
    TypeOK
    NoSharedPath
    TerminalsAreSignable
    RequestAcceptedOnce
