\* A terminal is revoked while its first request is handled.
SPECIFICATION Spec
CONSTANTS
    Forms = {f1, f2}
    Requests = {q1}
    Handlers = {p1, p2}
    Window = 2
    Ahead = 1
    Delay = 1
    MaxIndex = 2
    MaxTime = 6
    None = None
PROPERTIES
    RevokedIsFinal
