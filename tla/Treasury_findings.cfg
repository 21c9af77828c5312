\* By hand: TLC reports the first of these it meets; leave one to see its trace.
SPECIFICATION Spec
CONSTANTS
    Handlers = {h1, h2, h3}
    Managers = {m1}
    Cap = 1
    MaxPool = 3
    MaxTaken = 1
    MaxSpent = 2
    None = None
SYMMETRY Symmetric
INVARIANTS
    NoStuckRow
    SetupResumes
    CapHolds
    ModuleIsEnabled
    DeployedIsThere
