SPECIFICATION Spec
CONSTANTS
    a = a
    b = b
    Tasks = {a, b}
    Roots = {a, b}
    Client = Client
    NoTask = NoTask
    MaxDepth = 1
    Faults = {}
    Features = {}
    Cold = TRUE
    Joined = TRUE
INVARIANTS
    LockHolderAlive
CHECK_DEADLOCK FALSE
