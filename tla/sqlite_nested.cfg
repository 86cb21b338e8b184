SPECIFICATION Spec
CONSTANTS
    a = a
    b = b
    Tasks = {a}
    Roots = {a}
    Client = Client
    NoTask = NoTask
    MaxDepth = 2
    Faults = {}
    Features = {"nested"}
    Cold = FALSE
    Joined = TRUE
INVARIANTS
    BlockErrorRollsBack
CHECK_DEADLOCK FALSE
