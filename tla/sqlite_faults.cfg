SPECIFICATION Spec
CONSTANTS
    a = a
    b = b
    Tasks = {a, b}
    Roots = {a}
    Client = Client
    NoTask = NoTask
    MaxDepth = 2
    Faults = {"connect", "begin", "stmt", "commit", "rollback", "cancel", "tme"}
    Features = {"nested", "manual", "bulk", "spawn", "captured"}
    Cold = TRUE
    Joined = TRUE
VIEW ControlView
INVARIANTS
    WrapperLockHeld
CHECK_DEADLOCK FALSE
