SPECIFICATION Spec
CONSTANTS
    a = a
    b = b
    Tasks = {a, b}
    Roots = {a}
    Client = Client
    NoTask = NoTask
    MaxDepth = 2
    Faults = {"stmt"}
    Features = {"nested", "manual", "spawn"}
    Cold = FALSE
    Joined = TRUE
INVARIANTS
    TypeOK
    BlockAtomic
    TransactionIsolated
    IdleConnectionClean
    LockExclusion
PROPERTY
    StoreSpec
