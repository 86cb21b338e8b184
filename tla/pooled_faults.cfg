SPECIFICATION Spec
CONSTANTS
    a = a
    b = b
    p = p
    q = q
    Tasks = {a, b}
    Client = Client
    NoTask = NoTask
    Pools = {p, q}
    NoPool = NoPool
    PoolSize = 1
    MaxDepth = 2
    Backend = "asyncpg"
    Faults = {"connect", "begin", "stmt", "commit", "rollback", "cancel"}
    Features = {"nested", "bulk", "captured"}
    Cold = TRUE
SYMMETRY TaskSymmetry
VIEW ControlView
INVARIANTS
    ConnectionOwned
    BulkAtomic
CHECK_DEADLOCK FALSE
