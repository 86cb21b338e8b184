SPECIFICATION Spec
CONSTANTS
    a = a
    b = b
    p = p
    q = q
    Tasks = {a, b}
    Client = Client
    NoTask = NoTask
    Pools = {p}
    NoPool = NoPool
    PoolSize = 1
    MaxDepth = 2
    Backend = "asyncpg"
    Faults = {"stmt", "tme"}
    Features = {"nested", "manual"}
    Cold = FALSE
INVARIANTS
    TypeOK
    BlockAllOrNothing
PROPERTY
    StoreSpec
