SPECIFICATION Spec
CONSTANTS
    a = a
    b = b
    p = p
    q = q
    Tasks = {a, b}
    Client = Client
    NoTask = NoTask
    Pools = {p}
    NoPool = NoPool
    PoolSize = 1
    MaxDepth = 1
    Backend = "psycopg"
    Faults = {"stmt"}
    Features = {}
    Cold = FALSE
INVARIANTS
    AutocommitDurable
CHECK_DEADLOCK FALSE
