SPECIFICATION PartsSpec
CONSTANTS
    a = a
    b = b
    p = p
    Tasks = {a, b}
    Client = Client
    NoTask = NoTask
    Pools = {p}
    NoPool = NoPool
    PoolSize = 1
    MaxDepth = 1
    Backend = "mysql"
    Faults = {"stmt", "tme"}
    SqliteFaults = {"stmt"}
    Features = {}
    Cold = FALSE
INVARIANT
    BlockErrorRollsBack
PROPERTIES
    WaitersServed
    PoolServed
