SPECIFICATION Spec
CONSTANTS
    a = a
    b = b
    x = x
    y = y
    Tasks = {a, b}
    Main = a
    Aliases = {x, y}
    Default = x
    Versions = {1, 2}
    MaxClients = 4
    MaxStorages = 3
    MaxDepth = 2
    Features = {"init", "discard", "reuse"}
VIEW HeapView
INVARIANTS
    TypeOK
    NoEndedWrapper
    BlockGetsItsWrapper
    ClientsMatchConfig
PROPERTY
    LostOnlyToAnother
CHECK_DEADLOCK FALSE
