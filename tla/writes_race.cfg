SPECIFICATION FairSpec
CONSTANTS
    a = a
    b = b
    c = c
    Tasks = {a, b, c}
    NoTask = NoTask
    Ops = {"get_or_create", "update_or_create", "save", "delete"}
    Serialised = FALSE
INVARIANTS
    TypeOK
    CreatedOnce
    RaceResolved
    ValueKept
    ErrorLeavesNothing
PROPERTY
    CallsEnd
