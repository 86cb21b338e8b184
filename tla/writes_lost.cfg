SPECIFICATION Spec
CONSTANTS
    a = a
    b = b
    c = c
    Tasks = {a, b}
    NoTask = NoTask
    Ops = {"update_or_create"}
    Serialised = TRUE
INVARIANTS
    DefaultsApplied
