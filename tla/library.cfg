SPECIFICATION Spec
CONSTANTS
    Table <- Rows
    Methods = {"distinct"}
    Bounds = {0, 1}
    RequiresLimit = TRUE
    ForUpdate = TRUE
    IndexHint = TRUE
    WriteLimit = TRUE
    JoinedWrites = {"update"}
    MaxPk = 3
    RowNames = {1, 2}
    RelatedOf <- Graph
    Asks <- Prefetched
    Refetched <- Refreshed
    NewBosses <- AssignedTo
    MaxQuerysets = 3
    MaxPrefetches = 2
    MaxNodes = 4
    MaxQueries = 4
    MaxInstances = 2
    MaxAdds = 2
    MaxSaves = 4
    MaxAwaits = 2
    MaxInits = 4
    MaxTests = 4
    GivenValues <- FieldValues
    Members = {1, 2}
    Zones <- TimeZones
    Minute = 3
    Day = 2
    MaxTime = 2
    OwnKeys = {1, 2}
    MaxKey = 6
    BulkValues = {1, 2}
    BulkLists <- ItemLists
    BulkFilters = {{1}, {1, 2}}
    BatchSizes = {0, 2}
    MaxObjects = 3
    MaxRuns = 2
    MaxOthers = 1
VIEW View
INVARIANTS TypeOK ResolvesToMeaning JoinsRight ReadsAgree WritesItsRows InsertedOnce
    PrefetchExact RelationsPaired TablesOrdered TestsIsolated ReadsBack BulkWritesExact
PROPERTIES ClonesIndependent SaveWritesItsRow
CHECK_DEADLOCK FALSE
