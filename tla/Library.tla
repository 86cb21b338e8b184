------------------------------- MODULE Library -------------------------------
(***************************************************************************)
(* Six of the parts that a program uses between the statements it sends,   *)
(* side by side: querysets, the instances of a model, what is prefetched   *)
(* on instances, the harness that tests run in, the values of a field, and *)
(* the writes of many instances.  They share no state.                     *)
(***************************************************************************)
EXTENDS Integers, Sequences, FiniteSets

CONSTANTS
    Table, Methods, Bounds, MaxQueries,
    RequiresLimit, ForUpdate, IndexHint, WriteLimit, JoinedWrites,      \* QuerySets
    MaxPk, RowNames, MaxInstances, MaxAdds, MaxSaves,       \* Instances
    RelatedOf, Asks, Refetched, NewBosses, MaxQuerysets, MaxPrefetches, MaxAwaits, \* Prefetch
    MaxTests,                                               \* TestHarness
    GivenValues, Members, Zones, Minute, Day, MaxTime,      \* Fields
    OwnKeys, MaxKey, BulkValues, BulkLists, BulkFilters, BatchSizes, MaxObjects, MaxRuns,
    MaxOthers                                               \* BulkWrites

VARIABLES
    rows, queries, lists, hints,                                \* QuerySets
    table, links, backup, instances, adds, last, calls,         \* Instances
    querysets, prefetches, batches, awaits,                     \* Prefetch
    phase, kind, test, config, configs, base, inited, dbrows, tables, trx, saved, skipped,
                                                                \* TestHarness
    field, tz, attr, cell, wrote, error, clock,                 \* Fields
    stored, objects, bulk, runs, began, meanwhile               \* BulkWrites

Sets  == INSTANCE QuerySets
Inst  == INSTANCE Instances WITH rows <- table, MaxCalls <- MaxSaves, Names <- RowNames
Pre   == INSTANCE Prefetch WITH
    lists <- prefetches, calls <- awaits, MaxCalls <- MaxAwaits,
    Related <- RelatedOf, Fetched <- Refetched
Tests == INSTANCE TestHarness WITH rows <- dbrows, backup <- saved
Fld   == INSTANCE Fields WITH Given <- GivenValues, raised <- error
Bulk  == INSTANCE BulkWrites WITH
    table <- stored, query <- bulk, awaits <- runs, start <- began, others <- meanwhile,
    Values <- BulkValues, Lists <- BulkLists, Filters <- BulkFilters, MaxAwaits <- MaxRuns

\* The keys of a table are numbers, and its rows have a color.
ASSUME SetsAssumption ==
    /\ IsFiniteSet(DOMAIN Table) /\ DOMAIN Table \subseteq Int
    /\ Table \in [DOMAIN Table -> {"red", "blue"}]
    /\ Bounds \subseteq Nat

\* Values are numbers with a type; a list is not the text that is no JSON, and no time
\* zone ever has the offset that stands for naive times.
ASSUME FieldsAssumption ==
    /\ \A v \in GivenValues :
          /\ v \in [type : {"int", "decimal", "datetime", "enum", "list", "str", "text"},
                    n : Int, off : Int]
          /\ v.type = "list" => v.n # Fld!Invalid
    /\ \A z \in Zones :
          /\ z.first \in Int \ {Fld!Naive}
          /\ \A c \in DOMAIN z.changes : c \in Int /\ z.changes[c] \in Int \ {Fld!Naive}
    /\ Members \subseteq Int
    /\ Minute \in Nat \ {0} /\ Day \in Nat \ {0}

\* What is written is a sequence of instances, and a batch has a size or none.
ASSUME BulkAssumption ==
    (\A items \in BulkLists : items \in Seq(Nat)) /\ BatchSizes \subseteq Nat

\* No method changes the rows of another query (QuerySets).
ClonesIndependent == Sets!ClonesIndependent
\* Reading a queryset in another way agrees with its rows (QuerySets).
ReadsAgree        == Sets!ReadsAgree
\* update() and delete() write the rows of their queryset (QuerySets).
WritesItsRows     == Sets!WritesItsRows
\* An instance makes one row (Instances).
InsertedOnce      == Inst!InsertedOnce
\* save() writes the row of its instance and no other (Instances).
SaveWritesItsRow  == Inst!SaveWritesItsRow
\* Each instance gets the related rows that were asked for (Prefetch).
PrefetchExact     == Pre!PrefetchExact
\* No test sees what another one left (TestHarness).
TestsIsolated     == Tests!TestsIsolated
\* A row means what was written, whichever way it went (Fields).
ReadsBack         == Fld!ReadsBack
\* bulk_update() writes what is listed, whatever other tasks do (BulkWrites).
UpdatesListed     == Bulk!UpdatesListed
=============================================================================
