------------------------------ MODULE MCLibrary ------------------------------
(***************************************************************************)
(* The parts of the library that a program uses between the statements it  *)
(* sends, each on a small instance: a run is one of "part", the variables  *)
(* of the others stay as they are at first.                                *)
(***************************************************************************)
EXTENDS Library, TLC

CONSTANTS MaxNodes, MaxInits

VARIABLES
    part,
    nodes,                                                      \* QExpressions
    declared, apps, meta, raised, schema, inits                 \* Definitions

-----------------------------------------------------------------------------
Cond(p, t, l, v) == [path |-> p, target |-> t, lookup |-> l, value |-> v]
IsOne    == Cond(<<>>, "column", "exact", <<1>>)
HasMany  == Cond(<<>>, "aggregate", "gt", <<1>>)
FarAway  == Cond(<<"parent", "next">>, "column", "not", <<1>>)
Near     == Cond(<<"next">>, "column", "exact", <<1>>)
Kwargs ==
    {<<IsOne>>, <<HasMany>>, <<IsOne, HasMany>>, <<Near, FarAway>>,
     <<Cond(<<>>, "column", "not", <<1>>)>>, <<Cond(<<>>, "column", "not_in", <<>>)>>,
     <<Cond(<<>>, "column", "exact", <<0>>)>>}
Conditions == UNION {{k[i] : i \in DOMAIN k} : k \in Kwargs}
QExpr == INSTANCE QExpressions
QExprVars == <<nodes>>

SetsVars == <<rows, queries, lists, hints>>
InstVars == <<table, links, backup, instances, adds, last, calls>>
PreVars  == <<querysets, prefetches, batches, awaits>>
TestsVars ==
    <<phase, kind, test, config, configs, base, inited, dbrows, tables, trx, saved, skipped>>

Rows == <<"red", "blue", "red">>

Graph == [boss |-> <<{1}, {}>>, team |-> <<{1, 2}, {}>>, badge |-> <<{}, {2}>>,
          tags |-> <<{1}, {1, 2}>>]
Ask(r, f, keys, to) ==
    [relations |-> r, prefetches |-> {[field |-> f, rows |-> keys, attr |-> to]}]
Prefetched ==
    {Ask("tags" :> {"nested"}, "boss", {1}, "a"), Ask(<<>>, "team", {2}, "b")}
Refreshed == {"boss" :> {}}
AssignedTo == {<<1, {2}>>}

Relation(n, k, to, by, through) ==
    [name |-> n, kind |-> k, to |-> to, related |-> by, through |-> through]
Relations ==
    {Relation(<<"x">>, "fk", "A", <<>>, <<>>), Relation(<<"y">>, "o2o", "B", <<"x">>, <<>>),
     Relation(<<"x">>, "m2m", "B", <<>>, <<>>), Relation(<<"z">>, "fk", "C", <<"False">>, <<>>),
     Relation(<<"w">>, "m2m", "A", <<"ws">>, <<"t">>)}
Def == INSTANCE Definitions WITH
    calls <- inits, MaxCalls <- MaxInits, Models <- {"A", "B", "C"}, Clients <- {"c1", "c2"},
    ClientOf <- [A |-> "c1", B |-> "c1", C |-> "c2"], MaxRelations <- 2
DefVars == <<declared, apps, meta, raised, schema, inits>>

Plain(t, n) == [type |-> t, n |-> n, off |-> 0]
FieldValues ==
    {Plain("int", n) : n \in {0, 1, 2, -7}}
        \cup {Plain("decimal", n) : n \in {5, 15, 25, 96, -5}}
        \cup {[type |-> "datetime", n |-> 3, off |-> o] : o \in {99, 0, 1, 2}}
        \cup {[type |-> "datetime", n |-> n, off |-> 99] : n \in {5, 7}}
        \cup {Plain("enum", 1), Plain("enum", 2), Plain("list", 1), Plain("str", 1),
              Plain("str", -1), Plain("text", 1), Plain("text", 2)}
\* UTC, and a zone with a summer: it has no local times 2 and 3, and 6 and 7 twice.
Utc == [first |-> 0, changes |-> <<>>]
TimeZones == {Utc, [first |-> 0, changes |-> 2 :> 2 @@ 6 :> 0]}
FldVars == <<field, tz, attr, cell, wrote, error, clock>>

ItemLists == {<<1, 2, 3>>, <<2, 1, 1>>}
BulkVars == <<stored, objects, bulk, runs, began, meanwhile>>

-----------------------------------------------------------------------------
Parts == {"QExpressions", "QuerySets", "Instances", "Prefetch", "Definitions",
          "TestHarness", "Fields", "BulkWrites"}

\* Three relations in all; and the parts that have many initial states have one
\* when they are not run.
Init ==
    /\ part \in Parts
    /\ Def!Init
    /\ part # "Definitions" => \A m \in DOMAIN declared : declared[m] = {}
    /\ Cardinality(UNION {{m} \X declared[m] : m \in DOMAIN declared}) <= 3
    /\ Fld!Init
    /\ part # "Fields" => field = [type |-> "IntField", null |-> TRUE, maximum |-> -1, minimum |-> -1,
                               auto |-> ""]
                          /\ tz = [use |-> FALSE, zone |-> Utc]
    /\ QExpr!Init /\ Sets!Init /\ Inst!Init /\ Pre!Init /\ Tests!Init /\ Bulk!Init

Next ==
    /\ UNCHANGED part
    /\ \/ /\ part = "QExpressions" /\ QExpr!Next
          /\ UNCHANGED <<SetsVars, InstVars, PreVars, DefVars, TestsVars, FldVars, BulkVars>>
       \/ /\ part = "QuerySets" /\ Sets!Next
          /\ UNCHANGED <<QExprVars, InstVars, PreVars, DefVars, TestsVars, FldVars, BulkVars>>
       \/ /\ part = "Instances" /\ Inst!Next
          /\ UNCHANGED <<QExprVars, SetsVars, PreVars, DefVars, TestsVars, FldVars, BulkVars>>
       \/ /\ part = "Prefetch" /\ Pre!Next
          /\ UNCHANGED <<QExprVars, SetsVars, InstVars, DefVars, TestsVars, FldVars, BulkVars>>
       \/ /\ part = "Definitions" /\ Def!Next
          /\ UNCHANGED <<QExprVars, SetsVars, InstVars, PreVars, TestsVars, FldVars, BulkVars>>
       \/ /\ part = "TestHarness" /\ Tests!Next
          /\ UNCHANGED <<QExprVars, SetsVars, InstVars, PreVars, DefVars, FldVars, BulkVars>>
       \/ /\ part = "Fields" /\ Fld!Next
          /\ UNCHANGED <<QExprVars, SetsVars, InstVars, PreVars, DefVars, TestsVars, BulkVars>>
       \/ /\ part = "BulkWrites" /\ Bulk!Next
          /\ UNCHANGED <<QExprVars, SetsVars, InstVars, PreVars, DefVars, TestsVars, FldVars>>

vars == <<part, QExprVars, SetsVars, InstVars, PreVars, DefVars, TestsVars, FldVars, BulkVars>>
Spec == Init /\ [][Next]_vars

\* The variables of the other parts do not change.
View ==
    <<part, CASE part = "QExpressions" -> QExprVars
              [] part = "QuerySets"    -> SetsVars
              [] part = "Instances"    -> InstVars
              [] part = "Prefetch"     -> PreVars
              [] part = "Definitions"  -> DefVars
              [] part = "TestHarness"  -> TestsVars
              [] part = "Fields"       -> FldVars
              [] part = "BulkWrites"   -> BulkVars>>

-----------------------------------------------------------------------------
\* The types of the variables of each part.
TypeOK ==
    /\ part \in Parts
    /\ part = "QExpressions" => QExpr!TypeOK
    /\ part = "QuerySets"    => Sets!TypeOK
    /\ part = "Instances"    => Inst!TypeOK
    /\ part = "Prefetch"     => Pre!TypeOK
    /\ part = "Definitions"  => Def!TypeOK
    /\ part = "TestHarness"  => Tests!TypeOK
    /\ part = "Fields"       => Fld!TypeOK
    /\ part = "BulkWrites"   => Bulk!TypeOK

\* The statement of a Q object selects what the program wrote (QExpressions).
ResolvesToMeaning == part = "QExpressions" => QExpr!ResolvesToMeaning
\* What a statement refers to is joined, and on one condition (QExpressions).
JoinsRight        == part = "QExpressions" => QExpr!JoinsRight
\* Each relation has its other side, in whatever order models come (Definitions).
RelationsPaired   == part = "Definitions" => Def!RelationsPaired
\* A table is created after those it refers to (Definitions).
TablesOrdered     == part = "Definitions" => Def!TablesOrdered
\* bulk_create() and bulk_update() write what is listed (BulkWrites).
BulkWritesExact   == part = "BulkWrites" => Bulk!BulkWritesExact
=============================================================================
