------------------------------ MODULE Instances ------------------------------
(***************************************************************************)
(* Instances of a model (models.py) and their relations                    *)
(* (fields/relational.py): what an instance knows of its row, what save(), *)
(* delete(), clone() and refresh_from_db() make of both, and the rows of a *)
(* many-to-many relation, which add() writes in two statements.  What is   *)
(* fetched of a relation is the subject of Prefetch.                       *)
(*                                                                         *)
(* The model has a generated primary key, a field "name" stored in another *)
(* column (source_field) and a foreign key "boss" to itself, which the     *)
(* database does not check (db_constraint=False).  The database (external) *)
(* is the table, the through table, and one transaction whose rollback     *)
(* restores them.                                                          *)
(***************************************************************************)
EXTENDS Naturals, Sequences, FiniteSets, Functions, TLC

CONSTANTS
    MaxPk,          \* primary keys the table has room for
    Names,          \* values of name
    MaxInstances,   \* Python objects in a run
    MaxAdds,        \* calls of add() under way at once
    MaxCalls        \* calls in a run

VARIABLES
    rows,           \* the table: primary key -> row
    links,          \* the through table
    backup,         \* both as they were when the transaction began
    instances,      \* the Python objects
    adds,           \* add() calls between their two statements
    last,           \* the last call: what, on which instance, and its exception or ""
    calls           \* calls so far

vars == <<rows, links, backup, instances, adds, last, calls>>

None  == 0          \* Python's None, and NULL
Pks   == 1..MaxPk
NoTransaction == <<>>

Fields  == {"name", "boss"}
Row     == [name : Names, boss : Pks \cup {None}]

\* saved is _saved_in_db, custom is _custom_generated_pk, has is what a partial
\* instance has of its fields.  inserts counts its rows.
Object ==
    [pk : Pks \cup {None}, name : Names, boss : Pks \cup {None},
     saved : BOOLEAN, custom : BOOLEAN,
     has : SUBSET ({"pk"} \cup Fields), inserts : 0..2]

All == {"pk"} \cup Fields
IsPartial(o) == o.has # All

Init ==
    /\ rows = [k \in {1} |-> [name |-> CHOOSE n \in Names : TRUE, boss |-> None]]
    /\ links = {} /\ backup = NoTransaction /\ instances = <<>> /\ adds = {}
    /\ last = <<"", 0, "">> /\ calls = 0

-----------------------------------------------------------------------------
(* Making instances *)

Room == Len(instances) < MaxInstances
Quiet == last' = <<"", 0, "">>
NewObject(o) == Room /\ instances' = Append(instances, o)

\* __init__() and _set_kwargs(): a primary key that is passed is kept for the insert.
__init__(n, pk) ==
    /\ NewObject([pk |-> pk, name |-> n, boss |-> None, saved |-> FALSE,
                  custom |-> pk # None, has |-> All, inserts |-> 0])
    /\ Quiet /\ UNCHANGED <<rows, links, backup, adds>>

\* _init_from_db(): of a select, with only() of some fields
_init_from_db(k, has) ==
    /\ k \in DOMAIN rows
    /\ NewObject([pk |-> IF "pk" \in has THEN k ELSE None, name |-> rows[k].name,
                  boss |-> rows[k].boss, saved |-> TRUE, custom |-> FALSE,
                  has |-> has, inserts |-> 0])
    /\ Quiet /\ UNCHANGED <<rows, links, backup, adds>>

\* clone() copies what is cached too; the primary key is for the insert to make.
clone(i, pk) ==
    /\ "pk" \in instances[i].has
    /\ NewObject([instances[i] EXCEPT !.pk = pk, !.saved = FALSE, !.inserts = 0])
    /\ Quiet /\ UNCHANGED <<rows, links, backup, adds>>

-----------------------------------------------------------------------------
(* Attributes *)

Assign(i, o) ==
    /\ instances' = [instances EXCEPT ![i] = o]
    /\ Quiet /\ UNCHANGED <<rows, links, backup, adds>>

SetName(i, n) ==
    Assign(i, [instances[i] EXCEPT !.name = n, !.has = @ \cup {"name"}])

SetBossId(i, k) ==
    Assign(i, [instances[i] EXCEPT !.boss = k, !.has = @ \cup {"boss"}])

-----------------------------------------------------------------------------
(* save(), delete() and refresh_from_db() *)

Fail(op, i, e) ==
    last' = <<op, i, e>> /\ UNCHANGED <<rows, links, backup, instances, adds>>
Done(op, i) == last' = <<op, i, "">>
Values(o, fields, old) ==
    [name |-> IF "name" \in fields THEN o.name ELSE old.name,
     boss |-> IF "boss" \in fields THEN o.boss ELSE old.boss]
Stored(o) == Values(o, Fields, [name |-> o.name, boss |-> None])
NextPk == IF rows = <<>> THEN 1 ELSE CHOOSE k \in 1..(MaxPk + 1) :
              /\ k - 1 \in DOMAIN rows /\ \A l \in DOMAIN rows : l < k

\* A bug: _saved_in_db is not set.
InsertedUnsaved(i, k, pk, count) ==
    /\ rows' = [l \in DOMAIN rows \cup {k} |-> IF l = k THEN Stored(instances[i]) ELSE rows[l]]
    /\ instances' = [instances EXCEPT ![i].pk = pk,
                                      ![i].inserts = IF count /\ @ < 2 THEN @ + 1 ELSE @]
    /\ Done("save", i) /\ UNCHANGED <<links, backup, adds>>

\* execute_insert(): the database makes the key, unless it is the instance's own;
\* then what the database makes of None is not read back.
Inserted(i, k, pk, count) ==
    /\ rows' = [l \in DOMAIN rows \cup {k} |-> IF l = k THEN Stored(instances[i]) ELSE rows[l]]
    /\ instances' = [instances EXCEPT ![i].pk = pk, ![i].saved = TRUE,
                                      ![i].inserts = IF count /\ @ < 2 THEN @ + 1 ELSE @]
    /\ Done("save", i) /\ UNCHANGED <<links, backup, adds>>

execute_insert(i, count) ==
    LET o == instances[i]
    IN  IF ~o.custom THEN NextPk <= MaxPk /\ Inserted(i, NextPk, NextPk, count)
        ELSE IF o.pk = None THEN NextPk <= MaxPk /\ Inserted(i, NextPk, None, count)
        ELSE IF o.pk \in DOMAIN rows THEN Fail("save", i, "IntegrityError")
        ELSE Inserted(i, o.pk, o.pk, count)

\* A bug: the statement has no WHERE.
ExecuteUpdateAll(i, fields, force) ==
    /\ rows' = [k \in DOMAIN rows |-> Values(instances[i], fields, rows[k])]
    /\ instances' = [instances EXCEPT ![i].saved = TRUE]
    /\ Done("save", i) /\ UNCHANGED <<links, backup, adds>>

\* execute_update(): no row is no error, unless the update is forced
execute_update(i, fields, force) ==
    LET o == instances[i]
    IN  IF force /\ o.pk \notin DOMAIN rows THEN Fail("save", i, "IntegrityError")
        ELSE /\ rows' = [k \in DOMAIN rows |->
                            IF k = o.pk THEN Values(o, fields, rows[k]) ELSE rows[k]]
             /\ instances' = [instances EXCEPT ![i].saved = TRUE]
             /\ Done("save", i) /\ UNCHANGED <<links, backup, adds>>

\* update_fields is Fields when it is not given.
save(i, fields, given, mode) ==
    LET o == instances[i]
    IN  IF IsPartial(o) /\ (~given \/ "pk" \notin o.has \/ ~(fields \subseteq o.has))
        THEN Fail("save", i, "IncompleteInstanceError")
        ELSE IF mode = "create" \/ (mode = "" /\ ((~o.saved /\ ~given) \/ o.pk = None))
        THEN execute_insert(i, mode = "")
        ELSE execute_update(i, fields, mode = "update")

delete(i) ==
    IF ~instances[i].saved THEN Fail("delete", i, "OperationalError")
    ELSE /\ rows' = [k \in DOMAIN rows \ {instances[i].pk} |-> rows[k]]
         /\ links' = {l \in links : instances[i].pk \notin {l[1], l[2]}}
         /\ Done("delete", i) /\ UNCHANGED <<backup, instances, adds>>

\* Without fields it goes through the names of the columns: that of "name" is
\* another one.
refresh_from_db(i, fields) ==
    LET o == instances[i]
        read == IF fields = {} THEN {"boss"} ELSE fields
    IN  IF ~o.saved THEN Fail("refresh", i, "OperationalError")
        ELSE IF o.pk \notin DOMAIN rows THEN Fail("refresh", i, "DoesNotExist")
        ELSE /\ instances' = [instances EXCEPT
                    ![i].name = IF "name" \in read THEN rows[o.pk].name ELSE @,
                    ![i].boss = IF "boss" \in read THEN rows[o.pk].boss ELSE @]
             /\ Done("refresh", i) /\ UNCHANGED <<rows, links, backup, adds>>

-----------------------------------------------------------------------------
(* ManyToManyRelation *)

\* add() selects the rows there are, and then inserts those it did not find.
AddSelect(i, ks) ==
    /\ Cardinality(adds) < MaxAdds
    /\ IF ~instances[i].saved THEN Fail("add", i, "OperationalError")
       ELSE LET found == {k \in ks : <<instances[i].pk, k>> \in links}
            IN  /\ adds' = IF ks = found THEN adds
                          ELSE adds \cup {[of |-> i, pk |-> instances[i].pk, new |-> ks \ found]}
                /\ Done("select", i) /\ UNCHANGED <<rows, links, backup, instances>>

\* The through table has a unique index and refers to the rows.
AddInsert(a) ==
    LET pairs == {<<a.pk, k>> : k \in a.new}
        refused == pairs \cap links # {} \/ ~(a.new \cup {a.pk} \subseteq DOMAIN rows)
    IN  /\ links' = IF refused THEN links ELSE links \cup pairs
        /\ adds' = adds \ {a}
        /\ last' = <<"add", a.of, IF ~refused THEN ""
                                 ELSE IF pairs \cap links # {} THEN "already added"
                                 ELSE "IntegrityError">>
        /\ UNCHANGED <<rows, backup, instances>>

\* remove(), and clear() when ks is every key
_remove_or_clear(i, ks) ==
    /\ links' = links \ ({instances[i].pk} \X ks)
    /\ Done("remove", i) /\ UNCHANGED <<rows, backup, instances, adds>>

(* A block of in_transaction() around some of these calls *)
Begin ==
    /\ backup = NoTransaction /\ backup' = <<rows, links>>
    /\ Quiet /\ UNCHANGED <<rows, links, instances, adds>>
Finish(commit) ==
    /\ backup # NoTransaction /\ backup' = NoTransaction
    /\ IF commit THEN UNCHANGED <<rows, links>>
       ELSE rows' = backup[1] /\ links' = backup[2]
    /\ Quiet /\ UNCHANGED <<instances, adds>>

Saves == {<<Fields, FALSE>>, <<{"name"}, TRUE>>}
Call ==
    \/ \E n \in Names, k \in Pks \cup {None} : __init__(n, k)
    \/ \E k \in Pks, has \in {All, {"pk", "name"}, {"name"}} : _init_from_db(k, has)
    \/ \E i \in DOMAIN instances :
        \/ clone(i, None) \/ delete(i)
        \/ \E n \in Names : SetName(i, n)
        \/ \E k \in Pks \cup {None} : SetBossId(i, k)
        \/ \E s \in Saves, mode \in {"", "create", "update"} : save(i, s[1], s[2], mode)
        \/ \E f \in {{}, {"name"}} : refresh_from_db(i, f)
        \/ \E k \in Pks : AddSelect(i, {k}) \/ _remove_or_clear(i, {k})
    \/ \E a \in adds : AddInsert(a)
    \/ Begin \/ \E commit \in BOOLEAN : Finish(commit)

Next == calls < MaxCalls /\ calls' = calls + 1 /\ Call
Spec == Init /\ [][Next]_vars

-----------------------------------------------------------------------------
TypeOK ==
    /\ DOMAIN rows \subseteq Pks /\ \A k \in DOMAIN rows : rows[k] \in Row
    /\ links \subseteq (Pks \X Pks)
    /\ \A i \in DOMAIN instances : instances[i] \in Object

(* An instance makes one row, however it is changed, saved, refreshed, and  *)
(* whatever is rolled back in between; force_create apart, and apart from   *)
(* an instance whose own key was cleared by clone(), which never learns the *)
(* key of its row (base/executor.py:209).                                   *)
InsertedOnce ==
    \A i \in DOMAIN instances :
        LET o == instances[i] IN (o.custom /\ o.pk = None) \/ o.inserts < 2

(* A save() that raises nothing leaves the values it was to write in the    *)
(* row of the instance, and every other row and column alone, unless there  *)
(* is no such row any more: it was deleted or its insert rolled back, which *)
(* the instance does not know of (models.py:963).                           *)
SaveWritesItsRow ==
    [][\A i \in DOMAIN instances : last' = <<"save", i, "">> /\ calls # calls' =>
        LET o == instances'[i]
            others == {k \in DOMAIN rows : k # o.pk}
        IN  /\ o.pk # None => \A k \in others : rows'[k] = rows[k]
            /\ o.pk \in DOMAIN rows' =>
                \/ Stored(o) = rows'[o.pk]
                \/ /\ o.pk \in DOMAIN rows /\ rows'[o.pk].name = o.name
                   /\ rows'[o.pk].boss = rows[o.pk].boss
            /\ o.pk \notin DOMAIN rows' => (rows' = rows \/ o.custom)]_vars
=============================================================================
