------------------------------ MODULE BulkWrites ------------------------------
(***************************************************************************)
(* bulk_create() and bulk_update() (queryset.py): a list or a generator of *)
(* instances, written in chunks of batch_size, each chunk in statements of *)
(* its own, while other tasks change the instances and the table.          *)
(*                                                                         *)
(* The model has a primary key that the database generates unless the      *)
(* instance has one of its own, and one field.  The table is external: it  *)
(* generates keys as SQLite does, and a statement (execute_many() of one   *)
(* chunk outside of a block, or an UPDATE) happens at once or fails as a   *)
(* whole.  A row remembers which object of which await it is of.           *)
(***************************************************************************)
EXTENDS Naturals, Sequences, FiniteSets, SequencesExt

CONSTANTS
    OwnKeys,        \* primary keys that instances are given, if any
    MaxKey,         \* keys there is room for
    Values,         \* values of the field
    Lists,          \* which instances are written, in order
    Filters,        \* the values that a queryset lets through
    BatchSizes,     \* batch_size, 0 when it is not given
    MaxObjects, MaxAwaits, MaxOthers

VARIABLES
    table,          \* primary key -> row
    objects,        \* the instances
    query,          \* the BulkCreateQuery or BulkUpdateQuery, or one that was refused
    awaits,         \* of that query
    start,          \* the rows there were when it was made that nobody deleted since
    others          \* statements of other tasks so far

vars == <<table, objects, query, awaits, start, others>>

None == 0
Nobody == <<>>
Default == CHOOSE v \in Values : TRUE
Row(value, by) == [value |-> value, by |-> by]
With(rows, k, row) == [l \in DOMAIN rows \cup {k} |-> IF l = k THEN row ELSE rows[l]]
NoQuery == [kind |-> "none"]
Refused == [kind |-> "refused"]

Init ==
    /\ table = With(<<>>, 1, Row(Default, Nobody))
    /\ objects = <<>> /\ query = NoQuery /\ awaits = 0 /\ start = table /\ others = 0

-----------------------------------------------------------------------------
(* The program *)

\* Model(), with a key of its own or without
__init__(pk) ==
    /\ query = NoQuery /\ Len(objects) < MaxObjects
    /\ objects' = Append(objects, [pk |-> pk, own |-> pk # None, value |-> Default])
    /\ UNCHANGED <<table, query, awaits, start, others>>

\* An assignment, by whichever task has the instance
Assign(i, v) ==
    /\ query.kind \in {"create", "update"} /\ objects[i].value # v
    /\ others < MaxOthers /\ others' = others + 1
    /\ objects' = [objects EXCEPT ![i].value = v]
    /\ UNCHANGED <<table, query, awaits, start>>

\* Another task adds a row, or deletes one
Another(k) ==
    /\ query.kind \in {"create", "update"} /\ others < MaxOthers /\ others' = others + 1
    /\ IF k \in DOMAIN table
       THEN /\ table[k].by = Nobody
            /\ table' = [l \in DOMAIN table \ {k} |-> table[l]]
            /\ start' = [l \in DOMAIN start \ {k} |-> start[l]]
       ELSE /\ table' = With(table, k, Row(Default, Nobody))
            /\ UNCHANGED start
    /\ UNCHANGED <<objects, query, awaits>>

-----------------------------------------------------------------------------
(* Making a query *)

\* A bug: a last chunk that is not full is left out.
ChunkFull(items, size) ==
    IF size = 0 THEN <<items>>
    ELSE [c \in 1..(Len(items) \div size) |-> SubSeq(items, (c - 1) * size + 1, c * size)]

\* utils.chunk(): all of it at once when there is no batch_size
chunk(items, size) ==
    IF size = 0 THEN <<items>>
    ELSE [c \in 1..((Len(items) + size - 1) \div size) |->
            SubSeq(items, (c - 1) * size + 1, IF c * size < Len(items) THEN c * size ELSE Len(items))]

Is(i) == i \in 1..Len(objects)
Query(kind, mode, filter, items, once, size) ==
    [kind |-> kind, mode |-> mode, filter |-> filter, given |-> items, items |-> items,
     once |-> once, size |-> size, chunks |-> <<>>, statements |-> <<>>, queries |-> <<>>,
     built |-> {}, at |-> 0, count |-> 0, state |-> "made"]
Made(q) ==
    /\ query = NoQuery /\ query' = q /\ start' = table
    /\ UNCHANGED <<table, objects, awaits, others>>

\* bulk_create(): what is to be done about a key that is there already
bulk_create(items, once, size, ignore_conflicts, update_fields, on_conflict) ==
    /\ \A p \in DOMAIN items : Is(items[p])
    /\ Made(IF \/ ignore_conflicts /\ update_fields
               \/ ~ignore_conflicts /\ update_fields # on_conflict
            THEN Refused
            ELSE Query("create", IF ignore_conflicts THEN "ignore"
                                 ELSE IF update_fields THEN "update" ELSE "raise",
                       Values, items, once, size))

\* bulk_update(), of a queryset that lets some values through: looking for an
\* instance without a key takes a generator to its end.
bulk_update(filter, items, once, size) ==
    /\ \A p \in DOMAIN items : Is(items[p])
    /\ Made(IF \E p \in DOMAIN items : objects[items[p]].pk = None THEN Refused
            ELSE [Query("update", "", filter, items, once, size) EXCEPT
                    !.items = IF once THEN <<>> ELSE @])

-----------------------------------------------------------------------------
(* bulk_create(), awaited *)

Idle == query.kind \in {"create", "update"} /\ query.state # "running"
StartCreate ==
    /\ query.kind = "create" /\ Idle /\ awaits < MaxAwaits /\ awaits' = awaits + 1
    /\ query' = [query EXCEPT !.chunks = chunk(query.items, query.size), !.state = "running",
                              !.items = IF query.once THEN <<>> ELSE @]
    /\ UNCHANGED <<table, objects, start, others>>

\* Where the objects of the chunks that are left begin
Position(q) == Len(q.given) - Len(FlattenSeq(q.chunks))

\* The next chunk: the values of its instances, those with keys of their own first
Prepared(items, from, own) ==
    LET each == [p \in DOMAIN items |->
                    [at |-> from + p, own |-> objects[items[p]].own,
                     pk |-> objects[items[p]].pk, value |-> objects[items[p]].value]]
        those == SelectSeq(each, LAMBDA o : o.own = own)
    IN  IF those = <<>> THEN <<>> ELSE <<those>>
NextChunk ==
    /\ query.kind = "create" /\ query.state = "running" /\ query.statements = <<>>
    /\ query.chunks # <<>>
    /\ LET items == Head(query.chunks)
           from == Position(query)
       IN  query' = [query EXCEPT !.chunks = Tail(@),
                        !.statements = Prepared(items, from, TRUE) \o Prepared(items, from, FALSE)]
    /\ UNCHANGED <<table, objects, awaits, start, others>>

\* The table after one row of a statement, or that there is a conflict (external)
Largest(rows) == CHOOSE k \in DOMAIN rows \cup {0} : \A l \in DOMAIN rows : l <= k
Insert(st, o) ==
    LET k == IF o.own THEN o.pk ELSE Largest(st.rows) + 1
        row == Row(o.value, <<awaits, o.at>>)
    IN  IF st.conflict THEN st
        ELSE IF k \notin DOMAIN st.rows THEN [st EXCEPT !.rows = With(@, k, row)]
        ELSE IF query.mode = "ignore" THEN st
        ELSE IF query.mode = "update" THEN [st EXCEPT !.rows[k].value = o.value]
        ELSE [st EXCEPT !.conflict = TRUE]

\* execute_many(): all of its rows or none; what it raises ends the query, which
\* leaves in a generator what it has not taken.
execute_many ==
    /\ query.kind = "create" /\ query.statements # <<>>
    /\ LET st == FoldLeft(Insert, [rows |-> table, conflict |-> FALSE], Head(query.statements))
       IN  /\ Cardinality(DOMAIN st.rows) <= MaxKey
           /\ IF st.conflict
              THEN /\ query' = [query EXCEPT !.chunks = <<>>, !.statements = <<>>,
                            !.items = IF query.once THEN FlattenSeq(query.chunks) ELSE @,
                            !.state = "failed"]
                   /\ UNCHANGED table
              ELSE /\ table' = st.rows
                   /\ query' = [query EXCEPT !.statements = Tail(@)]
    /\ UNCHANGED <<objects, awaits, start, others>>

EndCreate ==
    /\ query.kind = "create" /\ query.state = "running"
    /\ query.statements = <<>> /\ query.chunks = <<>>
    /\ query' = [query EXCEPT !.state = "done"]
    /\ UNCHANGED <<table, objects, awaits, start, others>>

-----------------------------------------------------------------------------
(* bulk_update() *)

\* _make_query(): a statement for each chunk, put after those of earlier calls
Case(items) ==
    [p \in DOMAIN items |-> [pk |-> objects[items[p]].pk, value |-> objects[items[p]].value]]
_make_query(q) ==
    LET chunks == chunk(q.items, q.size)
        made == [c \in DOMAIN chunks |-> Case(chunks[c])]
    IN  [q EXCEPT !.queries = @ \o made,
                  !.built = @ \cup UNION {ToSet(made[c]) : c \in DOMAIN made}]

sql ==
    /\ query.kind = "update" /\ Idle /\ query.queries = <<>>
    /\ query' = _make_query(query)
    /\ UNCHANGED <<table, objects, awaits, start, others>>

StartUpdate ==
    /\ query.kind = "update" /\ Idle /\ awaits < MaxAwaits /\ awaits' = awaits + 1
    /\ query' = [_make_query(query) EXCEPT !.state = "running", !.at = 1, !.count = 0]
    /\ UNCHANGED <<table, objects, start, others>>

\* What UPDATE ... SET field = CASE ... WHERE pk IN ... sets, of those it selects
Chosen(case, k) ==
    case[CHOOSE p \in DOMAIN case : /\ case[p].pk = k
                                    /\ \A r \in 1..(p - 1) : case[r].pk # k].value
Selected(case) ==
    {k \in DOMAIN table : (\E p \in DOMAIN case : case[p].pk = k) /\ table[k].value \in query.filter}

\* A CASE of nothing is refused before it is sent.
execute_query ==
    /\ query.kind = "update" /\ query.state = "running" /\ query.at <= Len(query.queries)
    /\ LET case == query.queries[query.at]
           rows == Selected(case)
       IN  IF case = <<>>
           THEN query' = [query EXCEPT !.state = "failed"] /\ UNCHANGED table
           ELSE /\ table' = [k \in DOMAIN table |->
                                IF k \in rows THEN [table[k] EXCEPT !.value = Chosen(case, k)]
                                ELSE table[k]]
                /\ query' = [query EXCEPT !.at = @ + 1, !.count = @ + Cardinality(rows)]
    /\ UNCHANGED <<objects, awaits, start, others>>

EndUpdate ==
    /\ query.kind = "update" /\ query.state = "running" /\ query.at > Len(query.queries)
    /\ query' = [query EXCEPT !.state = "done"]
    /\ UNCHANGED <<table, objects, awaits, start, others>>

Next ==
    \/ \E pk \in OwnKeys \cup {None} : __init__(pk)
    \/ \E i \in DOMAIN objects, v \in Values : Assign(i, v)
    \/ \E k \in OwnKeys : Another(k)
    \/ /\ query = NoQuery
       /\ \E items \in Lists, once \in BOOLEAN, size \in BatchSizes :
            \/ \E ignore, update, on \in BOOLEAN :
                    bulk_create(items, once, size, ignore, update, on)
            \/ \E filter \in Filters : bulk_update(filter, items, once, size)
    \/ StartCreate \/ NextChunk \/ execute_many \/ EndCreate
    \/ sql \/ StartUpdate \/ execute_query \/ EndUpdate

Spec == Init /\ [][Next]_vars

-----------------------------------------------------------------------------
TypeOK ==
    /\ DOMAIN table \subseteq 1..(MaxKey + 1)
    /\ \A k \in DOMAIN table : table[k].value \in Values
    /\ \A i \in DOMAIN objects : objects[i].own = (objects[i].pk # None)
    /\ query.kind \in {"none", "refused", "create", "update"}

\* The rows that an object of an await made
RowsOf(a, p) == {k \in DOMAIN table : table[k].by = <<a, p>>}
\* The statements that an await consists of, as the positions they write
Halves ==
    LET size == IF query.size = 0 THEN Len(query.given) ELSE query.size
        of(c, own) == {p \in DOMAIN query.given : (p - 1) \div size = c
                                                  /\ objects[query.given[p]].own = own}
    IN  {of(c, own) : c \in 0..(Len(query.given) - 1), own \in BOOLEAN}

(* bulk_create() of a list makes one row of each object, with the key that  *)
(* is the object's own if it has one, and one that fails leaves the rows of *)
(* whole statements; where conflicts are ignored or update, an object that  *)
(* makes no row has its own key, which is there or which another task       *)
(* deleted.  What a generator yields is written by one await.               *)
CreatesOnce ==
    query.kind = "create" => \A a \in 1..awaits :
        LET made == {p \in DOMAIN query.given : RowsOf(a, p) # {}}
            again == query.once /\ a > 1
        IN  /\ \A p \in made : Cardinality(RowsOf(a, p)) = 1
            /\ \A p \in made : objects[query.given[p]].own =>
                RowsOf(a, p) = {objects[query.given[p]].pk}
            /\ again => \A p \in made, b \in 1..(a - 1) : RowsOf(b, p) = {}
            /\ query.mode = "raise" => \A h \in Halves : h \subseteq made \/ h \cap made = {}
            /\ a = awaits /\ query.state = "done" /\ ~again =>
                \A p \in DOMAIN query.given \ made :
                    query.mode # "raise" /\ objects[query.given[p]].own

(* bulk_update() leaves on a row that is listed a value that one of its     *)
(* objects had when the query was built, or what it had, and every other    *)
(* row as it was.  One that is done has left no listed row that its filter  *)
(* lets through without such a value, whatever statements it was split      *)
(* into.  The objects of a generator are gone when keys were looked for.    *)
UpdatesListed ==
    query.kind = "update" => \A k \in DOMAIN table \cap DOMAIN start :
        LET values == {c.value : c \in {b \in query.built : b.pk = k}}
            listed == ~query.once /\ \E p \in DOMAIN query.given : objects[query.given[p]].pk = k
        IN  /\ table[k].value \in (IF listed THEN values ELSE {}) \cup {start[k].value}
            /\ query.state = "done" /\ listed =>
                table[k].value \in values \/ table[k].value \notin query.filter

\* Both of them (models.py:1156, queryset.py:744)
BulkWritesExact == CreatesOnce /\ UpdatesListed
=============================================================================
