------------------------------- MODULE Prefetch -------------------------------
(***************************************************************************)
(* Prefetching (backends/base/executor.py): the relations that             *)
(* prefetch_related() and Prefetch objects ask a queryset for, the queries *)
(* made of them when it is awaited, which run at the same time, and what   *)
(* each of them leaves on the instances; fetch_related() of instances that *)
(* are in use, and the attributes of their relations (models.py).          *)
(*                                                                         *)
(* The model has a foreign key "boss", its reverse "team", a one-to-one    *)
(* reverse "badge" and a many-to-many "tags".  The rows of the database    *)
(* (external) do not change.  What a column or an attribute refers to is a *)
(* set of rows: for None it is empty.                                      *)
(***************************************************************************)
EXTENDS Naturals, Sequences, FiniteSets

CONSTANTS
    Related,        \* field -> key of an instance -> the related rows there are
    Asks,           \* relations and Prefetch objects that prefetch_related() is given
    Fetched,        \* relations that fetch_related() is given
    NewBosses,      \* keys of the instances in use, with what is assigned to their boss
    MaxQuerysets, MaxPrefetches, MaxCalls

VARIABLES
    querysets,      \* what each queryset asks for
    lists,          \* the lists of _prefetch_queries, which clones share
    batches,        \* the lists of instances: those in use, and one of each await
    calls           \* the awaits of querysets and of fetch_related()

vars == <<querysets, lists, batches, calls>>

Direct    == "boss"
Many      == "tags"
FieldsOf  == DOMAIN Related
Keys      == DOMAIN Related[Direct]
Rows      == UNION {Related[f][k] : f \in FieldsOf, k \in Keys}
Attrs     == {"a", "b"}                 \* values of to_attr, if any
NoAttr    == ""

\* A query: the rows it lets through, and what it prefetches on them (forwarded).
Query(attr, rows, nested) == [attr |-> attr, rows |-> rows, nested |-> nested]
Plain == Query(NoAttr, Rows, {})

Value(rows, nested) ==
    [set |-> TRUE, rows |-> rows, nested |-> IF rows = {} THEN {} ELSE nested]
NotFetched == [set |-> FALSE, rows |-> {}, nested |-> {}]

\* boss_id is the column of the foreign key; whether it was assigned itself after the
\* attribute was set is kept for PrefetchExact.
Loaded ==
    [k \in Keys |-> [boss_id |-> Related[Direct][k], behind |-> FALSE,
                     value |-> [f \in FieldsOf |-> NotFetched],
                     attr |-> [a \in Attrs |-> NotFetched]]]

\* map is _prefetch_map, queries is _prefetch_queries: the list of each field
Init ==
    /\ querysets = <<[map |-> <<>>, queries |-> <<>>]>>
    /\ lists = <<>> /\ batches = <<Loaded>> /\ calls = <<>>

Set(f, x, v) == [y \in DOMAIN f \cup {x} |-> IF y = x THEN v ELSE f[y]]

\* instance.boss = value sets the column.
_fk_setter(instance, value) ==
    [instance EXCEPT !.value[Direct] = value, !.boss_id = value.rows, !.behind = FALSE]

-----------------------------------------------------------------------------
(* Asking *)

\* Prefetch.resolve_for_queryset(): one more query for the field, in the list that
\* the queryset has for it, which is also that of the queryset it was cloned from
Resolved(queries, f, q) ==
    IF f \in DOMAIN queries
    THEN [queries |-> queries, lists |-> [lists EXCEPT ![queries[f]] = Append(@, q)]]
    ELSE [queries |-> Set(queries, f, Len(lists) + 1), lists |-> Append(lists, <<q>>)]
Asked == {p \in (1..Len(lists)) \X (1..MaxPrefetches) : p[2] <= Len(lists[p[1]])}

\* prefetch_related(*relations, *prefetches): relations that earlier calls named
\* are forgotten, Prefetch objects are not.
prefetch_related(i, relations, prefetches) ==
    LET q == querysets[i]
        new == IF prefetches = {} THEN [queries |-> q.queries, lists |-> lists]
               ELSE LET p == CHOOSE p \in prefetches : TRUE
                    IN  Resolved(q.queries, p.field, Query(p.attr, p.rows, {}))
    IN  /\ Len(querysets) < MaxQuerysets
        /\ prefetches # {} => Cardinality(Asked) < MaxPrefetches
        /\ querysets' = Append(querysets, [map |-> relations, queries |-> new.queries])
        /\ lists' = new.lists
        /\ UNCHANGED <<batches, calls>>

-----------------------------------------------------------------------------
(* Awaiting *)

\* _make_prefetch_queries(): the first query of a field, or one for all of its
\* rows, with what is forwarded to it, is put after the queries it has.
Made(list, nested) ==
    Append(list, LET q == IF list = <<>> THEN Plain ELSE list[1]
                 IN  IF nested = {} THEN q ELSE [q EXCEPT !.nested = nested])
_make_prefetch_queries(map, queries) ==
    LET list(f) == IF f \in DOMAIN queries THEN lists[queries[f]] ELSE <<>>
    IN  [f \in DOMAIN map \cup DOMAIN queries |->
            IF f \in DOMAIN map THEN Made(list(f), map[f]) ELSE list(f)]

\* _execute_prefetch_queries(): a task for each query, all started at once.  The
\* one of a foreign key sets it to None where there is no key, and asks for the
\* keys there are, if any.
Tasks(batch, on, made) ==
    {[field |-> f, n |-> n,
      keys |-> IF f = Direct THEN UNION {batch[k].boss_id : k \in on} ELSE on] :
        f \in DOMAIN made, n \in 1..(MaxPrefetches + MaxCalls)}
Started(batch, on, made) ==
    [k \in Keys |-> IF k \in on /\ Direct \in DOMAIN made /\ batch[k].boss_id = {}
                    THEN _fk_setter(batch[k], Value({}, {})) ELSE batch[k]]
NewCall(b, batch, on, made) ==
    /\ Len(calls) < MaxCalls
    /\ calls' = Append(calls,
            [batch |-> b, on |-> on, made |-> made, failed |-> FALSE,
             tasks |-> {t \in Tasks(batch, on, made) : t.n <= Len(made[t.field]) /\ t.keys # {}}])

\* await queryset: an executor has the dictionary of the queryset, unless it is empty.
\* The lists of the fields that are asked for grow; new ones are put at "at".
execute_select(i) ==
    LET q     == querysets[i]
        made  == _make_prefetch_queries(q.map, q.queries)
        new   == DOMAIN q.map \ DOMAIN q.queries
        added == (Len(lists) + 1)..(Len(lists) + Cardinality(new))
    IN  /\ NewCall(Len(batches) + 1, Loaded, Keys, made)
        /\ batches' = Append(batches, Started(Loaded, Keys, made))
        /\ \/ q.queries = <<>> /\ UNCHANGED <<querysets, lists>>
           \/ /\ q.queries # <<>>
              /\ \E at \in [new -> added] :
                  LET list == [f \in DOMAIN made |-> IF f \in new THEN at[f] ELSE q.queries[f]]
                  IN  /\ \A l \in added : \E f \in new : at[f] = l
                      /\ lists' = [l \in DOMAIN lists \cup added |->
                                      IF \E f \in DOMAIN q.map : list[f] = l
                                      THEN made[CHOOSE f \in DOMAIN q.map : list[f] = l]
                                      ELSE lists[l]]
                      /\ querysets' = [querysets EXCEPT ![i].queries = list]

\* fetch_for_list(), of fetch_related() too: on some instances in use
fetch_for_list(on, relations) ==
    LET made == _make_prefetch_queries(relations, <<>>)
    IN  /\ NewCall(1, batches[1], on, made)
        /\ batches' = [batches EXCEPT ![1] = Started(@, on, made)]
        /\ UNCHANGED <<querysets, lists>>

\* async for ... in instance.team: fetches what is not fetched yet
__aiter__(k, f) ==
    /\ f \in FieldsOf \ {Direct, "badge"} /\ ~batches[1][k].value[f].set
    /\ fetch_for_list({k}, [g \in {f} |-> {}])

-----------------------------------------------------------------------------
(* The answer to a task *)

\* _prefetch_direct_relation() after its query: what the keys of the instances are now
_prefetch_direct_relation(instance, q, keys) ==
    LET value == Value(instance.boss_id \cap keys \cap q.rows, q.nested)
        new == _fk_setter(instance, value)
    IN  IF q.attr = NoAttr THEN new ELSE [new EXCEPT !.attr[q.attr] = value]

\* A bug: the rows are not told apart by the instance they refer to.
PrefetchUngrouped(instance, k, f, q) ==
    [instance EXCEPT !.value[f] = Value(UNION {Related[f][l] : l \in Keys} \cap q.rows, q.nested)]

\* _prefetch_reverse_relation() and _prefetch_reverse_o2o_relation(): the attribute,
\* or its container, and the other one
_prefetch_reverse_relation(instance, k, f, q) ==
    LET value == Value(Related[f][k] \cap q.rows, q.nested)
        new == [instance EXCEPT !.value[f] = value]
    IN  IF q.attr = NoAttr THEN new ELSE [new EXCEPT !.attr[q.attr] = value]

\* _prefetch_m2m_relation(): one statement joins the rows with the links of all the
\* instances; each row of it is paired with the instance that its link names.
_prefetch_m2m_relation(instance, k, on, q) ==
    LET relations == {l \in on \X q.rows : l[2] \in Related[Many][l[1]]}
        value == Value({l[2] : l \in {m \in relations : m[1] = k}}, q.nested)
        new == [instance EXCEPT !.value[Many] = value]
    IN  IF q.attr = NoAttr THEN new ELSE [new EXCEPT !.attr[q.attr] = value]

Answer(c, t) ==
    LET q == calls[c].made[t.field][t.n]
    IN  /\ batches' = [batches EXCEPT ![calls[c].batch] = [k \in Keys |->
                IF k \notin calls[c].on THEN @[k]
                ELSE IF t.field = Direct THEN _prefetch_direct_relation(@[k], q, t.keys)
                ELSE IF t.field = Many THEN _prefetch_m2m_relation(@[k], k, calls[c].on, q)
                ELSE _prefetch_reverse_relation(@[k], k, t.field, q)]]
        /\ calls' = [calls EXCEPT ![c].tasks = @ \ {t}]
        /\ UNCHANGED <<querysets, lists>>

\* gather() raises what a query raises; the other tasks go on.
Raise(c, t) ==
    /\ calls' = [calls EXCEPT ![c].tasks = @ \ {t}, ![c].failed = TRUE]
    /\ UNCHANGED <<querysets, lists, batches>>

\* What instance.boss, awaited, is: what was set or fetched, or the row of the column.
_fk_getter(instance) ==
    IF instance.value[Direct].set THEN instance.value[Direct].rows ELSE instance.boss_id

\* instance.boss = the row, or None
Assign(k, rows) ==
    /\ batches' = [batches EXCEPT ![1][k] = _fk_setter(@, Value(rows, {}))]
    /\ UNCHANGED <<querysets, lists, calls>>

\* instance.boss_id = value: what the attribute was set to stays.
AssignColumn(k, rows) ==
    /\ batches' = [batches EXCEPT ![1][k].boss_id = rows,
                                  ![1][k].behind = batches[1][k].value[Direct].set]
    /\ UNCHANGED <<querysets, lists, calls>>

\* The end of refresh_from_db(), which assigns the columns
refresh_from_db(k) == AssignColumn(k, Related[Direct][k])

Next ==
    \/ \E i \in DOMAIN querysets :
        \/ execute_select(i)
        \/ \E ask \in Asks : prefetch_related(i, ask.relations, ask.prefetches)
    \/ \E k \in Keys :
        \/ \E r \in Fetched : fetch_for_list({k}, r)
        \/ \E f \in FieldsOf : __aiter__(k, f)
        \/ refresh_from_db(k)
    \/ \E to \in NewBosses : Assign(to[1], to[2]) \/ AssignColumn(to[1], to[2])
    \/ \E c \in DOMAIN calls : \E t \in calls[c].tasks : Answer(c, t) \/ Raise(c, t)

Spec == Init /\ [][Next]_vars

-----------------------------------------------------------------------------
Values == [set : BOOLEAN, rows : SUBSET Rows, nested : SUBSET {"nested"}]
TypeOK ==
    /\ \A i \in DOMAIN querysets : \A f \in DOMAIN querysets[i].queries :
            querysets[i].queries[f] \in DOMAIN lists
    /\ \A b \in DOMAIN batches : \A k \in Keys :
            /\ batches[b][k].boss_id \subseteq Rows /\ batches[b][k].behind \in BOOLEAN
            /\ batches[b][k].value \in [FieldsOf -> Values]
            /\ batches[b][k].attr \in [Attrs -> Values]

\* A call that returned the instances it loaded
Returned(c) == calls[c].batch # 1 /\ calls[c].tasks = {} /\ ~calls[c].failed
Queries(c, f) == {calls[c].made[f][n] : n \in DOMAIN calls[c].made[f]}
Result(f, k, q) == Value(Related[f][k] \cap q.rows, q.nested)

\* A foreign key is asked for with one queryset: another one sees what it left.
OneQueryset(c, f) == f = Direct => Cardinality({q.rows : q \in Queries(c, f)}) = 1

(* Once a queryset is awaited every relation it asked for holds, on every   *)
(* instance, what one of the queries for it yields: that of no other        *)
(* instance or relation, and no mixture, in whatever order the queries are  *)
(* answered and however often the queryset and its clones were awaited      *)
(* before; an attribute of to_attr that is there is the result of a query   *)
(* that names it.  What fetch_related() and iterating leave on an instance  *)
(* in use are all of its related rows, whatever fetches overlap.  And a     *)
(* foreign key that was fetched or assigned is the one of its column        *)
(* (models.py:98), unless the column was assigned itself since, which       *)
(* leaves the attribute as it was (models.py:112).                          *)
PrefetchExact ==
    /\ \A c \in DOMAIN calls : Returned(c) =>
        \A k \in Keys :
            LET instance == batches[calls[c].batch][k]
                exact == {f \in DOMAIN calls[c].made : OneQueryset(c, f)}
            IN  /\ \A f \in exact : \E q \in Queries(c, f) :
                        instance.value[f] = Result(f, k, q)
                /\ exact = DOMAIN calls[c].made =>
                    \A a \in Attrs : instance.attr[a].set =>
                        \E f \in exact : \E q \in Queries(c, f) :
                            q.attr = a /\ instance.attr[a] = Result(f, k, q)
    /\ \A k \in Keys : \A f \in FieldsOf \ {Direct} :
        batches[1][k].value[f].set => batches[1][k].value[f].rows = Related[f][k]
    /\ \A b \in DOMAIN batches : \A k \in Keys :
        ~batches[b][k].behind => _fk_getter(batches[b][k]) = batches[b][k].boss_id
=============================================================================
