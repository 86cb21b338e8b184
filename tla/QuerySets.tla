------------------------------ MODULE QuerySets ------------------------------
(***************************************************************************)
(* QuerySet and the queries made of it (queryset.py): what each method     *)
(* copies and what it shares, the statement that is built when one is      *)
(* awaited or its SQL is asked for, and what awaiting it yields.           *)
(*                                                                         *)
(* Query objects, and the lists and sets they refer to, are objects on a   *)
(* heap.  The database (external) is one table of rows with a color, each  *)
(* with a related row that a filter or an order reaches through a join.    *)
(* Columns are left out: a result is the sequence of its rows' keys.       *)
(***************************************************************************)
EXTENDS Integers, Sequences, FiniteSets, SequencesExt

CONSTANTS
    Table,          \* the table at first: the color of each primary key, a number
    Methods,        \* the methods of Flags that the run calls
    Bounds,         \* what limit(), offset() and slices are given
    MaxQueries,     \* query objects in a run
    RequiresLimit, ForUpdate, IndexHint, WriteLimit,    \* Capabilities
    JoinedWrites    \* the kinds of writes that the database takes with a join

VARIABLES
    rows,           \* the table: the color of each key there is
    queries,        \* the query objects
    lists,          \* the lists and dictionaries they refer to
    hints           \* the sets they refer to

vars == <<rows, queries, lists, hints>>

NoLimit == -1
Huge    == 1000000
Filters == {"red", "near"}          \* "near" is about the related row
Orders  == {"default", "-pk", "near"}

\* from is the queryset that a query is made from (its own number otherwise);
\* joined is _joined_tables, params the values bound so far by the builds of an
\* update.
QuerySet ==
    [kind |-> "select", from |-> 1, filters |-> 1, notes |-> 2, related |-> 1, indexes |-> 2,
     order |-> "default", limit |-> NoLimit, offset |-> 0, single |-> FALSE, raises |-> FALSE,
     flags |-> {}, joined |-> {}, params |-> 0]

Init ==
    /\ rows = Table
    /\ queries = <<QuerySet>>
    /\ lists = << <<>>, <<>> >>
    /\ hints = << {}, {} >>

-----------------------------------------------------------------------------
(* Methods that return a queryset *)

Room == Len(queries) < MaxQueries
IsQuerySet(i) == queries[i].kind = "select"
Plain(i) == IsQuerySet(i) /\ ~queries[i].single     \* see QuerySetSingle

\* A bug: the filters are added to the list of the queryset itself.
CloneSharing(q, filters, notes) ==
    /\ Room
    /\ lists' = Append([lists EXCEPT ![q.filters] = @ \o filters], lists[q.notes] \o notes)
    /\ queries' = Append(queries, [q EXCEPT !.from = Len(queries) + 1, !.notes = Len(lists) + 1])
    /\ UNCHANGED rows

\* The clone's own filters and annotations, with some more; q is what else it has.
_clone(q, filters, notes) ==
    /\ Room
    /\ lists' = lists \o <<lists[q.filters] \o filters, lists[q.notes] \o notes>>
    /\ queries' = Append(queries,
            [q EXCEPT !.from = Len(queries) + 1,
                      !.filters = Len(lists) + 1, !.notes = Len(lists) + 2])
    /\ UNCHANGED rows

Copy(q) == _clone(q, <<>>, <<>>) /\ UNCHANGED hints

_filter_or_exclude(i, f, negate) ==
    Plain(i) /\ _clone(queries[i], <<<<f, negate>>>>, <<>>) /\ UNCHANGED hints

filter(i, f)   == _filter_or_exclude(i, f, FALSE)
exclude(i, f)  == _filter_or_exclude(i, f, TRUE)
order_by(i, o) == Plain(i) /\ Copy([queries[i] EXCEPT !.order = o])
limit(i, n)    == Plain(i) /\ n >= 0 /\ Copy([queries[i] EXCEPT !.limit = n])

Offset(q, n) ==
    [q EXCEPT !.offset = n,
              !.limit = IF RequiresLimit /\ @ = NoLimit THEN Huge ELSE @]
offset(i, n) == Plain(i) /\ n >= 0 /\ Copy(Offset(queries[i], n))

\* qs[start:stop]; stop is NoLimit when it is left out
__getitem__(i, start, stop) ==
    /\ Plain(i) /\ start >= 0 /\ (stop = NoLimit \/ stop > start)
    /\ LET q == Offset(queries[i], start)
       IN  Copy(IF stop = NoLimit THEN q ELSE [q EXCEPT !.limit = stop - start])

annotate(i, n) == IsQuerySet(i) /\ _clone(queries[i], <<>>, <<n>>) /\ UNCHANGED hints

\* distinct(), group_by(), only(), prefetch_related(), using_db() and
\* select_for_update() set what the keys of the result do not depend on, as long as
\* the key is selected: values() of other columns is not in the model.
Flags == {"distinct", "group_by", "only", "prefetch_related", "using_db"}
         \cup (IF ForUpdate THEN {"select_for_update"} ELSE {})
SetFlag(i, f) == Plain(i) /\ Copy([queries[i] EXCEPT !.flags = @ \cup {f}])
all(i)        == Plain(i) /\ Copy(queries[i])

\* These add to a set that the clone shares with the queryset it was made from.
select_related(i, relation) ==
    /\ IsQuerySet(i) /\ _clone(queries[i], <<>>, <<>>)
    /\ hints' = [hints EXCEPT ![queries[i].related] = @ \cup {relation}]
force_index(i, index) ==
    /\ Plain(i) /\ IndexHint /\ _clone(queries[i], <<>>, <<>>)
    /\ hints' = [hints EXCEPT ![queries[i].indexes] = @ \cup {index}]

first(i) == Plain(i) /\ Copy([queries[i] EXCEPT !.limit = 1, !.single = TRUE])

Get(i, f, raises) ==
    /\ Plain(i)
    /\ _clone([queries[i] EXCEPT !.limit = 2, !.single = TRUE, !.raises = raises],
              <<<<f, FALSE>>>>, <<>>)
    /\ UNCHANGED hints
get(i, f)         == Get(i, f, TRUE)
get_or_none(i, f) == Get(i, f, FALSE)

-----------------------------------------------------------------------------
(* Methods that return another query.  It refers to the lists of the        *)
(* queryset it is made from.                                                *)

Derive(q) ==
    /\ Room
    /\ queries' = Append(queries, [q EXCEPT !.joined = {}])
    /\ UNCHANGED <<rows, lists, hints>>

values(i)      == IsQuerySet(i) /\ Derive([queries[i] EXCEPT !.kind = "values"])
values_list(i) == IsQuerySet(i) /\ Derive([queries[i] EXCEPT !.kind = "values_list"])
count(i)  == Plain(i) /\ Derive([queries[i] EXCEPT !.kind = "count", !.order = "none"])
exists(i) == Plain(i) /\ Derive([queries[i] EXCEPT !.kind = "exists", !.order = "none",
                                                   !.limit = NoLimit, !.offset = 0])
delete(i) == Plain(i) /\ Derive([queries[i] EXCEPT !.kind = "delete", !.offset = 0])
update(i) == Plain(i) /\ Derive([queries[i] EXCEPT !.kind = "update", !.offset = 0])

-----------------------------------------------------------------------------
(* The statement a query builds *)

\* Meta.ordering is "-pk", and is for queries without annotations.
Order(q) ==
    IF q.order = "default" THEN IF lists[q.notes] = <<>> THEN "-pk" ELSE "none" ELSE q.order

\* The limit of the statement.  values() takes limit(0) for none, a write too.
StatementLimit(q) ==
    CASE q.kind = "select" -> q.limit
      [] q.kind \in {"values", "values_list"} -> IF q.limit = 0 THEN NoLimit ELSE q.limit
      [] q.kind \in {"update", "delete"} /\ WriteLimit /\ q.limit > 0 -> q.limit
      [] OTHER -> NoLimit

\* A bug: a limited write is not ordered.
WritesUnordered(q) == IF q.kind \in {"update", "delete"} THEN "none" ELSE Order(q)

\* A write is ordered only when it is limited.
StatementOrder(q) ==
    IF q.kind \in {"update", "delete"} /\ StatementLimit(q) = NoLimit THEN "none" ELSE Order(q)

\* The tables the statement has columns of, and those it joins: none that is
\* in _joined_tables, which selects empty first and the others do not.
Mentioned(q) ==
    {"near" : k \in {j \in DOMAIN lists[q.filters] : lists[q.filters][j][1] = "near"}}
    \cup (IF StatementOrder(q) = "near" THEN {"near"} ELSE {})
    \cup (IF q.kind = "select" THEN hints[q.related] ELSE {})
JoinedBefore(q) == IF q.kind \in {"select", "values", "values_list"} THEN {} ELSE q.joined

\* _make_query(): what building it changes of the object
_make_query(q) ==
    [q EXCEPT !.joined = JoinedBefore(q) \cup Mentioned(q),
              !.params = IF q.kind = "update" /\ @ < 2 THEN @ + 1 ELSE @]

\* The database refuses a column of a table that is not joined, more values than
\* parameters, and joins in writes of other kinds or with a LIMIT.
Refused(q) ==
    \/ Mentioned(q) \cap JoinedBefore(q) # {} \/ q.params > 0
    \/ /\ q.kind \in {"update", "delete"} /\ Mentioned(q) # {}
       /\ q.kind \notin JoinedWrites \/ StatementLimit(q) # NoLimit

-----------------------------------------------------------------------------
(* What awaiting it yields, and does to the table *)

Near(k)    == k % 2 = 0
Sat(f, k)  == ((f[1] = "red" /\ rows[k] = "red") \/ (f[1] = "near" /\ Near(k))) # f[2]
Where(q)   == {k \in DOMAIN rows : \A j \in DOMAIN lists[q.filters] : Sat(lists[q.filters][j], k)}

\* A table is read by key when no order is asked for (external).
Before(o, k, l) ==
    CASE o = "-pk"  -> k > l
      [] o = "near" -> (Near(k) /\ ~Near(l)) \/ (Near(k) = Near(l) /\ k < l)
      [] o = "none" -> k < l
\* The sequence of the rows S in an order
InOrder(S, o) ==
    CHOOSE s \in [1..Cardinality(S) -> S] :
        \A i, j \in DOMAIN s : i < j => Before(o, s[i], s[j])
Sorted(q) == InOrder(Where(q), StatementOrder(q))

Cut(s, from, n) ==
    SubSeq(s, from + 1, IF n = NoLimit \/ from + n > Len(s) THEN Len(s) ELSE from + n)
Fetched(q) == Cut(Sorted(q), q.offset, StatementLimit(q))

Error(e) == <<e>>
OneOf(q, s) ==
    CASE Len(s) = 1 -> <<"row", s[1]>>
      [] s = <<>>   -> IF q.raises THEN Error("DoesNotExist") ELSE <<"row", 0>>
      [] OTHER      -> Error("MultipleObjectsReturned")

\* A bug: the offset does not count.
CountAll(q) ==
    LET n == Cardinality(Where(q)) IN IF q.limit > 0 /\ n > q.limit THEN q.limit ELSE n

CountQuery(q) ==
    LET n == Cardinality(Where(q)) - q.offset
    IN  IF q.limit > 0 /\ n > q.limit THEN q.limit ELSE n

ExistsQuery(q) == Where(q) # {}
_execute(q) == IF q.single THEN OneOf(q, Fetched(q)) ELSE <<"rows", Fetched(q)>>

Result(q) ==
    CASE Refused(q)        -> Error("OperationalError")
      [] q.kind = "count"  -> <<"number", CountQuery(q)>>
      [] q.kind = "exists" -> <<"bool", ExistsQuery(q)>>
      [] q.kind \in {"update", "delete"} -> <<"number", Len(Fetched(q))>>
      [] OTHER             -> _execute(q)

Written(q) == IF Refused(q) THEN {} ELSE ToSet(Fetched(q))
DeleteQuery(q) == [k \in DOMAIN rows \ Written(q) |-> rows[k]]
UpdateQuery(q) == [k \in DOMAIN rows |-> IF k \in Written(q) THEN "red" ELSE rows[k]]

\* sql() and as_query()
Build(i) ==
    /\ queries' = [queries EXCEPT ![i] = _make_query(@)]
    /\ UNCHANGED <<rows, lists, hints>>

\* __await__()
Await(i) ==
    /\ queries' = [queries EXCEPT ![i] = _make_query(@)]
    /\ rows' = CASE queries[i].kind = "delete" -> DeleteQuery(queries[i])
                 [] queries[i].kind = "update" -> UpdateQuery(queries[i])
                 [] OTHER -> rows
    /\ UNCHANGED <<lists, hints>>

\* A call of a method that makes a query
Method(i) ==
    \/ \E f \in Filters : filter(i, f) \/ exclude(i, f) \/ get(i, f) \/ get_or_none(i, f)
    \/ \E o \in Orders : order_by(i, o)
    \/ \E n \in Bounds : limit(i, n) \/ offset(i, n)
    \/ \E a \in Bounds, b \in Bounds \cup {NoLimit} : __getitem__(i, a, b)
    \/ \E f \in Flags \cap Methods : SetFlag(i, f)
    \/ annotate(i, "n") \/ all(i) \/ first(i)
    \/ select_related(i, "other") \/ force_index(i, "index")
    \/ values(i) \/ values_list(i) \/ count(i) \/ exists(i) \/ delete(i) \/ update(i)

Next == \E i \in DOMAIN queries : (Room /\ Method(i)) \/ Build(i) \/ Await(i)

Spec == Init /\ [][Next]_vars

-----------------------------------------------------------------------------
Base(j) == queries[queries[j].from]

TypeOK ==
    /\ rows \in [DOMAIN rows -> {"red", "blue"}] /\ DOMAIN rows \subseteq DOMAIN Table
    /\ \A i \in DOMAIN queries :
        /\ queries[i].from \in 1..i
        /\ queries[i].filters \in DOMAIN lists /\ queries[i].notes \in DOMAIN lists
        /\ queries[i].limit \in Bounds \cup {NoLimit, 1, 2, Huge}
             \cup {b - a : a, b \in Bounds}
        /\ queries[i].offset \in Bounds \cup {0}

\* What the rows of a query depend on.
Content(q) == <<q.kind, lists[q.filters], lists[q.notes], q.order, q.limit, q.offset, q.single,
                q.raises, q.flags>>

(* No method called on a query changes the rows of another one, or of the   *)
(* query itself: _clone() copies what the method then adds to               *)
(* (queryset.py:336).  The sets of select_related() and of the index hints  *)
(* are shared, and are not part of this.                                    *)
ClonesIndependent ==
    [][\A i \in DOMAIN queries : Content(queries[i])' = Content(queries[i])]_vars

(* get() and get_or_none() yield a row only when it is the one row that     *)
(* matches (from the offset on), and say so when there are more; first()    *)
(* yields the first of them or None.                                        *)
OneIsExact(q) ==
    LET rest == Cut(Sorted(q), q.offset, NoLimit)
    IN  Result(q) =
            IF q.limit = 1 \/ Len(rest) = 1 THEN <<"row", IF rest = <<>> THEN 0 ELSE rest[1]>>
            ELSE IF rest # <<>> THEN Error("MultipleObjectsReturned")
            ELSE IF q.raises THEN Error("DoesNotExist") ELSE <<"row", 0>>

(* What is read of a queryset in another way agrees with its rows: values() *)
(* and values_list() are the same rows unless limit(0) was asked for,       *)
(* count() is how many there are unless the offset is beyond the end,       *)
(* exists() whether there is one without the slice, and get() and first()   *)
(* are exact (queryset.py:1336).  However often they were built before,     *)
(* selects are built whole (queryset.py:980); the others are, the first    *)
(* time.                                                                    *)
ReadsAgree ==
    \A j \in DOMAIN queries :
        LET q == queries[j]
            r == Result(Base(j))
        IN  /\ q.kind = "select" => ~Refused(q)
            /\ q.kind \in {"select", "values", "values_list"} /\ q.single => OneIsExact(q)
            /\ q.kind \in {"values", "values_list"} /\ q.limit # 0 => Result(q) = r
            /\ q.kind = "count" /\ q.joined = {} /\ q.limit # 0
               /\ q.offset <= Cardinality(Where(q)) => Result(q) = <<"number", Len(r[2])>>
            /\ q.kind = "exists" /\ q.joined = {} =>
               Result(q) = <<"bool", Sorted(q) # <<>> >>

(* A delete() or an update() that the database takes writes, of the rows    *)
(* that satisfy the queryset's filters, the first ones in the queryset's    *)
(* order, as many as its limit says, where the database limits writes and   *)
(* the limit is not 0; elsewhere all of them.  So it writes the rows that   *)
(* the queryset yields when there is neither an offset, which writes do not *)
(* take, nor limit(0), nor a limit that the database cannot use             *)
(* (queryset.py:1112, 1195).                                                *)
WritesItsRows ==
    \A j \in DOMAIN queries :
        LET q == queries[j]
            b == Base(j)
            limited == WriteLimit /\ q.limit > 0
        IN  q.kind \in {"delete", "update"} /\ ~Refused(q) =>
               /\ Written(q) = IF limited THEN ToSet(Cut(Sorted(b), 0, q.limit)) ELSE Where(b)
               /\ b.offset = 0 /\ (limited \/ q.limit = NoLimit) =>
                     Written(q) = ToSet(Fetched(b))
=============================================================================
