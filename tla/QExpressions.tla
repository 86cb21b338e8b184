---------------------------- MODULE QExpressions ----------------------------
(***************************************************************************)
(* Q expressions (expressions.py), the conditions they are made of         *)
(* (filters.py) and the parts of a statement they resolve to               *)
(* (query_utils.py): WHERE, HAVING and the joins.                          *)
(*                                                                         *)
(* A program builds Q objects out of Q objects.  Each is kept with what it *)
(* was written to mean, so that what it resolves to can be compared.  A    *)
(* criterion is the truth value, in SQL's three-valued logic, it has on    *)
(* every row of the joined tables.                                         *)
(***************************************************************************)
EXTENDS Naturals, Sequences, FiniteSets, SequencesExt, TLC

CONSTANTS
    Conditions,     \* the keyword arguments a Q is made of,
    Kwargs,         \* and the sequences of them that are given together
    MaxNodes        \* Q objects in a run

VARIABLE nodes      \* the Q objects, each made of earlier ones
vars == <<nodes>>

Null == 0           \* NULL, and Python's None
Cells == {Null, 1, 2}

-----------------------------------------------------------------------------
(* SQL *)

Truth == {"T", "F", "U"}
Is(b) == IF b THEN "T" ELSE "F"
Not(u) == CASE u = "T" -> "F" [] u = "F" -> "T" [] u = "U" -> "U"
Both(u, v) == IF "F" \in {u, v} THEN "F" ELSE IF "U" \in {u, v} THEN "U" ELSE "T"
Either(u, v) == Not(Both(Not(u), Not(v)))

Compare(cell, value, holds) == IF Null \in {cell, value} THEN "U" ELSE Is(holds)
IsNull(cell) == Is(cell = Null)
In(cell, values) ==
    CASE cell # Null /\ cell \in values -> "T"
      [] values = {} \/ (cell # Null /\ Null \notin values) -> "F"
      [] OTHER -> "U"

(* filters.py: what the operator of a lookup makes of a cell; value is a    *)
(* sequence, of the list's elements or of the one value.                    *)
Operator(lookup, cell, value) ==
    LET v == value[1]
        range(s) == {s[k] : k \in DOMAIN s}
    IN  CASE lookup = "exact"      -> Compare(cell, v, cell = v)
          [] lookup = "not"        -> Either(Compare(cell, v, cell # v), IsNull(cell))
          [] lookup = "in"         -> IF value # <<>> THEN In(cell, range(value)) ELSE "F"
          [] lookup = "not_in"     -> IF value # <<>>
                                      THEN Either(Not(In(cell, range(value))), IsNull(cell))
                                      ELSE "T"
          [] lookup = "isnull"     -> IF v # 0 THEN IsNull(cell) ELSE Not(IsNull(cell))
          [] lookup = "not_isnull" -> IF v # 0 THEN Not(IsNull(cell)) ELSE IsNull(cell)
          [] lookup = "gte"        -> Compare(cell, v, cell >= v)
          [] lookup = "lte"        -> Compare(cell, v, cell <= v)
          [] lookup = "gt"         -> Compare(cell, v, cell > v)
          [] lookup = "lt"         -> Compare(cell, v, cell < v)
          [] lookup = "range"      -> Both(Compare(cell, v, cell >= v),
                                           Compare(cell, value[2], cell <= value[2]))

\* The lookups a field has filters for; those on text, JSON and parts of dates
\* are left out.
get_m2m_filters         == {"exact", "not", "in", "not_in"}
get_backward_fk_filters == get_m2m_filters \cup {"isnull", "not_isnull"}
get_json_filter         == {"exact", "not", "isnull", "not_isnull"}
get_filters_for_field(kind) ==
    CASE kind = "m2m"      -> get_m2m_filters
      [] kind = "backward" -> get_backward_fk_filters
      [] kind = "json"     -> get_json_filter
      [] kind = "data"     -> get_backward_fk_filters \cup {"gte", "lte", "gt", "lt", "range"}

-----------------------------------------------------------------------------
(* Joins.  A model that refers to itself: "parent" is a foreign key, "next" *)
(* one more, "children" parent's other end and "tags" many-to-many.  The    *)
(* name of a table is a sequence: <<"t">>, or of its alias                  *)
(* f"{table}__{relation}".                                                  *)

Relations == [parent |-> "fk", next |-> "fk", children |-> "backward", tags |-> "m2m"]
Base == <<"t">>

Related(table, relation) ==
    CASE Relations[relation] = "fk" -> Append(table, relation)
      [] Relations[relation] = "backward" ->
            IF table = Base THEN Append(table, relation) ELSE Base
      [] Relations[relation] = "m2m" -> <<"tag">>

\* Each join is of a table, for a relation of the table it starts from.
_get_joins_for_related_field(table, relation) ==
    LET related == [table |-> Related(table, relation), on |-> <<table, relation>>]
    IN  IF Relations[relation] = "m2m"
        THEN {[table |-> <<"t_tag">>, on |-> <<table, relation>>], related}
        ELSE {related}

Path(path) ==
    LET table[i \in 0..Len(path)] ==
            IF i = 0 THEN Base ELSE Related(table[i - 1], path[i])
    IN  [table |-> table[Len(path)],
         joins |-> UNION {_get_joins_for_related_field(table[i - 1], path[i]) :
                          i \in 1..Len(path)}]

\* resolve_filters() and _join_table_by_field(): a table is joined once, on the
\* condition that came first.
Joined(joins) == {j.table : j \in joins}
Ambiguous(joins) == \E j, k \in joins : j.table = k.table /\ j.on # k.on

-----------------------------------------------------------------------------
(* Criteria and QueryModifier *)

Paths == {c.path : c \in Conditions}
Row == [column : Cells, count : {1, 2}, related : [Paths \ {<<>>} -> {Null, 1}]]

EmptyCriterion == <<>>
Full(c)   == c # EmptyCriterion
Negate(c) == [c EXCEPT !.holds = [r \in Row |-> Not(@[r])]]
Join2(l, r, join) ==
    [holds |-> [w \in Row |-> IF join = "AND" THEN Both(l.holds[w], r.holds[w])
                                              ELSE Either(l.holds[w], r.holds[w])],
     tables |-> l.tables \cup r.tables]

_and(l, r) == IF ~Full(r) THEN l ELSE IF ~Full(l) THEN r ELSE Join2(l, r, "AND")
_or(l, r)  == IF ~Full(r) THEN l ELSE IF ~Full(l) THEN r ELSE Join2(l, r, "OR")

NoModifier == [where |-> EmptyCriterion, joins |-> {}, having |-> EmptyCriterion]
_and_criterion(m) == _and(m.where, m.having)

ModifierAnd(m, n) ==
    [where |-> _and(m.where, n.where), joins |-> m.joins \cup n.joins,
     having |-> _and(m.having, n.having)]

\* A bug: conditions on columns stay in WHERE.
ModifierOrInPlace(m, n) ==
    [where |-> _or(m.where, n.where), joins |-> m.joins \cup n.joins,
     having |-> _or(m.having, n.having)]

ModifierOr(m, n) ==
    LET joins == m.joins \cup n.joins
    IN  IF Full(m.having) \/ Full(n.having)
        THEN [where |-> EmptyCriterion, joins |-> joins,
              having |-> _or(_and_criterion(m), _and_criterion(n))]
        ELSE [where |-> _or(m.where, n.where), joins |-> joins, having |-> EmptyCriterion]

\* A bug: the joins are left behind.
ModifierInvertUnjoined(m) ==
    [where |-> IF Full(m.where) THEN Negate(m.where) ELSE EmptyCriterion,
     joins |-> {}, having |-> IF Full(m.having) THEN Negate(m.having) ELSE EmptyCriterion]

ModifierInvert(m) ==
    IF Full(m.having)
    THEN [where |-> EmptyCriterion, joins |-> m.joins,
          having |-> Negate(_and(m.where, m.having))]
    ELSE [where |-> IF Full(m.where) THEN Negate(m.where) ELSE EmptyCriterion,
          joins |-> m.joins, having |-> EmptyCriterion]

-----------------------------------------------------------------------------
(* Q *)

\* A condition is on the model's column, on an annotation (the column under
\* another name, or an aggregate) or, after a path, on a related row.
Cell(c, row) ==
    CASE c.path # <<>>          -> row.related[c.path]
      [] c.target = "aggregate" -> row.count
      [] OTHER                  -> row.column

Criterion(c, lookup, value) ==
    [holds  |-> [r \in Row |-> Operator(lookup, Cell(c, r), value)],
     tables |-> {Path(c.path).table}]

_resolve_custom_kwarg(c) ==
    IF c.target = "aggregate"
    THEN [NoModifier EXCEPT !.having = Criterion(c, c.lookup, c.value)]
    ELSE [NoModifier EXCEPT !.where = Criterion(c, c.lookup, c.value)]

_process_filter_kwarg(c) ==
    IF c.lookup = "exact" /\ c.value = <<Null>>
    THEN Criterion(c, "isnull", <<1>>)
    ELSE Criterion(c, c.lookup, c.value)

_resolve_regular_kwarg(c) ==
    ModifierAnd([NoModifier EXCEPT !.joins = Path(c.path).joins],
                [NoModifier EXCEPT !.where = _process_filter_kwarg(c)])

ResolveKwarg(c) ==
    IF c.target = "column" THEN _resolve_regular_kwarg(c) ELSE _resolve_custom_kwarg(c)

\* resolve() of every Q object; those it is made of come before it.
Resolved ==
    LET m[i \in DOMAIN nodes] ==
            LET q == nodes[i]
                parts == IF q.filters # <<>>
                         THEN [k \in DOMAIN q.filters |-> ResolveKwarg(q.filters[k])]
                         ELSE [k \in DOMAIN q.children |-> m[q.children[k]]]
                all == IF q.join = "AND" THEN FoldLeft(ModifierAnd, NoModifier, parts)
                       ELSE FoldLeft(ModifierOr, NoModifier, parts)
            IN  IF q.negated THEN ModifierInvert(all) ELSE all
    IN  m

\* "wrote" is what the program wrote: the connective and what it is applied to.
Q(children, filters, join, negated, wrote) ==
    [children |-> children, filters |-> filters, join |-> join, negated |-> negated,
     wrote |-> wrote]

Init == nodes = <<>>

Room(n) == Len(nodes) + n <= MaxNodes

\* Q(**kwargs, join_type=join)
New(filters, join) ==
    /\ Room(1)
    /\ nodes' = Append(nodes, Q(<<>>, filters, join, FALSE, <<join>>))

\* Q(q, **kwargs, join_type=join): the keyword arguments become a Q of their own
NewMixed(i, filters, join) ==
    /\ Room(2)
    /\ nodes' = nodes \o <<Q(<<>>, filters, join, FALSE, <<join>>),
                           Q(<<Len(nodes) + 1, i>>, <<>>, join, FALSE,
                             <<join, Len(nodes) + 1, i>>)>>

\* __and__() and __or__()
Combine(i, j, join) ==
    /\ Room(1)
    /\ nodes' = Append(nodes, Q(<<i, j>>, <<>>, join, FALSE, <<join, i, j>>))

__invert__(i) ==
    /\ Room(1)
    /\ nodes' = Append(nodes, [nodes[i] EXCEPT !.negated = TRUE, !.wrote = <<"NOT", i>>])

Next ==
    \/ \E f \in Kwargs, join \in {"AND", "OR"} :
            /\ Len(f) = 1 => join = "AND"
            /\ \/ New(f, join)
               \/ \E i \in DOMAIN nodes : NewMixed(i, f, join)
    \/ \E i, j \in DOMAIN nodes, join \in {"AND", "OR"} : i < j /\ Combine(i, j, join)
    \/ \E i \in DOMAIN nodes : __invert__(i)

Spec == Init /\ [][Next]_vars

-----------------------------------------------------------------------------
(* What was written *)

Holds(m) == _and_criterion(m).holds

\* The truth of what the program wrote on each row, from that of its conditions.
Always(u) == [on |-> [r \in Row |-> u]]
Denied(f) == [on |-> [r \in Row |-> Not(f.on[r])]]
Joint(f, g, join) ==
    [on |-> [r \in Row |-> IF join = "AND" THEN Both(f.on[r], g.on[r])
                                           ELSE Either(f.on[r], g.on[r])]]
Meaning ==
    LET t[i \in DOMAIN nodes] ==
            LET q == nodes[i]
                leaf(c) == [on |-> Holds(ResolveKwarg(c))]
            IN  CASE q.wrote[1] = "NOT" -> Denied(t[q.wrote[2]])
                  [] Len(q.wrote) = 3   -> Joint(t[q.wrote[2]], t[q.wrote[3]], q.join)
                  [] OTHER -> FoldLeft(LAMBDA f, c : Joint(f, leaf(c), q.join),
                                       Always(IF q.join = "AND" THEN "T" ELSE "F"), q.filters)
    IN  t

\* ~~q somewhere in i, which __invert__() does not undo.
InvertedTwice ==
    LET twice[i \in DOMAIN nodes] ==
            LET q == nodes[i] IN
            \/ q.wrote[1] = "NOT" /\ nodes[q.wrote[2]].negated
            \/ \E k \in 2..Len(q.wrote) : twice[q.wrote[k]]
    IN  twice

TypeOK ==
    \A i \in DOMAIN nodes :
        /\ nodes[i].children \in Seq(1..(i - 1)) /\ nodes[i].filters \in Seq(Conditions)
        /\ nodes[i].join \in {"AND", "OR"} /\ nodes[i].negated \in BOOLEAN

(* However Q objects are nested, with conditions on aggregates (which go to *)
(* HAVING) among those on columns, the statement selects the rows that what *)
(* the program wrote holds of: QueryModifier moves what is ORed with or     *)
(* negated together with an aggregate out of WHERE (query_utils.py:126).    *)
(* A Q object that is negated twice is still negated, and is left out.      *)
ResolvesToMeaning ==
    \A i \in DOMAIN nodes : ~InvertedTwice[i] => Holds(Resolved[i]) = Meaning[i].on

(* A criterion is on tables the statement joins, also after OR and NOT have *)
(* moved it; and a table that was reached by foreign keys alone is joined   *)
(* on one condition: other rows of the same table have an alias.            *)
JoinsRight ==
    \A i \in DOMAIN nodes :
        LET m == Resolved[i]
            used == UNION {c.tables : c \in {d \in {m.where, m.having} : Full(d)}}
        IN  /\ used \ {Base} \subseteq Joined(m.joins)
            /\ ~Ambiguous({j \in m.joins : Relations[j.on[2]] = "fk"})
=============================================================================
