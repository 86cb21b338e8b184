----------------------------- MODULE Definitions -----------------------------
(***************************************************************************)
(* Model classes and their relations: what Tortoise.init_models(),         *)
(* _init_relations() and _reset_apps() (__init__.py) make of the relations *)
(* that the classes declare (fields/relational.py, models.py), in whatever *)
(* order and in as many calls as an application registers them, and the    *)
(* tables that a client's schema is generated with                         *)
(* (backends/base/schema_generator.py).                                    *)
(*                                                                         *)
(* Names are sequences of words: that of a column of "boss" is             *)
(* <<"boss", "id">>, and the default name of a backward relation of model  *)
(* "A" is <<"A", "s">>.  Columns that are not of relations are left out.   *)
(***************************************************************************)
EXTENDS Naturals, Sequences, FiniteSets, SequencesExt, TLC

CONSTANTS
    Models,         \* the classes of a program
    Relations,      \* relations that a class may declare
    MaxRelations,   \* how many it may
    Clients,        \* database clients, each of one app
    ClientOf,       \* the one of each model's app, that its Meta names
    MaxCalls

VARIABLES
    declared,       \* the relations of each class
    apps,           \* the registered apps and their models, in order
    meta,           \* the metadata of each model
    raised,         \* if an initialisation raised ConfigurationError, with which models
    schema,         \* the tables of the last schema, or the error
    calls

vars == <<declared, apps, meta, raised, schema, calls>>

\* The registered models, app after app
Registered == FlattenSeq([i \in DOMAIN apps |-> apps[i].models])

Default == <<>>             \* related_name and through that are not given
NoName  == <<"False">>      \* related_name=False
Id(name) == Append(name, "id")
Plural(m) == <<m, "s">>
Columns == {"fk", "o2o"}    \* the kinds of relations that are columns

Opposite == [fk |-> "backward_fk", o2o |-> "backward_o2o"]

\* A field: by is the field at the other side, or the one that a column is of.
Field(kind, to, by, through, keys) ==
    [kind |-> kind, to |-> to, by |-> by, through |-> through, keys |-> keys]
Declared(d) == Field(d.kind, d.to, d.related, d.through, <<>>)

\* ModelMeta.__new__(): fields_map, with what the class declares
ModelMeta(m) ==
    [inited |-> FALSE,
     fields |-> [n \in {d.name : d \in declared[m]} |->
                    Declared(CHOOSE d \in declared[m] : d.name = n)]]

Programs == [Models -> {S \in SUBSET Relations :
                            /\ Cardinality(S) <= MaxRelations
                            /\ \A d, e \in S : d.name = e.name => d = e}]

Init ==
    /\ declared \in Programs
    /\ apps = <<>> /\ meta = [m \in Models |-> ModelMeta(m)]
    /\ raised = <<>> /\ schema = <<>> /\ calls = 0

-----------------------------------------------------------------------------
(* _init_relations(), as a function of what it has so far: the metadata, and *)
(* whether it has raised.                                                    *)

Raise(st) == [st EXCEPT !.raised = TRUE]
HasField(st, m, name) == name \in DOMAIN st.meta[m].fields

\* MetaInfo.add_field()
add_field(st, m, name, field) ==
    IF HasField(st, m, name) THEN Raise(st)
    ELSE [st EXCEPT !.meta[m].fields = (name :> field) @@ @]

\* A backward relation, checked before it is added
add_backward(st, m, name, field) ==
    IF HasField(st, m, name) THEN Raise(st) ELSE add_field(st, m, name, field)

Related(d, m) == IF d.related = Default THEN Plural(m) ELSE d.related

\* A foreign key or one-to-one field: its column, and the backward relation
init_fk_o2o_field(st, m, d) ==
    LET column == add_field(st, m, Id(d.name), Field("column", d.to, d.name, Default, <<>>))
    IN  IF d.to \notin ToSet(Registered) THEN Raise(st)
        ELSE IF column.raised \/ d.related = NoName THEN column
        ELSE add_backward(column, d.to, Related(d, m),
                Field(Opposite[d.kind], m, Id(d.name),
                      Default, <<>>))

\* A many-to-many field: the names it was not given, and the relation of the
\* other model, generated with the two sides of the through table swapped
Through(d, m) == IF d.through = Default THEN <<m, d.to>> ELSE d.through
BackwardKey(d, m) == IF d.to = m THEN <<m, "rel", "id">> ELSE <<m, "id">>
Forward(d, m) ==
    Field("m2m", d.to, Related(d, m), Through(d, m), <<BackwardKey(d, m), <<d.to, "id">>>>)
\* A bug: the two columns of the through table are not swapped.
BackwardUnswapped(d, m) ==
    Field("generated", m, d.name, Through(d, m), <<BackwardKey(d, m), <<d.to, "id">>>>)

Backward(d, m) ==
    Field("generated", m, d.name, Through(d, m), <<<<d.to, "id">>, BackwardKey(d, m)>>)
init_m2m_field(st, m, d) ==
    IF d.to \notin ToSet(Registered) THEN Raise(st)
    ELSE add_backward([st EXCEPT !.meta[m].fields[d.name] = Forward(d, m)], d.to, Related(d, m),
                      Backward(d, m))

\* fk_fields, o2o_fields, m2m_fields; the order within a set decides no more than
\* what is left behind when a field raises.
InOrder(m) ==
    LET those(kind) == SetToSeq({d \in declared[m] : d.kind = kind})
    IN  those("fk") \o those("o2o") \o those("m2m")
InitField(st, m, d) ==
    IF st.raised THEN st
    ELSE IF d.kind = "m2m" THEN init_m2m_field(st, m, d) ELSE init_fk_o2o_field(st, m, d)

\* A model is taken to be initialised before its fields are.
InitModel(st, m) ==
    IF st.raised \/ st.meta[m].inited THEN st
    ELSE FoldLeft(LAMBDA s, d : InitField(s, m, d), [st EXCEPT !.meta[m].inited = TRUE],
                  InOrder(m))

_init_relations(models) ==
    FoldLeft(InitModel, [meta |-> meta, raised |-> FALSE], models)

-----------------------------------------------------------------------------
(* Calls *)

Call == calls < MaxCalls /\ calls' = calls + 1
\* A bug: an app that is there already is there twice.
RegisterTwice(c, models) == apps' = Append(apps, [client |-> c, models |-> models])

\* The models of an app are those of the last call for it, and the app keeps its place.
Register(c, models) ==
    LET app == [client |-> c, models |-> models]
    IN  apps' = IF \E i \in DOMAIN apps : apps[i].client = c
                THEN [i \in DOMAIN apps |-> IF apps[i].client = c THEN app ELSE apps[i]]
                ELSE Append(apps, app)

\* init_models() with _init_relations=False: of the classes of a module, those of the app
discover(c, classes) ==
    /\ Call /\ Register(c, SelectSeq(classes, LAMBDA m : ClientOf[m] = c))
    /\ UNCHANGED <<declared, meta, raised, schema>>

init_relations ==
    LET st == _init_relations(Registered)
    IN  /\ Call /\ apps # <<>>
        /\ meta' = st.meta /\ raised' = IF raised = <<>> /\ st.raised THEN <<Registered>> ELSE raised
        /\ UNCHANGED <<declared, apps, schema>>

_reset_apps ==
    /\ Call /\ apps # <<>> /\ apps' = <<>>
    /\ UNCHANGED <<declared, meta, raised, schema>>

-----------------------------------------------------------------------------
(* The schema of a client *)

\* _get_table_sql(): the table of a model, the tables its columns refer to, and
\* the through tables of the relations it declares
FieldsOf(m) == {meta[m].fields[n] : n \in DOMAIN meta[m].fields}
_get_models_to_create(c) == SelectSeq(Registered, LAMBDA m : ClientOf[m] = c)
_get_table_sql(m, models) ==
    [table |-> m,
     references |-> {f.to : f \in {g \in FieldsOf(m) : g.kind = "column"}},
     m2m |-> {f.through : f \in {g \in FieldsOf(m) : g.kind = "m2m"}} \ {<<x>> : x \in models}]

\* A bug: the tables are created in the order of the models.
NextTableUnordered(st) ==
    IF st.left = <<>> THEN st
    ELSE [left |-> Tail(st.left), cyclic |-> FALSE,
          created |-> Append(st.created, st.left[1].table)]

\* The first table whose references are created already is the next one.
NextTable(st) ==
    LET ready == {i \in DOMAIN st.left :
                    st.left[i].references \subseteq ToSet(st.created) \cup {st.left[i].table}}
        first == CHOOSE i \in ready : \A j \in ready : i <= j
    IN  IF st.left = <<>> \/ st.cyclic THEN st
        ELSE IF ready = {} THEN [st EXCEPT !.cyclic = TRUE]
        ELSE [left |-> RemoveAt(st.left, first), cyclic |-> FALSE,
              created |-> Append(st.created, st.left[first].table)]

get_create_schema_sql(c) ==
    LET models == _get_models_to_create(c)
        tables == [i \in DOMAIN models |-> _get_table_sql(models[i], ToSet(models))]
        st == FoldLeft(LAMBDA s, m : NextTable(s),
                       [left |-> tables, created |-> <<>>, cyclic |-> FALSE], models)
    IN  [client |-> c, cyclic |-> st.cyclic, tables |-> st.created,
         m2m |-> UNION {tables[i].m2m : i \in DOMAIN tables}]

generate_schemas(c) ==
    /\ Call /\ raised = <<>> /\ apps # <<>> /\ \A m \in ToSet(Registered) : meta[m].inited
    /\ schema' = get_create_schema_sql(c)
    /\ UNCHANGED <<declared, apps, meta, raised>>

Next ==
    \/ \E c \in Clients, m, n \in Models : m # n /\ discover(c, <<m, n>>)
    \/ init_relations \/ _reset_apps
    \/ \E c \in Clients : generate_schemas(c)

Spec == Init /\ [][Next]_vars

-----------------------------------------------------------------------------
Kinds == {"fk", "o2o", "m2m", "column", "backward_fk", "backward_o2o", "generated"}
TypeOK ==
    /\ ToSet(Registered) \subseteq Models /\ IsInjective(Registered) /\ Len(raised) <= 1
    /\ \A m \in Models : \A f \in FieldsOf(m) : f.kind \in Kinds /\ f.to \in Models

Inited == {m \in Models : meta[m].inited}

\* What the classes say: the names a model has by itself, and those that the
\* relations of others give it
Own(m) == {d.name : d \in declared[m]}
            \cup {Id(d.name) : d \in {e \in declared[m] : e.kind \in Columns}}
Given(m) ==
    {g \in Inited \X Relations : g[2] \in declared[g[1]] /\ g[2].to = m /\ g[2].related # NoName}
Names(m) == Own(m) \cup {Related(g[2], g[1]) : g \in Given(m)}
Clash(m) ==
    \/ \E g \in Given(m) : Related(g[2], g[1]) \in Own(m)
    \/ \E g, h \in Given(m) : g # h /\ Related(g[2], g[1]) = Related(h[2], h[1])
    \/ \E d, e \in declared[m] : e.kind \in Columns /\ d.name = Id(e.name)
Unknown(m, models) == \E d \in declared[m] : d.to \notin ToSet(models)

(* Until an initialisation raises, the fields of the models are those that  *)
(* their classes and the classes that refer to them call for, each relation *)
(* with its other side, in whatever order and number of calls the classes   *)
(* are registered, and again after _reset_apps().  It raises for a reason:  *)
(* a model that was not registered, or a name that is given twice; never    *)
(* because of the order of the models.                                      *)
RelationsPaired ==
    IF raised # <<>> THEN \E m \in Models : Unknown(m, raised[1]) \/ Clash(m)
    ELSE \A m \in Inited :
        /\ ~Clash(m)
        /\ DOMAIN meta[m].fields = Names(m)
        /\ \A d \in declared[m] :
            LET back == meta[d.to].fields[Related(d, m)]
                other == meta[m].fields[d.name]
            IN  /\ d.kind \in Columns /\ d.related # NoName =>
                    back.to = m /\ back.by = Id(d.name) /\ back.kind = Opposite[d.kind]
                /\ d.kind = "m2m" =>
                    /\ back.to = m /\ back.by = d.name /\ other.by = Related(d, m)
                    /\ back.through = other.through /\ back.keys = Reverse(other.keys)
                    /\ back.keys[1] # back.keys[2]

(* A table is created after those it refers to, and the schema of a client  *)
(* is refused only when its tables refer to each other in a circle, or to a *)
(* table of another client or app.                                          *)
TablesOrdered ==
    schema # <<>> =>
        LET models == ToSet(_get_models_to_create(schema.client))
            refers(m) == {d.to : d \in {e \in declared[m] : e.kind \in Columns}} \ {m}
            before(m) == {schema.tables[j] : j \in {j \in DOMAIN schema.tables :
                            \A i \in DOMAIN schema.tables : schema.tables[i] = m => j < i}}
        IN  /\ \A m \in ToSet(schema.tables) : refers(m) \subseteq before(m)
            /\ schema.cyclic =>
                \E S \in SUBSET Models : S # {} /\ S \cap ToSet(schema.tables) = {}
                    /\ \A m \in S : refers(m) \cap S # {} \/ ~(refers(m) \subseteq models)
=============================================================================
