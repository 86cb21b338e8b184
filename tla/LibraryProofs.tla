---------------------------- MODULE LibraryProofs ----------------------------
(***************************************************************************)
(* Theorems about five of the modules on objects that a program keeps: the *)
(* test harness, for any number of tests; the instances of a model, for a  *)
(* table and a program of any size; querysets and what is read and written *)
(* of them, for any table; prefetching, for any relations, rows and        *)
(* overlapping fetches; and bulk_update(), for any lists and batch sizes.  *)
(***************************************************************************)
EXTENDS Library, FiniteSetTheorems, SequenceTheorems, WellFoundedInduction, TLAPS

-----------------------------------------------------------------------------
(* The test harness                                                        *)

\* The settings of the test database are kept, and in force in the tests that use it.
Kept ==
    /\ phase \in {"start", "between", "running", "done"} /\ config = "current"
    /\ configs \in [{"current", "saved"} -> Tests!Databases \cup {Tests!None}]
    /\ phase # "start" => configs["saved"] = "default"
    /\ Tests!Running({"Truncation", "Test"}) => base = "default" /\ configs[config] = "default"

\* The database of an IsolatedTestCase has no rows but its own: only such a test has a
\* client for it that writes, and it gets a new one.
Alone ==
    /\ dbrows \in [Tests!Databases -> SUBSET Nat] /\ saved \in SUBSET Nat
    /\ Tests!Running({"Isolated"}) => base = "isolated" /\ dbrows["isolated"] \subseteq {test}
    /\ ~Tests!Running({"Isolated"}) => dbrows["isolated"] = {}
    /\ phase = "between" /\ ~inited => base \in {Tests!None, "isolated"}
    /\ phase = "start" => base = Tests!None
    /\ Tests!Running({"Truncation", "Test"}) => inited = TRUE

\* Where the rows are, as long as every clean-up ran to its end: in the database of the
\* running test, and between tests nowhere.
Empty(D) == \A d \in D : dbrows[d] = {}
Clean ==
    /\ dbrows \in [Tests!Databases -> SUBSET Nat]
    /\ phase = "start" =>
         Empty(Tests!Databases) /\ base = Tests!None /\ ~inited
    /\ phase \in {"between", "running"} => "default" \in tables
    /\ phase = "between" =>
         Empty(Tests!Databases) /\ base \in {Tests!None, "isolated"} /\ ~inited
    /\ Tests!Running({"Simple"}) =>
         Empty(Tests!Databases) /\ base \in {Tests!None, "isolated", "own"}
    /\ Tests!Running({"Isolated"}) =>
         base = "isolated" /\ Empty({"default", "own"}) /\ dbrows["isolated"] \subseteq {test}
    /\ Tests!Running({"Truncation", "Test"}) =>
         Empty({"isolated", "own"}) /\ dbrows["default"] \subseteq {test}
    /\ Tests!Running({"Test"}) => saved = {}
    /\ phase = "running" => kind \in {"Simple", "Isolated", "Truncation", "Test"} /\ test \in Nat

HarnessInv == Kept /\ Alone /\ test \in Nat /\ (~skipped => Clean)

LEMMA HarnessInit == Tests!Init => HarnessInv
BY DEF Tests!Init, Tests!None, Tests!Databases, Tests!Running, HarnessInv, Kept, Alone,
       Clean, Empty

LEMMA HarnessStep ==
    ASSUME HarnessInv, Tests!Next
    PROVE  HarnessInv'
<1> USE DEF Tests!None, Tests!Databases, Tests!Running, Tests!Start, Tests!Finish, Tests!Trx
<1>1. test' \in Nat
  BY DEF HarnessInv, Tests!Next, Tests!initializer, Tests!finalizer, Tests!SetUpSimple,
         Tests!SetUpIsolated, Tests!SetUpTruncation, Tests!SetUpTest, Tests!FailSetUpIsolated,
         Tests!FailSetUpTest, Tests!Write, Tests!FailBlock, Tests!InitOwn, Tests!DropOwn,
         Tests!TearDownSimple, Tests!TearDownIsolated, Tests!TearDownTruncation,
         Tests!FailTruncation, Tests!TearDownTest
<1>0. Kept'
  BY DEF HarnessInv, Kept, Tests!Next, Tests!initializer, Tests!finalizer, Tests!SetUpSimple,
         Tests!SetUpIsolated, Tests!SetUpTruncation, Tests!SetUpTest, Tests!FailSetUpIsolated,
         Tests!FailSetUpTest, Tests!Write, Tests!FailBlock, Tests!InitOwn, Tests!DropOwn,
         Tests!TearDownSimple, Tests!TearDownIsolated, Tests!TearDownTruncation,
         Tests!FailTruncation, Tests!TearDownTest, Tests!InitAndCreate, Tests!InitDb,
         Tests!_restore_default, Tests!_reset_conn_state, Tests!_drop_databases
<1>19. Alone'
  <2> USE DEF HarnessInv, Alone
  <2>1. CASE \/ Tests!initializer \/ Tests!finalizer \/ Tests!SetUpSimple
             \/ Tests!SetUpTruncation \/ Tests!SetUpTest \/ Tests!FailSetUpTest
    BY <2>1 DEF Tests!initializer, Tests!finalizer, Tests!SetUpSimple, Tests!SetUpTruncation,
                Tests!SetUpTest, Tests!FailSetUpTest, Tests!Closed, Tests!_restore_default
  <2>2. CASE Tests!SetUpIsolated \/ Tests!FailSetUpIsolated \/ Tests!InitOwn
    BY <2>2 DEF Tests!SetUpIsolated, Tests!FailSetUpIsolated, Tests!InitOwn, Tests!InitAndCreate,
                Tests!InitDb, Tests!Made, Tests!Others, Tests!Left
  <2>3. CASE Tests!Write
    <3>1. kind = "Isolated" \/ base = "default"
      BY <2>3 DEF Tests!Write, Kept
    <3> QED BY <2>3, <3>1 DEF Tests!Write
  <2>6. CASE Tests!FailBlock
    BY <2>6 DEF Tests!FailBlock
  <2>4. CASE Tests!DropOwn \/ Tests!TearDownSimple \/ Tests!TearDownIsolated
    BY <2>4 DEF Tests!DropOwn, Tests!TearDownSimple, Tests!TearDownIsolated,
                Tests!_drop_databases, Tests!Closed, Tests!_reset_conn_state
  <2>5. CASE Tests!TearDownTruncation \/ Tests!FailTruncation
    BY <2>5 DEF Tests!TearDownTruncation, Tests!FailTruncation, Tests!_restore_default,
                Tests!_reset_conn_state
  <2>7. CASE Tests!TearDownTest
    BY <2>7 DEF Tests!TearDownTest, Tests!_reset_conn_state
  <2> QED BY <2>1, <2>2, <2>3, <2>4, <2>5, <2>6, <2>7 DEF Tests!Next
<1> USE DEF HarnessInv
<1>20. (~skipped' => Clean') => HarnessInv'
  BY <1>0, <1>1, <1>19
<1> USE DEF Kept
<1>2. CASE Tests!initializer
  BY <1>20, <1>1, <1>2 DEF Tests!initializer, Clean, Empty
<1>3. CASE Tests!finalizer
  BY <1>20, <1>1, <1>3 DEF Tests!finalizer, Tests!Closed, Clean, Empty
<1>4. CASE Tests!SetUpSimple
  BY <1>20, <1>1, <1>4 DEF Tests!SetUpSimple, Clean, Empty
<1>5. CASE Tests!SetUpIsolated
  BY <1>20, <1>1, <1>5 DEF Tests!SetUpIsolated, Tests!InitAndCreate, Tests!InitDb, Tests!Made,
     Tests!Others, Tests!Left, Clean, Empty
<1>6. CASE Tests!FailSetUpIsolated
  BY <1>20, <1>1, <1>6 DEF Tests!FailSetUpIsolated, Tests!InitDb, Tests!Made,
     Tests!Others, Tests!Left, Clean, Empty
<1>7. CASE Tests!SetUpTruncation
  BY <1>20, <1>1, <1>7 DEF Tests!SetUpTruncation, Tests!_restore_default, Clean, Empty
<1>8. CASE Tests!SetUpTest
  BY <1>20, <1>1, <1>8 DEF Tests!SetUpTest, Tests!_restore_default, Clean, Empty
<1>9. CASE Tests!FailSetUpTest
  BY <1>20, <1>1, <1>9 DEF Tests!FailSetUpTest, Tests!_restore_default
<1>10. CASE Tests!Write
  BY <1>20, <1>1, <1>10 DEF Tests!Write, Clean, Empty
<1>11. CASE Tests!FailBlock
  BY <1>20, <1>1, <1>11 DEF Tests!FailBlock, Clean, Empty
<1>12. CASE Tests!InitOwn
  BY <1>20, <1>1, <1>12 DEF Tests!InitOwn, Tests!InitAndCreate, Tests!InitDb, Tests!Made,
     Tests!Others, Tests!Left, Clean, Empty
<1>13. CASE Tests!DropOwn
  BY <1>20, <1>1, <1>13 DEF Tests!DropOwn, Tests!_drop_databases, Tests!Closed, Clean, Empty
<1>14. CASE Tests!TearDownSimple
  BY <1>20, <1>1, <1>14 DEF Tests!TearDownSimple, Tests!_reset_conn_state, Clean, Empty
<1>15. CASE Tests!TearDownIsolated
  BY <1>20, <1>1, <1>15 DEF Tests!TearDownIsolated, Tests!_drop_databases, Tests!_reset_conn_state,
                     Tests!Closed, Clean, Empty
<1>16. CASE Tests!TearDownTruncation
  BY <1>20, <1>1, <1>16 DEF Tests!TearDownTruncation, Tests!_reset_conn_state, Clean, Empty
<1>18. CASE Tests!FailTruncation
  BY <1>20, <1>18 DEF Tests!FailTruncation
<1>17. CASE Tests!TearDownTest
  BY <1>20, <1>1, <1>17 DEF Tests!TearDownTest, Tests!_reset_conn_state, Clean, Empty
<1> QED BY <1>2, <1>3, <1>4, <1>5, <1>6, <1>7, <1>8, <1>9, <1>10, <1>11, <1>12, <1>13, <1>14,
           <1>15, <1>16, <1>17, <1>18 DEF Tests!Next

\* A test sees no row of an earlier one, whichever kinds of tests ran before and whichever
\* of them failed in their setUp, unless a clean-up was cut short or left links, and in an
\* IsolatedTestCase not even then.
THEOREM FreshDatabase == Tests!Spec => []TestsIsolated
<1>1. HarnessInv => TestsIsolated
  BY DEF HarnessInv, Kept, Alone, Clean, Empty, TestsIsolated, Tests!TestsIsolated, Tests!Running,
         Tests!None, Tests!Databases
<1>2. HarnessInv /\ [Tests!Next]_Tests!vars => HarnessInv'
  <2>1. HarnessInv /\ UNCHANGED Tests!vars => HarnessInv'
    BY DEF Tests!vars, HarnessInv, Kept, Alone, Clean, Empty, Tests!Running
  <2> QED BY <2>1, HarnessStep
<1> QED BY <1>1, <1>2, HarnessInit, PTL DEF Tests!Spec

\* The types of the harness, its clients and its databases.
THEOREM HarnessTyped ==
    ASSUME MaxTests \in Nat
    PROVE  Tests!Spec => []Tests!TypeOK
<1> DEFINE Numbers == test \in 0..MaxTests /\ (phase = "running" => test \in 1..MaxTests)
           Rows == /\ dbrows \in [Tests!Databases -> SUBSET (1..MaxTests)]
                   /\ saved \in SUBSET (1..MaxTests)
           Control ==
               /\ phase \in {"start", "between", "running", "done"} /\ kind \in Tests!Kinds
               /\ base \in Tests!Databases \cup {Tests!None} /\ inited \in BOOLEAN
               /\ tables \in SUBSET Tests!Databases /\ trx \in {"none", "open", "final"}
           Configs ==
               /\ config \in {"current", "saved"}
               /\ configs \in [{"current", "saved"} -> Tests!Databases \cup {Tests!None}]
           Inv == Numbers /\ Rows /\ Configs /\ Control
<1> USE DEF Tests!None, Tests!Databases, Tests!Kinds
<1>1. Tests!Init => Inv
  <2>1. Tests!Init => Numbers
    BY DEF Tests!Init
  <2>2. Tests!Init => Rows
    BY DEF Tests!Init
  <2>3. Tests!Init => Configs
    BY DEF Tests!Init
  <2>4. Tests!Init => Control
    BY DEF Tests!Init
  <2> QED BY <2>1, <2>2, <2>3, <2>4
<1>2. Inv /\ [Tests!Next]_Tests!vars => Inv'
  <2> SUFFICES ASSUME Inv, [Tests!Next]_Tests!vars
               PROVE  Inv'
    OBVIOUS
  <2> USE DEF Tests!Running, Tests!Start, Tests!Finish, Tests!Trx, Tests!Closed,
              Tests!_restore_default, Tests!_reset_conn_state, Tests!_drop_databases,
              Tests!initializer, Tests!finalizer, Tests!SetUpSimple, Tests!SetUpTruncation,
              Tests!SetUpTest, Tests!FailSetUpTest, Tests!SetUpIsolated,
              Tests!FailSetUpIsolated, Tests!InitOwn, Tests!InitAndCreate, Tests!InitDb,
              Tests!Made, Tests!Others, Tests!Left, Tests!Write, Tests!FailBlock,
              Tests!DropOwn, Tests!TearDownSimple, Tests!TearDownIsolated,
              Tests!TearDownTruncation, Tests!FailTruncation, Tests!TearDownTest, Tests!vars
  <2>1. Numbers'
    BY DEF Tests!Next
  <2>2. Rows'
    BY DEF Tests!Next
  <2>3. Control'
    <3>1. CASE \/ UNCHANGED Tests!vars \/ Tests!initializer \/ Tests!finalizer
               \/ Tests!SetUpSimple \/ Tests!SetUpIsolated \/ Tests!SetUpTruncation
      BY <3>1
    <3>2. CASE \/ Tests!SetUpTest \/ Tests!FailSetUpIsolated \/ Tests!FailSetUpTest
               \/ Tests!Write \/ Tests!FailBlock \/ Tests!InitOwn
      BY <3>2
    <3>3. CASE \/ Tests!DropOwn \/ Tests!TearDownSimple \/ Tests!TearDownIsolated
               \/ Tests!TearDownTruncation \/ Tests!FailTruncation \/ Tests!TearDownTest
      BY <3>3
    <3> QED BY <3>1, <3>2, <3>3, Zenon DEF Tests!Next
  <2>4. Configs'
    BY DEF Tests!Next
  <2> QED BY <2>1, <2>2, <2>3, <2>4
<1>3. Inv => Tests!TypeOK
  BY DEF Tests!TypeOK
<1> QED BY <1>1, <1>2, <1>3, PTL DEF Tests!Spec

-----------------------------------------------------------------------------
(* Instances of a model                                                    *)

\* The table has room for a row, and there are names.
Sizes == MaxPk \in Nat \ {0} /\ RowNames # {}

Tables == UNION {[D -> Inst!Row] : D \in SUBSET Inst!Pks}
Links  == SUBSET (Inst!Pks \X Inst!Pks)

\* An instance that made a row knows that it is saved, and unless it passed a key of its
\* own it knows the key.
Knows(o) ==
    /\ o.inserts # 0 => o.saved /\ (o.pk # Inst!None \/ o.custom)
    /\ (o.custom /\ o.pk = Inst!None) \/ o.inserts < 2

InstancesInv ==
    /\ table \in Tables /\ links \in Links
    /\ backup = Inst!NoTransaction \/ backup \in Tables \X Links
    /\ instances \in Seq(Inst!Object)
    /\ \A i \in DOMAIN instances : Knows(instances[i])

\* A set of numbers that is not empty has a least one.
LEMMA HasLeast ==
    ASSUME NEW S \in SUBSET Nat, S # {}
    PROVE  \E x \in S : \A y \in S : x <= y
<1> DEFINE R == {p \in Nat \X Nat : p[1] < p[2]}
<1>1. IsWellFoundedOn(R, Nat)
  BY NatLessThanWellFounded DEF OpToRel
<1>2. PICK x \in S : \A y \in S : <<y, x>> \notin R
  <2> HIDE DEF R
  <2>1. S \subseteq Nat
    OBVIOUS
  <2> QED BY <1>1, <2>1, WFMin, Zenon
<1>3. ASSUME NEW y \in S, ~(x <= y)
      PROVE  FALSE
  <2>1. <<y, x>> \in Nat \X Nat /\ y < x
    BY <1>3
  <2> QED BY <1>2, <2>1
<1> QED BY <1>3

\* The next key is a key: one more than the greatest of the table.
LEMMA NextPkMade ==
    ASSUME Sizes, table \in Tables, Inst!NextPk <= MaxPk
    PROVE  Inst!NextPk \in Inst!Pks
<1> DEFINE Keys == DOMAIN table
           Above == {k \in Nat : \A l \in Keys : l < k}
<1>1. PICK D \in SUBSET Inst!Pks : table \in [D -> Inst!Row]
  BY DEF Tables
<1>2. Keys \in SUBSET (1..MaxPk) /\ (Keys = {} => table = <<>>)
  BY <1>1 DEF Inst!Pks
<1>3. CASE table = <<>>
  BY <1>3 DEF Inst!NextPk, Inst!Pks, Sizes
<1>4. CASE table # <<>>
  <2>1. MaxPk + 1 \in Above /\ Above \in SUBSET Nat
    BY <1>2 DEF Sizes
  <2>2. PICK k \in Above : \A l \in Above : k <= l
    <3> HIDE DEF Above
    <3> QED BY <2>1, HasLeast
  <2>3. PICK l \in Keys : TRUE
    BY <1>2, <1>4
  <2>4. k \in 1..(MaxPk + 1) /\ k - 1 \in Nat
    BY <1>2, <2>1, <2>2, <2>3 DEF Sizes
  <2>5. k - 1 \notin Above
    BY <2>2, <2>4
  <2>6. PICK m \in Keys : ~(m < k - 1)
    BY <2>4, <2>5
  <2>7. m = k - 1
    <3>1. m < k /\ m \in Nat
      BY <1>2, <2>2, <2>6
    <3> QED BY <2>4, <2>6, <3>1
  <2>8. \E n \in 1..(MaxPk + 1) : n - 1 \in Keys /\ \A i \in Keys : i < n
    BY <2>2, <2>4, <2>6, <2>7
  <2>9. Inst!NextPk \in 1..(MaxPk + 1)
    BY <1>4, <2>8 DEF Inst!NextPk
  <2> QED BY <2>9 DEF Inst!Pks, Sizes
<1> QED BY <1>3, <1>4

LEMMA InstancesInit ==
    ASSUME Sizes, Inst!Init
    PROVE  InstancesInv
<1> DEFINE row == [name |-> CHOOSE n \in RowNames : TRUE, boss |-> Inst!None]
<1>1. row \in Inst!Row
  BY DEF Sizes, Inst!Row, Inst!None
<1>2. {1} \in SUBSET Inst!Pks
  BY DEF Sizes, Inst!Pks
<1>3. table \in Tables
  <2>1. table = [k \in {1} |-> row]
    BY DEF Inst!Init
  <2> HIDE DEF row
  <2>2. table \in [{1} -> Inst!Row]
    BY <1>1, <2>1
  <2> QED BY <1>2, <2>2 DEF Tables
<1>4. instances \in Seq(Inst!Object) /\ DOMAIN instances = {}
  <2>1. instances = <<>>
    BY DEF Inst!Init
  <2> QED BY <2>1
<1>5. links \in Links /\ backup = Inst!NoTransaction
  BY DEF Inst!Init, Links
<1> QED BY <1>3, <1>4, <1>5 DEF InstancesInv

\* One more object, or another value of one.
Objects == instances \in Seq(Inst!Object) /\ \A i \in DOMAIN instances : Knows(instances[i])

LEMMA ObjectAppended ==
    ASSUME Objects, NEW o \in Inst!Object, Knows(o), instances' = Append(instances, o)
    PROVE  Objects'
<1>1. instances' \in Seq(Inst!Object)
  BY DEF Objects
<1>2. ASSUME NEW j \in DOMAIN instances'
      PROVE  Knows(instances'[j])
  <2>1. \/ j \in DOMAIN instances /\ instances'[j] = instances[j]
        \/ instances'[j] = o
    BY <1>2 DEF Objects
  <2> QED BY <2>1 DEF Objects
<1> QED BY <1>1, <1>2 DEF Objects

LEMMA ObjectChanged ==
    ASSUME Objects, NEW i \in DOMAIN instances, NEW o \in Inst!Object, Knows(o),
           instances' = [instances EXCEPT ![i] = o]
    PROVE  Objects'
<1>1. instances' \in Seq(Inst!Object)
  BY DEF Objects
<1>2. ASSUME NEW j \in DOMAIN instances'
      PROVE  Knows(instances'[j])
  <2>1. instances'[j] = (IF j = i THEN o ELSE instances[j]) /\ j \in DOMAIN instances
    BY <1>2 DEF Objects
  <2> QED BY <2>1 DEF Objects
<1> QED BY <1>1, <1>2 DEF Objects

LEMMA ObjectOf ==
    ASSUME Objects, NEW i \in DOMAIN instances
    PROVE  instances[i] \in Inst!Object /\ Knows(instances[i])
BY DEF Objects

\* The calls that make objects or change their attributes write no rows.
LEMMA ObjectsStep ==
    ASSUME Sizes, Objects, table \in Tables,
           \/ \E n \in RowNames, k \in Inst!Pks \cup {Inst!None} : Inst!__init__(n, k)
           \/ \E k \in Inst!Pks, has \in {Inst!All, {"pk", "name"}, {"name"}} :
                Inst!_init_from_db(k, has)
           \/ \E i \in DOMAIN instances :
                \/ Inst!clone(i, Inst!None)
                \/ \E n \in RowNames : Inst!SetName(i, n)
                \/ \E k \in Inst!Pks \cup {Inst!None} : Inst!SetBossId(i, k)
    PROVE  Objects' /\ UNCHANGED <<table, links, backup>>
<1> USE DEF Inst!None, Inst!Fields, Inst!All
<1>1. ASSUME NEW n \in RowNames, NEW k \in Inst!Pks \cup {Inst!None}, Inst!__init__(n, k)
      PROVE  Objects' /\ UNCHANGED <<table, links, backup>>
  <2> DEFINE o == [pk |-> k, name |-> n, boss |-> 0, saved |-> FALSE, custom |-> k # 0,
                   has |-> Inst!All, inserts |-> 0]
  <2>1. o \in Inst!Object /\ Knows(o)
    BY DEF Inst!Object, Knows
  <2>2. instances' = Append(instances, o) /\ UNCHANGED <<table, links, backup>>
    BY <1>1 DEF Inst!__init__, Inst!NewObject
  <2> QED BY <2>1, <2>2, ObjectAppended
<1>2. ASSUME NEW k \in Inst!Pks, NEW has \in {Inst!All, {"pk", "name"}, {"name"}},
             Inst!_init_from_db(k, has)
      PROVE  Objects' /\ UNCHANGED <<table, links, backup>>
  <2> DEFINE o == [pk |-> IF "pk" \in has THEN k ELSE 0, name |-> table[k].name,
                   boss |-> table[k].boss, saved |-> TRUE, custom |-> FALSE,
                   has |-> has, inserts |-> 0]
  <2>1. table[k] \in Inst!Row
    BY <1>2 DEF Tables, Inst!_init_from_db
  <2>2. o \in Inst!Object /\ Knows(o)
    BY <2>1 DEF Inst!Object, Inst!Row, Knows
  <2>3. instances' = Append(instances, o) /\ UNCHANGED <<table, links, backup>>
    BY <1>2 DEF Inst!_init_from_db, Inst!NewObject
  <2> QED BY <2>2, <2>3, ObjectAppended
<1>3. ASSUME NEW i \in DOMAIN instances, Inst!clone(i, Inst!None)
      PROVE  Objects' /\ UNCHANGED <<table, links, backup>>
  <2> DEFINE a == [instances[i] EXCEPT !.pk = 0, !.saved = FALSE]
             o == [a EXCEPT !.inserts = 0]
  <2>1. o \in Inst!Object /\ o.inserts = 0
    <3>1. a \in Inst!Object
      BY ObjectOf DEF Inst!Object
    <3> HIDE DEF a
    <3> QED BY <3>1 DEF Inst!Object
  <2>2. instances' = Append(instances, o) /\ UNCHANGED <<table, links, backup>>
    BY <1>3 DEF Inst!clone, Inst!NewObject
  <2>3. Knows(o)
    BY <2>1 DEF Knows
  <2> QED BY <2>1, <2>2, <2>3, ObjectAppended
<1>4. ASSUME NEW i \in DOMAIN instances, NEW n \in RowNames, Inst!SetName(i, n)
      PROVE  Objects' /\ UNCHANGED <<table, links, backup>>
  <2> DEFINE o == [instances[i] EXCEPT !.name = n, !.has = @ \cup {"name"}]
  <2>1. o \in Inst!Object /\ Knows(o)
    BY ObjectOf DEF Inst!Object, Knows
  <2>2. instances' = [instances EXCEPT ![i] = o] /\ UNCHANGED <<table, links, backup>>
    BY <1>4 DEF Inst!SetName, Inst!Assign
  <2> QED BY <2>1, <2>2, ObjectChanged
<1>5. ASSUME NEW i \in DOMAIN instances, NEW k \in Inst!Pks \cup {Inst!None},
             Inst!SetBossId(i, k)
      PROVE  Objects' /\ UNCHANGED <<table, links, backup>>
  <2> DEFINE o == [instances[i] EXCEPT !.boss = k, !.has = @ \cup {"boss"}]
  <2>1. o \in Inst!Object /\ Knows(o)
    BY ObjectOf DEF Inst!Object, Knows
  <2>2. instances' = [instances EXCEPT ![i] = o] /\ UNCHANGED <<table, links, backup>>
    BY <1>5 DEF Inst!SetBossId, Inst!Assign
  <2> QED BY <2>1, <2>2, ObjectChanged
<1> QED BY <1>1, <1>2, <1>3, <1>4, <1>5

\* A row more, and rows that have other values.
LEMMA TableWith ==
    ASSUME table \in Tables, NEW k \in Inst!Pks, NEW row \in Inst!Row,
           table' = [l \in DOMAIN table \cup {k} |-> IF l = k THEN row ELSE table[l]]
    PROVE  /\ table' \in Tables /\ DOMAIN table' = DOMAIN table \cup {k}
           /\ table'[k] = row /\ \A l \in DOMAIN table : l # k => table'[l] = table[l]
<1>1. PICK D \in SUBSET Inst!Pks : table \in [D -> Inst!Row]
  BY DEF Tables
<1>2. table' \in [D \cup {k} -> Inst!Row] /\ D \cup {k} \in SUBSET Inst!Pks
  BY <1>1
<1> QED BY <1>1, <1>2 DEF Tables

LEMMA TableMapped ==
    ASSUME table \in Tables, NEW D \in SUBSET DOMAIN table, DOMAIN table' = D,
           table' = [k \in D |-> table'[k]], \A k \in D : table'[k] \in Inst!Row
    PROVE  table' \in Tables
<1>1. D \in SUBSET Inst!Pks
  BY DEF Tables
<1>2. table' \in [D -> Inst!Row]
  OBVIOUS
<1> QED BY <1>1, <1>2 DEF Tables

LEMMA RowOf ==
    ASSUME table \in Tables, NEW k \in DOMAIN table
    PROVE  k \in Inst!Pks /\ table[k] \in Inst!Row
BY DEF Tables

\* What SaveWritesItsRow says of one instance
WritesRow(i) ==
    last' = <<"save", i, "">> =>
        LET o == instances'[i]
            others == {k \in DOMAIN table : k # o.pk}
        IN  /\ o.pk # Inst!None => \A k \in others : table'[k] = table[k]
            /\ o.pk \in DOMAIN table' =>
                \/ Inst!Stored(o) = table'[o.pk]
                \/ /\ o.pk \in DOMAIN table /\ table'[o.pk].name = o.name
                   /\ table'[o.pk].boss = table[o.pk].boss
            /\ o.pk \notin DOMAIN table' => (table' = table \/ o.custom)

SaveKeeps(i) ==
    /\ Objects' /\ table' \in Tables /\ UNCHANGED <<links, backup>>
    /\ WritesRow(i) /\ \E e : last' = <<"save", i, e>>

LEMMA FailedSave ==
    ASSUME Objects, table \in Tables, NEW i, NEW e, e # "", Inst!Fail("save", i, e)
    PROVE  SaveKeeps(i)
<1>1. UNCHANGED <<table, links, backup, instances>> /\ last' = <<"save", i, e>>
  BY DEF Inst!Fail
<1> QED BY <1>1 DEF SaveKeeps, WritesRow, Objects

\* A row that is inserted is that of the instance, which knows its key unless it is to
\* have one of its own; it is counted once.
LEMMA InsertedKeeps ==
    ASSUME Objects, table \in Tables, NEW i \in DOMAIN instances, NEW k \in Inst!Pks,
           NEW pk \in {k, Inst!None}, NEW count \in BOOLEAN, Inst!Inserted(i, k, pk, count),
           pk = Inst!None => instances[i].custom,
           instances[i].custom => pk = instances[i].pk,
           count => instances[i].inserts = 0 \/ (instances[i].custom /\ pk = Inst!None)
    PROVE  SaveKeeps(i)
<1> USE DEF Inst!None
<1> DEFINE x == instances[i]
           n == IF count /\ x.inserts < 2 THEN x.inserts + 1 ELSE x.inserts
           a == [x EXCEPT !.pk = pk, !.saved = TRUE]
           o == [a EXCEPT !.inserts = n]
<1>1. x \in Inst!Object /\ Knows(x)
  BY ObjectOf
<1>2. a \in Inst!Object /\ a.pk = pk /\ a.saved /\ a.custom = x.custom /\ a.name = x.name
      /\ a.boss = x.boss
  BY <1>1 DEF Inst!Object
<1>3. n \in 0..2
  BY <1>1 DEF Inst!Object
<1>4. /\ o \in Inst!Object /\ o.pk = pk /\ o.saved /\ o.custom = x.custom /\ o.name = x.name
      /\ o.boss = x.boss /\ o.inserts = n
  <2> HIDE DEF a, n
  <2> QED BY <1>2, <1>3 DEF Inst!Object
<1>5. Knows(o)
  <2>1. x.inserts \in 0..2
    BY <1>1 DEF Inst!Object
  <2>2. n < 2 \/ (x.custom /\ pk = 0)
    BY <1>1, <2>1 DEF Knows
  <2> HIDE DEF o, n
  <2> QED BY <1>4, <2>2 DEF Knows
<1>6. instances' = [instances EXCEPT ![i] = o]
  BY DEF Inst!Inserted
<1>7. Objects' /\ instances'[i] = o
  <2>1. Objects'
    <3> HIDE DEF o
    <3> QED BY <1>4, <1>5, <1>6, ObjectChanged
  <2>2. instances \in Seq(Inst!Object)
    BY DEF Objects
  <2> HIDE DEF o
  <2> QED BY <1>6, <2>1, <2>2
<1>8. Inst!Stored(x) \in Inst!Row /\ Inst!Stored(o) = Inst!Stored(x)
  <2> HIDE DEF o
  <2> QED BY <1>1, <1>4 DEF Inst!Stored, Inst!Values, Inst!Fields, Inst!Row, Inst!Object
<1>9. /\ table' \in Tables /\ DOMAIN table' = DOMAIN table \cup {k}
      /\ table'[k] = Inst!Stored(x) /\ \A l \in DOMAIN table : l # k => table'[l] = table[l]
  <2>1. table' = [l \in DOMAIN table \cup {k} |-> IF l = k THEN Inst!Stored(x) ELSE table[l]]
    BY DEF Inst!Inserted
  <2> QED BY <1>8, <2>1, TableWith
<1>10. WritesRow(i)
  <2>1. 0 \notin DOMAIN table'
    <3>1. \A l \in DOMAIN table : l # 0
      BY RowOf DEF Inst!Pks
    <3> QED BY <1>9, <3>1 DEF Inst!Pks
  <2> HIDE DEF o, x
  <2> QED BY <1>4, <1>7, <1>8, <1>9, <2>1 DEF WritesRow, x
<1> QED BY <1>7, <1>9, <1>10 DEF SaveKeeps, Inst!Inserted, Inst!Done

\* An update changes the columns it was asked for in the row of the instance, if any.
LEMMA UpdateKeeps ==
    ASSUME Objects, table \in Tables, NEW i \in DOMAIN instances,
           NEW fields \in {Inst!Fields, {"name"}}, NEW force \in BOOLEAN,
           Inst!execute_update(i, fields, force)
    PROVE  SaveKeeps(i)
<1> DEFINE x == instances[i]
           o == [x EXCEPT !.saved = TRUE]
<1>1. CASE force /\ x.pk \notin DOMAIN table
  <2>1. Inst!Fail("save", i, "IntegrityError")
    BY <1>1 DEF Inst!execute_update
  <2> QED BY <2>1, FailedSave
<1>2. CASE ~(force /\ x.pk \notin DOMAIN table)
  <2>1. /\ table' = [k \in DOMAIN table |->
                        IF k = x.pk THEN Inst!Values(x, fields, table[k]) ELSE table[k]]
        /\ instances' = [instances EXCEPT ![i] = o] /\ UNCHANGED <<links, backup>>
        /\ last' = <<"save", i, "">>
    BY <1>2 DEF Inst!execute_update, Inst!Done
  <2>2. x \in Inst!Object /\ Knows(x)
    BY ObjectOf
  <2>3. /\ o \in Inst!Object /\ o.pk = x.pk /\ o.custom = x.custom /\ o.name = x.name
        /\ o.boss = x.boss /\ Knows(o)
    BY <2>2 DEF Inst!Object, Knows
  <2>4. Objects' /\ instances'[i] = o
    <3>1. Objects'
      <4> HIDE DEF o
      <4> QED BY <2>1, <2>3, ObjectChanged
    <3>2. instances \in Seq(Inst!Object)
      BY DEF Objects
    <3> HIDE DEF o
    <3> QED BY <2>1, <3>1, <3>2
  <2>5. ASSUME NEW k \in DOMAIN table
        PROVE  table[k] \in Inst!Row /\ Inst!Values(x, fields, table[k]) \in Inst!Row
    <3>1. table[k] \in Inst!Row
      BY RowOf
    <3> HIDE DEF x
    <3> QED BY <2>2, <3>1 DEF Inst!Values, Inst!Row, Inst!Object
  <2>6. table' \in Tables
    <3>1. DOMAIN table' = DOMAIN table /\ table' = [k \in DOMAIN table |-> table'[k]]
      BY <2>1
    <3>2. \A k \in DOMAIN table : table'[k] \in Inst!Row
      <4> HIDE DEF x
      <4> QED BY <2>1, <2>5
    <3> QED BY <3>1, <3>2, TableMapped
  <2>7. WritesRow(i)
    <3>1. x.pk \notin DOMAIN table => table' = table
      BY <2>1 DEF Tables
    <3>2. x.pk \in DOMAIN table => table'[x.pk] = Inst!Values(x, fields, table[x.pk])
      BY <2>1
    <3>3. \A k \in DOMAIN table : k # x.pk => table'[k] = table[k]
      BY <2>1
    <3>4. DOMAIN table' = DOMAIN table
      BY <2>1
    <3>5. \/ Inst!Values(x, fields, table[x.pk]) = Inst!Stored(o)
          \/ /\ Inst!Values(x, fields, table[x.pk]).name = o.name
             /\ Inst!Values(x, fields, table[x.pk]).boss = table[x.pk].boss
      <4> HIDE DEF x, o
      <4> QED BY <2>3 DEF Inst!Values, Inst!Stored, Inst!Fields
    <3> HIDE DEF x, o
    <3> QED BY <2>3, <2>4, <3>1, <3>2, <3>3, <3>4, <3>5 DEF WritesRow
  <2> QED BY <2>1, <2>4, <2>6, <2>7 DEF SaveKeeps
<1> QED BY <1>1, <1>2

LEMMA InsertKeeps ==
    ASSUME Sizes, Objects, table \in Tables, NEW i \in DOMAIN instances, NEW count \in BOOLEAN,
           Inst!execute_insert(i, count),
           count => ~instances[i].saved \/ instances[i].pk = Inst!None
    PROVE  SaveKeeps(i)
<1> DEFINE x == instances[i]
<1>1. x \in Inst!Object /\ Knows(x)
  BY ObjectOf
<1>2. count => x.inserts = 0 \/ (x.custom /\ x.pk = Inst!None)
  BY <1>1 DEF Knows
<1>3. CASE ~x.custom
  <2>1. Inst!NextPk <= MaxPk /\ Inst!Inserted(i, Inst!NextPk, Inst!NextPk, count)
    BY <1>3 DEF Inst!execute_insert
  <2>2. Inst!NextPk \in Inst!Pks /\ Inst!NextPk # Inst!None
    BY <2>1, NextPkMade DEF Inst!Pks, Inst!None
  <2> QED BY <1>2, <1>3, <2>1, <2>2, InsertedKeeps
<1>4. CASE x.custom /\ x.pk = Inst!None
  <2>1. Inst!NextPk <= MaxPk /\ Inst!Inserted(i, Inst!NextPk, Inst!None, count)
    BY <1>4 DEF Inst!execute_insert
  <2>2. Inst!NextPk \in Inst!Pks
    BY <2>1, NextPkMade
  <2> QED BY <1>2, <1>4, <2>1, <2>2, InsertedKeeps
<1>5. CASE x.custom /\ x.pk # Inst!None /\ x.pk \in DOMAIN table
  <2>1. Inst!Fail("save", i, "IntegrityError")
    BY <1>5 DEF Inst!execute_insert
  <2> QED BY <2>1, FailedSave
<1>6. CASE x.custom /\ x.pk # Inst!None /\ x.pk \notin DOMAIN table
  <2>1. Inst!Inserted(i, x.pk, x.pk, count)
    BY <1>6 DEF Inst!execute_insert
  <2>2. x.pk \in Inst!Pks
    BY <1>1, <1>6 DEF Inst!Object
  <2> QED BY <1>2, <1>6, <2>1, <2>2, InsertedKeeps
<1> QED BY <1>3, <1>4, <1>5, <1>6

LEMMA SaveStep ==
    ASSUME Sizes, Objects, table \in Tables, NEW i \in DOMAIN instances,
           NEW s \in Inst!Saves, NEW mode \in {"", "create", "update"},
           Inst!save(i, s[1], s[2], mode)
    PROVE  SaveKeeps(i)
<1>1. s[1] \in {Inst!Fields, {"name"}} /\ s[2] \in BOOLEAN
  <2>1. s = <<Inst!Fields, FALSE>> \/ s = <<{"name"}, TRUE>>
    BY DEF Inst!Saves
  <2>2. CASE s = <<Inst!Fields, FALSE>>
    BY <2>2
  <2>3. CASE s = <<{"name"}, TRUE>>
    BY <2>3
  <2> QED BY <2>1, <2>2, <2>3
<1>2. \/ Inst!Fail("save", i, "IncompleteInstanceError")
      \/ /\ \/ mode = "create"
            \/ mode = "" /\ (~instances[i].saved \/ instances[i].pk = Inst!None)
         /\ Inst!execute_insert(i, mode = "")
      \/ Inst!execute_update(i, s[1], mode = "update")
  BY <1>1 DEF Inst!save
<1>3. CASE Inst!Fail("save", i, "IncompleteInstanceError")
  BY <1>3, FailedSave
<1>4. CASE /\ \/ mode = "create"
              \/ mode = "" /\ (~instances[i].saved \/ instances[i].pk = Inst!None)
           /\ Inst!execute_insert(i, mode = "")
  BY <1>4, InsertKeeps
<1>5. CASE Inst!execute_update(i, s[1], mode = "update")
  BY <1>1, <1>5, UpdateKeeps
<1> QED BY <1>2, <1>3, <1>4, <1>5

LEMMA Untouched ==
    ASSUME InstancesInv, UNCHANGED <<backup, instances>>, table' \in Tables, links' \in Links
    PROVE  InstancesInv'
BY DEF InstancesInv

LEMMA NoSave ==
    ASSUME NEW op, NEW i, NEW e, last' = <<op, i, e>>, op # "save"
    PROVE  \A j \in DOMAIN instances : last' # <<"save", j, "">>
OBVIOUS

\* The other calls: they add no row, and leave every instance as it is or give it the
\* values of its row.
LEMMA OtherStep ==
    ASSUME Sizes, InstancesInv,
           \/ \E i \in DOMAIN instances :
                \/ Inst!delete(i)
                \/ \E f \in {{}, {"name"}} : Inst!refresh_from_db(i, f)
                \/ \E k \in Inst!Pks : Inst!AddSelect(i, {k}) \/ Inst!_remove_or_clear(i, {k})
           \/ \E a \in adds : Inst!AddInsert(a)
           \/ Inst!Begin \/ \E commit \in BOOLEAN : Inst!Finish(commit)
    PROVE  InstancesInv' /\ \A i \in DOMAIN instances : last' # <<"save", i, "">>
<1>0. table \in Tables /\ links \in Links /\ Objects
  BY DEF InstancesInv, Objects
<1>1. ASSUME NEW i \in DOMAIN instances, Inst!delete(i)
      PROVE  InstancesInv' /\ \A j \in DOMAIN instances : last' # <<"save", j, "">>
  <2>1. CASE ~instances[i].saved
    <3>1. UNCHANGED <<table, links, backup, instances>>
          /\ last' = <<"delete", i, "OperationalError">>
      BY <1>1, <2>1 DEF Inst!delete, Inst!Fail
    <3> QED BY <1>0, <3>1, Untouched, NoSave
  <2>2. CASE instances[i].saved
    <3>1. /\ table' = [k \in DOMAIN table \ {instances[i].pk} |-> table[k]]
          /\ links' \subseteq links /\ UNCHANGED <<backup, instances>>
          /\ last' = <<"delete", i, "">>
      BY <1>1, <2>2 DEF Inst!delete, Inst!Done
    <3>2. table' \in Tables
      <4> DEFINE D == DOMAIN table \ {instances[i].pk}
      <4>1. /\ D \in SUBSET DOMAIN table /\ DOMAIN table' = D
            /\ table' = [k \in D |-> table'[k]]
        BY <3>1
      <4>2. \A k \in D : table'[k] \in Inst!Row
        BY <1>0, <3>1, RowOf
      <4> HIDE DEF D
      <4> QED BY <1>0, <4>1, <4>2, TableMapped
    <3>3. links' \in Links
      BY <1>0, <3>1 DEF Links
    <3> QED BY <3>1, <3>2, <3>3, Untouched, NoSave
  <2> QED BY <2>1, <2>2
<1>2. ASSUME NEW i \in DOMAIN instances, NEW f \in {{}, {"name"}}, Inst!refresh_from_db(i, f)
      PROVE  InstancesInv' /\ \A j \in DOMAIN instances : last' # <<"save", j, "">>
  <2>1. CASE ~instances[i].saved \/ instances[i].pk \notin DOMAIN table
    <3>1. PICK e : UNCHANGED <<table, links, backup, instances>>
                   /\ last' = <<"refresh", i, e>>
      BY <1>2, <2>1 DEF Inst!refresh_from_db, Inst!Fail
    <3> QED BY <1>0, <3>1, Untouched, NoSave
  <2>2. CASE instances[i].saved /\ instances[i].pk \in DOMAIN table
    <3> DEFINE x == instances[i]
               read == IF f = {} THEN {"boss"} ELSE f
               o == [x EXCEPT !.name = IF "name" \in read THEN table[x.pk].name ELSE @,
                              !.boss = IF "boss" \in read THEN table[x.pk].boss ELSE @]
    <3>1. /\ instances' = [instances EXCEPT ![i] = o] /\ UNCHANGED <<table, links, backup>>
          /\ last' = <<"refresh", i, "">>
      BY <1>2, <2>2 DEF Inst!refresh_from_db, Inst!Done
    <3>2. o \in Inst!Object /\ Knows(o)
      <4>1. x \in Inst!Object /\ Knows(x) /\ table[x.pk] \in Inst!Row
        BY <1>0, <2>2, ObjectOf, RowOf
      <4> QED BY <4>1 DEF Inst!Object, Inst!Row, Knows
    <3>3. Objects'
      <4> HIDE DEF o
      <4> QED BY <1>0, <3>1, <3>2, ObjectChanged
    <3>4. InstancesInv'
      BY <3>1, <3>3 DEF InstancesInv, Objects
    <3> QED BY <3>1, <3>4, NoSave
  <2> QED BY <2>1, <2>2
<1>3. ASSUME NEW i \in DOMAIN instances, NEW k \in Inst!Pks,
             Inst!AddSelect(i, {k}) \/ Inst!_remove_or_clear(i, {k})
      PROVE  InstancesInv' /\ \A j \in DOMAIN instances : last' # <<"save", j, "">>
  <2>1. UNCHANGED <<table, backup, instances>> /\ links' \subseteq links
    BY <1>3 DEF Inst!AddSelect, Inst!_remove_or_clear, Inst!Fail, Inst!Done
  <2>2. \A j \in DOMAIN instances : last' # <<"save", j, "">>
    <3>1. CASE last' = <<"add", i, "OperationalError">>
      BY <3>1, NoSave
    <3>2. CASE last' = <<"select", i, "">>
      BY <3>2, NoSave
    <3>3. CASE last' = <<"remove", i, "">>
      BY <3>3, NoSave
    <3> QED BY <1>3, <3>1, <3>2, <3>3 DEF Inst!AddSelect, Inst!_remove_or_clear, Inst!Fail,
               Inst!Done
  <2>3. links' \in Links
    BY <1>0, <2>1 DEF Links
  <2> QED BY <1>0, <2>1, <2>2, <2>3, Untouched
<1>4. ASSUME NEW a \in adds, Inst!AddInsert(a)
      PROVE  InstancesInv' /\ \A j \in DOMAIN instances : last' # <<"save", j, "">>
  <2>1. UNCHANGED <<table, backup, instances>> /\ \E e : last' = <<"add", a.of, e>>
    BY <1>4 DEF Inst!AddInsert
  <2>2. links' \in Links
    <3>1. links' = links \/ (/\ links' = links \cup {<<a.pk, k>> : k \in a.new}
                             /\ a.new \cup {a.pk} \subseteq DOMAIN table)
      BY <1>4 DEF Inst!AddInsert
    <3>2. DOMAIN table \subseteq Inst!Pks
      BY <1>0, RowOf
    <3>3. CASE /\ links' = links \cup {<<a.pk, k>> : k \in a.new}
               /\ a.new \cup {a.pk} \subseteq DOMAIN table
      <4>1. {<<a.pk, k>> : k \in a.new} \subseteq Inst!Pks \X Inst!Pks
        BY <3>2, <3>3
      <4> QED BY <1>0, <3>3, <4>1 DEF Links
    <3> QED BY <1>0, <3>1, <3>3
  <2> QED BY <1>0, <2>1, <2>2, Untouched, NoSave
<1>5. ASSUME Inst!Begin
      PROVE  InstancesInv' /\ \A j \in DOMAIN instances : last' # <<"save", j, "">>
  <2>1. /\ backup' = <<table, links>> /\ UNCHANGED <<table, links, instances>>
        /\ last' = <<"", 0, "">>
    BY <1>5 DEF Inst!Begin, Inst!Quiet
  <2> QED BY <2>1, NoSave DEF InstancesInv
<1>6. ASSUME NEW commit \in BOOLEAN, Inst!Finish(commit)
      PROVE  InstancesInv' /\ \A j \in DOMAIN instances : last' # <<"save", j, "">>
  <2>1. /\ backup # Inst!NoTransaction /\ backup' = Inst!NoTransaction
        /\ \/ UNCHANGED <<table, links>>
           \/ table' = backup[1] /\ links' = backup[2]
        /\ UNCHANGED instances /\ last' = <<"", 0, "">>
    BY <1>6 DEF Inst!Finish, Inst!Quiet
  <2>2. backup[1] \in Tables /\ backup[2] \in Links
    BY <2>1 DEF InstancesInv
  <2> QED BY <2>1, <2>2, NoSave DEF InstancesInv
<1> QED BY <1>1, <1>2, <1>3, <1>4, <1>5, <1>6

LEMMA InstancesStep ==
    ASSUME Sizes, InstancesInv, Inst!Next
    PROVE  InstancesInv' /\ \A i \in DOMAIN instances : WritesRow(i)
<1>1. Objects /\ table \in Tables
  BY DEF InstancesInv, Objects
<1>2. CASE \/ \E n \in RowNames, k \in Inst!Pks \cup {Inst!None} : Inst!__init__(n, k)
           \/ \E k \in Inst!Pks, has \in {Inst!All, {"pk", "name"}, {"name"}} :
                Inst!_init_from_db(k, has)
           \/ \E i \in DOMAIN instances :
                \/ Inst!clone(i, Inst!None)
                \/ \E n \in RowNames : Inst!SetName(i, n)
                \/ \E k \in Inst!Pks \cup {Inst!None} : Inst!SetBossId(i, k)
  <2>1. Objects' /\ UNCHANGED <<table, links, backup>>
    BY <1>1, <1>2, ObjectsStep
  <2>2. last' = <<"", 0, "">>
    BY <1>2 DEF Inst!__init__, Inst!_init_from_db, Inst!clone, Inst!SetName, Inst!SetBossId,
                Inst!Assign, Inst!Quiet
  <2>3. \A i \in DOMAIN instances : WritesRow(i)
    BY <2>2 DEF WritesRow
  <2> QED BY <2>1, <2>3 DEF InstancesInv, Objects
<1>3. ASSUME NEW i \in DOMAIN instances, NEW s \in Inst!Saves,
             NEW mode \in {"", "create", "update"}, Inst!save(i, s[1], s[2], mode)
      PROVE  InstancesInv' /\ \A j \in DOMAIN instances : WritesRow(j)
  <2>1. SaveKeeps(i)
    BY <1>1, <1>3, SaveStep
  <2>2. \A j \in DOMAIN instances : last' = <<"save", j, "">> => j = i
    <3>1. PICK e : last' = <<"save", i, e>>
      BY <2>1 DEF SaveKeeps
    <3> QED BY <3>1
  <2>3. \A j \in DOMAIN instances : WritesRow(j)
    BY <2>1, <2>2 DEF SaveKeeps, WritesRow
  <2> QED BY <2>1, <2>3 DEF SaveKeeps, InstancesInv, Objects
<1>4. CASE \/ \E i \in DOMAIN instances :
                \/ Inst!delete(i)
                \/ \E f \in {{}, {"name"}} : Inst!refresh_from_db(i, f)
                \/ \E k \in Inst!Pks : Inst!AddSelect(i, {k}) \/ Inst!_remove_or_clear(i, {k})
           \/ \E a \in adds : Inst!AddInsert(a)
           \/ Inst!Begin \/ \E commit \in BOOLEAN : Inst!Finish(commit)
  BY <1>4, OtherStep DEF WritesRow
<1> QED BY <1>2, <1>3, <1>4 DEF Inst!Next, Inst!Call

LEMMA InstancesStutter ==
    ASSUME InstancesInv, UNCHANGED Inst!vars
    PROVE  InstancesInv'
BY DEF Inst!vars, InstancesInv

LEMMA InstancesInvariant ==
    ASSUME Sizes
    PROVE  Inst!Spec => []InstancesInv
<1>1. Inst!Init => InstancesInv
  BY InstancesInit
<1>2. InstancesInv /\ [Inst!Next]_Inst!vars => InstancesInv'
  BY InstancesStep, InstancesStutter
<1> QED BY <1>1, <1>2, PTL DEF Inst!Spec

\* An instance makes one row, however it is changed, saved, refreshed, copied and deleted,
\* and whatever is rolled back in between: for a table and a program of any size.
THEOREM OneRowEach ==
    ASSUME Sizes
    PROVE  Inst!Spec => []InsertedOnce
<1>1. InstancesInv => InsertedOnce
  BY DEF InstancesInv, Knows, InsertedOnce, Inst!InsertedOnce
<1> QED BY <1>1, InstancesInvariant, PTL

\* A save() that raises nothing leaves the values of the instance in its row, and every
\* other row and column alone.
THEOREM SavesWriteTheirRows ==
    ASSUME Sizes
    PROVE  Inst!Spec => SaveWritesItsRow
<1>1. InstancesInv /\ [Inst!Next]_Inst!vars =>
      [\A i \in DOMAIN instances : last' = <<"save", i, "">> /\ calls # calls' =>
        LET o == instances'[i]
            others == {k \in DOMAIN table : k # o.pk}
        IN  /\ o.pk # Inst!None => \A k \in others : table'[k] = table[k]
            /\ o.pk \in DOMAIN table' =>
                \/ Inst!Stored(o) = table'[o.pk]
                \/ /\ o.pk \in DOMAIN table /\ table'[o.pk].name = o.name
                   /\ table'[o.pk].boss = table[o.pk].boss
            /\ o.pk \notin DOMAIN table' => (table' = table \/ o.custom)]_Inst!vars
  BY InstancesStep DEF WritesRow
<1> QED BY <1>1, InstancesInvariant, PTL DEF Inst!Spec, SaveWritesItsRow, Inst!SaveWritesItsRow

\* The types of the table, of the rows of the relation and of the instances.
THEOREM InstancesTyped ==
    ASSUME Sizes
    PROVE  Inst!Spec => []Inst!TypeOK
<1>1. InstancesInv => Inst!TypeOK
  BY DEF InstancesInv, Inst!TypeOK, Tables, Links
<1> QED BY <1>1, InstancesInvariant, PTL

-----------------------------------------------------------------------------
(* The order of rows                                                       *)

\* R orders the elements of U one after the other.
Linear(R, U) ==
    /\ \A k \in U : <<k, k>> \notin R
    /\ \A k, l \in U : k # l => <<k, l>> \in R \/ <<l, k>> \in R
    /\ \A k, l, m \in U : <<k, l>> \in R /\ <<l, m>> \in R => <<k, m>> \in R

Ordered(R, s) == \A i, j \in DOMAIN s : i < j => <<s[i], s[j]>> \in R

Below(R, S, k) == {l \in S : <<l, k>> \in R}
Position(R, S, k) == Cardinality(Below(R, S, k)) + 1

LEMMA PositionBelow ==
    ASSUME NEW R, NEW S, IsFiniteSet(S), Linear(R, S), NEW k \in S
    PROVE  /\ IsFiniteSet(Below(R, S, k))
           /\ Position(R, S, k) \in 1..Cardinality(S)
           /\ \A l \in S : <<k, l>> \in R => Position(R, S, k) < Position(R, S, l)
<1> DEFINE B == Below(R, S, k)
<1>1. /\ IsFiniteSet(S \ {k}) /\ Cardinality(S \ {k}) = Cardinality(S) - 1
      /\ Cardinality(S) \in Nat
  BY FS_RemoveElement, FS_CardinalityType
<1>2. B \subseteq S \ {k}
  BY DEF Below, Linear
<1>3. IsFiniteSet(B) /\ Cardinality(B) <= Cardinality(S) - 1 /\ Cardinality(B) \in Nat
  BY <1>1, <1>2, FS_Subset, FS_CardinalityType
<1>4. ASSUME NEW l \in S, <<k, l>> \in R
      PROVE  Position(R, S, k) < Position(R, S, l)
  <2> DEFINE C == Below(R, S, l)
  <2>1. IsFiniteSet(C) /\ Cardinality(C) \in Nat
    <3>1. C \subseteq S
      BY DEF Below
    <3> QED BY <3>1, FS_Subset, FS_CardinalityType
  <2>2. k \notin B /\ B \cup {k} \subseteq C
    BY <1>2, <1>4 DEF Below, Linear
  <2>3. Cardinality(B \cup {k}) = Cardinality(B) + 1
    BY <1>3, <2>2, FS_AddElement
  <2>4. Cardinality(B \cup {k}) <= Cardinality(C)
    BY <2>1, <2>2, FS_Subset
  <2> HIDE DEF C, B
  <2>5. Cardinality(B) < Cardinality(C)
    BY <1>3, <2>1, <2>3, <2>4
  <2> QED BY <1>3, <2>1, <2>5 DEF Position, B, C
<1>5. Position(R, S, k) \in 1..Cardinality(S)
  <2> HIDE DEF B
  <2> QED BY <1>1, <1>3 DEF Position, B
<1> QED BY <1>3, <1>4, <1>5

\* A finite set can be enumerated in any linear order.
LEMMA Enumerable ==
    ASSUME NEW R, NEW S, IsFiniteSet(S), Linear(R, S)
    PROVE  \E s \in [1..Cardinality(S) -> S] : Ordered(R, s)
<1> DEFINE n == Cardinality(S)
           f == [k \in S |-> Position(R, S, k)]
<1>0. n \in Nat
  BY FS_CardinalityType
<1>1. f \in [S -> 1..n]
  BY PositionBelow
<1>2. \A k \in S : f[k] \in Int /\ \A l \in S : <<k, l>> \in R => f[k] < f[l]
  BY <1>0, <1>1, PositionBelow
<1> HIDE DEF f
<1>3. \A k, l \in S : f[k] = f[l] => k = l
  <2> SUFFICES ASSUME NEW k \in S, NEW l \in S, k # l PROVE f[k] # f[l]
    OBVIOUS
  <2>1. <<k, l>> \in R \/ <<l, k>> \in R
    BY DEF Linear
  <2>2. f[k] < f[l] \/ f[l] < f[k]
    BY <1>2, <2>1
  <2> QED BY <1>2, <2>2
<1>4. f \in Injection(S, 1..n)
  BY <1>1, <1>3 DEF Injection, IsInjective
<1>5. IsFiniteSet(1..n) /\ Cardinality(1..n) = n
  BY <1>0, FS_Interval
<1>6. f \in Surjection(S, 1..n)
  BY <1>4, <1>5, FS_Injection
<1>7. \A i \in 1..n : \E k \in S : f[k] = i
  BY <1>6 DEF Surjection
<1> DEFINE s == [i \in 1..n |-> CHOOSE k \in S : f[k] = i]
<1>8. \A i \in 1..n : s[i] \in S /\ f[s[i]] = i
  BY <1>7
<1>9. s \in [1..n -> S] /\ DOMAIN s = 1..n
  BY <1>8
<1> HIDE DEF s, n
<1>10. ASSUME NEW i \in DOMAIN s, NEW j \in DOMAIN s, i < j
       PROVE  <<s[i], s[j]>> \in R
  <2>1. s[i] \in S /\ s[j] \in S /\ f[s[i]] = i /\ f[s[j]] = j /\ i \in Int /\ j \in Int
    BY <1>0, <1>8, <1>9
  <2>2. s[i] # s[j] /\ ~(<<s[j], s[i]>> \in R)
    BY <1>2, <1>10, <2>1
  <2> QED BY <2>1, <2>2 DEF Linear
<1> QED BY <1>9, <1>10 DEF n, Ordered

\* An enumeration in a linear order has every element.
LEMMA EnumeratesAll ==
    ASSUME NEW R, NEW S, IsFiniteSet(S), Linear(R, S), NEW s \in [1..Cardinality(S) -> S],
           Ordered(R, s)
    PROVE  s \in Seq(S) /\ Len(s) = Cardinality(S) /\ {s[i] : i \in DOMAIN s} = S
<1> DEFINE n == Cardinality(S)
<1>1. n \in Nat
  BY FS_CardinalityType
<1>2. IsFiniteSet(1..n) /\ Cardinality(1..n) = n
  BY <1>1, FS_Interval
<1> HIDE DEF n
<1>3. DOMAIN s = 1..n /\ \A i \in 1..n : s[i] \in S
  BY DEF n
<1>4. \A i, j \in 1..n : s[i] = s[j] => i = j
  <2> SUFFICES ASSUME NEW i \in 1..n, NEW j \in 1..n, s[i] = s[j], i # j PROVE FALSE
    OBVIOUS
  <2>1. i < j \/ j < i
    BY <1>1
  <2>2. <<s[i], s[j]>> \in R \/ <<s[j], s[i]>> \in R
    BY <1>3, <2>1 DEF Ordered
  <2> QED BY <1>3, <2>2 DEF Linear
<1>5. s \in Injection(1..n, S)
  BY <1>3, <1>4 DEF Injection, IsInjective, n
<1>6. s \in Surjection(1..n, S)
  BY <1>2, <1>5, FS_Injection DEF n
<1>7. {s[i] : i \in DOMAIN s} = S
  BY <1>3, <1>6 DEF Surjection
<1>8. s \in Seq(S) /\ Len(s) = n
  <2>1. s \in [1..n -> S]
    BY DEF n
  <2> QED BY <1>1, <2>1
<1> QED BY <1>7, <1>8, Zenon DEF n

LEMMA SetsCardinality == \A S : Sets!Cardinality(S) = Cardinality(S)
BY DEF Sets!Cardinality, Cardinality

RowOrders == {"-pk", "near", "none"}
OrderOf(o) == {p \in Int \X Int : Sets!Before(o, p[1], p[2])}

LEMMA OrdersLinear ==
    ASSUME NEW o \in RowOrders
    PROVE  Linear(OrderOf(o), Int)
<1> DEFINE R == OrderOf(o)
<1>1. \A k, l \in Int : <<k, l>> \in R <=> Sets!Before(o, k, l)
  BY DEF OrderOf
<1> HIDE DEF R
<1>2. CASE o = "near"
  <2>1. \A k, l \in Int : <<k, l>> \in R <=>
            \/ Sets!Near(k) /\ ~Sets!Near(l)
            \/ (Sets!Near(k) = Sets!Near(l)) /\ k < l
    BY <1>1, <1>2 DEF Sets!Before
  <2>2. \A k \in Int : Sets!Near(k) \in BOOLEAN
    BY DEF Sets!Near
  <2>3. \A k \in Int : <<k, k>> \notin R
    BY <2>1
  <2>4. \A k, l \in Int : k # l => <<k, l>> \in R \/ <<l, k>> \in R
    BY <2>1, <2>2
  <2>5. \A k, l, m \in Int : <<k, l>> \in R /\ <<l, m>> \in R => <<k, m>> \in R
    BY <2>1, <2>2
  <2> QED BY <2>3, <2>4, <2>5 DEF Linear, R
<1>3. CASE o = "-pk"
  <2>1. \A k, l \in Int : <<k, l>> \in R <=> k > l
    BY <1>1, <1>3 DEF Sets!Before
  <2>2. \A k \in Int : <<k, k>> \notin R
    BY <2>1
  <2>3. \A k, l \in Int : k # l => <<k, l>> \in R \/ <<l, k>> \in R
    BY <2>1
  <2>4. \A k, l, m \in Int : <<k, l>> \in R /\ <<l, m>> \in R => <<k, m>> \in R
    BY <2>1
  <2> QED BY <2>2, <2>3, <2>4 DEF Linear, R
<1>4. CASE o = "none"
  <2>1. \A k, l \in Int : <<k, l>> \in R <=> k < l
    BY <1>1, <1>4 DEF Sets!Before
  <2>2. \A k \in Int : <<k, k>> \notin R
    BY <2>1
  <2>3. \A k, l \in Int : k # l => <<k, l>> \in R \/ <<l, k>> \in R
    BY <2>1
  <2>4. \A k, l, m \in Int : <<k, l>> \in R /\ <<l, m>> \in R => <<k, m>> \in R
    BY <2>1
  <2> QED BY <2>2, <2>3, <2>4 DEF Linear, R
<1> QED BY <1>2, <1>3, <1>4 DEF RowOrders

\* The rows of the table
RowsOK ==
    /\ rows \in [DOMAIN rows -> {"red", "blue"}] /\ DOMAIN rows \subseteq DOMAIN Table

\* The statement's rows are those that satisfy the filters, each once.
LEMMA SortedIs ==
    ASSUME RowsOK, NEW q, Sets!StatementOrder(q) \in RowOrders
    PROVE  /\ Sets!Sorted(q) \in Seq(Sets!Where(q))
           /\ Len(Sets!Sorted(q)) = Cardinality(Sets!Where(q))
           /\ {Sets!Sorted(q)[i] : i \in DOMAIN Sets!Sorted(q)} = Sets!Where(q)
           /\ IsFiniteSet(Sets!Where(q))
<1> DEFINE S == Sets!Where(q)
           o == Sets!StatementOrder(q)
           R == OrderOf(o)
<1>1. S \subseteq DOMAIN Table
  BY DEF RowsOK, Sets!Where
<1>2. IsFiniteSet(S) /\ S \subseteq Int
  BY <1>1, FS_Subset, SetsAssumption
<1>3. Linear(R, S)
  BY <1>2, OrdersLinear DEF Linear
<1>4. \A k, l \in S : <<k, l>> \in R <=> Sets!Before(o, k, l)
  BY <1>2 DEF OrderOf
<1>5. Sets!Cardinality(S) = Cardinality(S)
  BY SetsCardinality
<1> DEFINE s == Sets!InOrder(S, o)
           Good(t) == \A i, j \in DOMAIN t : i < j => Sets!Before(o, t[i], t[j])
<1> HIDE DEF R
<1>6. \A t \in [1..Cardinality(S) -> S] : Good(t) <=> Ordered(R, t)
  <2> HIDE DEF S, o
  <2> SUFFICES ASSUME NEW t \in [1..Cardinality(S) -> S]
               PROVE  Good(t) <=> Ordered(R, t)
    OBVIOUS
  <2>1. \A i \in DOMAIN t : t[i] \in S
    OBVIOUS
  <2>2. \A i, j \in DOMAIN t : <<t[i], t[j]>> \in R <=> Sets!Before(o, t[i], t[j])
    BY <1>4, <2>1
  <2> QED BY <2>2 DEF Ordered
<1>7. \E t \in [1..Cardinality(S) -> S] : Good(t)
  <2> HIDE DEF S, o
  <2>1. \E t \in [1..Cardinality(S) -> S] : Ordered(R, t)
    BY <1>2, <1>3, Enumerable
  <2> HIDE DEF Good
  <2> QED BY <1>6, <2>1
<1> HIDE DEF S, o
<1>8. s \in [1..Cardinality(S) -> S] /\ Good(s)
  <2>1. s = CHOOSE t \in [1..Cardinality(S) -> S] : Good(t)
    BY <1>5 DEF Sets!InOrder
  <2> HIDE DEF s, Good
  <2> QED BY ONLY <1>7, <2>1
<1> HIDE DEF s, Good
<1>9. Ordered(R, s)
  BY <1>6, <1>8
<1>10. s \in [1..Cardinality(S) -> S]
  BY <1>8
<1>11. /\ s \in Seq(S) /\ Len(s) = Cardinality(S)
       /\ {s[i] : i \in DOMAIN s} = S
  BY <1>2, <1>3, <1>9, <1>10, EnumeratesAll
<1>12. Sets!Sorted(q) = s
  BY DEF s, S, o, Sets!Sorted
<1> QED BY <1>2, <1>11, <1>12, Zenon DEF S

\* How many rows of n a slice has
Many(n, from, k) ==
    LET m == IF k = Sets!NoLimit \/ from + k > n THEN n ELSE from + k
    IN  IF m >= from THEN m - from ELSE 0

LEMMA CutIs ==
    ASSUME NEW S, NEW s \in Seq(S), NEW from \in Nat, NEW k \in Nat \cup {Sets!NoLimit}
    PROVE  /\ Sets!Cut(s, from, k) \in Seq(S)
           /\ Len(Sets!Cut(s, from, k)) = Many(Len(s), from, k)
           /\ \A i \in 1..Len(Sets!Cut(s, from, k)) : Sets!Cut(s, from, k)[i] = s[from + i]
           /\ Many(Len(s), from, k) \in Nat
           /\ from + Many(Len(s), from, k) <= Len(s) \/ Many(Len(s), from, k) = 0
<1> DEFINE m == IF k = Sets!NoLimit \/ from + k > Len(s) THEN Len(s) ELSE from + k
           c == Sets!Cut(s, from, k)
<1>1. m \in Nat /\ m <= Len(s) /\ Len(s) \in Nat
  BY DEF Sets!NoLimit
<1>2. c = SubSeq(s, from + 1, m)
  BY DEF Sets!Cut
<1>3. Many(Len(s), from, k) = IF m >= from THEN m - from ELSE 0
  BY DEF Many
<1> HIDE DEF m, c
<1>4. CASE m >= from
  <2>1. Len(c) = m - from /\ c \in Seq(S) /\ \A i \in 1..Len(c) : c[i] = s[from + i]
    BY <1>1, <1>2, <1>4
  <2> QED BY <1>1, <1>3, <1>4, <2>1 DEF c
<1>5. CASE m < from
  <2>1. c = << >>
    BY <1>1, <1>2, <1>5
  <2> QED BY <1>1, <1>3, <1>5, <2>1 DEF c
<1> QED BY <1>1, <1>4, <1>5

-----------------------------------------------------------------------------
(* Querysets                                                               *)

Kinds  == {"select", "values", "values_list", "count", "exists", "delete", "update"}
Limits == Bounds \cup {Sets!NoLimit, 1, 2, Sets!Huge} \cup {b - a : a, b \in Bounds}

\* Only get() and first() make a query single, and only get() one that raises; only
\* what update() returns keeps its parameters.
Shape(q) ==
    /\ DOMAIN q = DOMAIN Sets!QuerySet
    /\ q.kind \in Kinds /\ q.order \in Sets!Orders \cup {"none"}
    /\ q.limit \in Limits /\ q.limit \in Nat \cup {Sets!NoLimit}
    /\ q.offset \in Bounds \cup {0}
    /\ q.single \in BOOLEAN /\ (q.single => q.limit \in {1, 2})
    /\ q.raises \in BOOLEAN /\ (q.raises => q.single /\ q.limit = 2)
    /\ q.params \in Nat /\ (q.kind # "update" => q.params = 0)

\* What a query has of the queryset it is made from
OfBase(q, b) ==
    /\ b.kind = "select" /\ q.filters = b.filters /\ q.notes = b.notes
    /\ q.single = b.single /\ q.raises = b.raises
    /\ q.kind \in {"select", "values", "values_list"} =>
         q.order = b.order /\ q.limit = b.limit /\ q.offset = b.offset
    /\ q.kind = "count" => q.limit = b.limit /\ q.offset = b.offset
    /\ q.kind \in {"count", "exists"} => ~b.single
    /\ q.kind \in {"delete", "update"} =>
         q.order = b.order /\ q.limit = b.limit /\ q.offset = 0

IsQuery(q, there) == Shape(q) /\ q.filters \in there /\ q.notes \in there

Based(qs, i) ==
    /\ qs[i].from \in 1..i /\ OfBase(qs[i], qs[qs[i].from])
    /\ qs[i].kind = "select" => qs[i].from = i

SetsInv ==
    /\ RowsOK
    /\ \E S : lists \in Seq(S)
    /\ \E S : queries \in Seq(S)
    /\ \A i \in DOMAIN queries : IsQuery(queries[i], DOMAIN lists)
    /\ \A i \in DOMAIN queries : Based(queries, i)

\* The lists that there are stay as they are, and the queries refer to the same ones.
ContentsStay ==
    /\ \A l \in DOMAIN lists : l \in DOMAIN lists' /\ lists'[l] = lists[l]
    /\ \A i \in DOMAIN queries :
        /\ i \in DOMAIN queries' /\ DOMAIN queries'[i] = DOMAIN queries[i]
        /\ \A f \in DOMAIN queries[i] \ {"joined", "params"} : queries'[i][f] = queries[i][f]

SetsKept == SetsInv' /\ ContentsStay

\* What the invariants are about does not depend on joined and params.
LEMMA SameBase ==
    ASSUME NEW q, NEW b, NEW r, NEW c,
           DOMAIN q = DOMAIN Sets!QuerySet, DOMAIN b = DOMAIN Sets!QuerySet,
           \A f \in DOMAIN q \ {"joined", "params"} : r[f] = q[f],
           \A f \in DOMAIN b \ {"joined", "params"} : c[f] = b[f]
    PROVE  /\ OfBase(r, c) <=> OfBase(q, b)
           /\ r.from = q.from /\ r.kind = q.kind
<1>1. /\ r.kind = q.kind /\ r.from = q.from /\ r.filters = q.filters /\ r.notes = q.notes
      /\ r.order = q.order /\ r.limit = q.limit /\ r.offset = q.offset
      /\ r.single = q.single /\ r.raises = q.raises
  BY DEF Sets!QuerySet
<1>2. /\ c.kind = b.kind /\ c.filters = b.filters /\ c.notes = b.notes
      /\ c.order = b.order /\ c.limit = b.limit /\ c.offset = b.offset
      /\ c.single = b.single /\ c.raises = b.raises
  BY DEF Sets!QuerySet
<1> QED BY <1>1, <1>2 DEF OfBase

LEMMA AppendKeeps ==
    ASSUME SetsInv, NEW c, IsQuery(c, DOMAIN lists'), queries' = Append(queries, c),
           UNCHANGED rows,
           \E S : lists' \in Seq(S),
           \A l \in DOMAIN lists : l \in DOMAIN lists' /\ lists'[l] = lists[l],
           \/ c.from = Len(queries) + 1 /\ OfBase(c, c)
           \/ c.from \in DOMAIN queries /\ c.kind # "select" /\ OfBase(c, queries[c.from])
    PROVE  SetsKept
<1>1. PICK T : queries \in Seq(T)
  BY DEF SetsInv
<1>2. /\ queries' \in Seq(T \cup {c}) /\ Len(queries') = Len(queries) + 1
      /\ queries'[Len(queries) + 1] = c /\ Len(queries) \in Nat
      /\ \A i \in DOMAIN queries : i \in DOMAIN queries' /\ queries'[i] = queries[i]
      /\ DOMAIN queries = 1..Len(queries) /\ DOMAIN queries' = 1..(Len(queries) + 1)
  BY <1>1
<1>3. ASSUME NEW i \in DOMAIN queries'
      PROVE  IsQuery(queries'[i], DOMAIN lists') /\ Based(queries', i)
  <2>1. CASE i \in DOMAIN queries
    <3>1. IsQuery(queries[i], DOMAIN lists) /\ Based(queries, i) /\ queries'[i] = queries[i]
      BY <1>2, <2>1 DEF SetsInv
    <3>2. queries[i].from \in DOMAIN queries
      BY <1>2, <2>1, <3>1 DEF Based
    <3>3. queries'[queries[i].from] = queries[queries[i].from]
      BY <1>2, <3>2
    <3> QED BY <3>1, <3>3 DEF IsQuery, Based
  <2>2. CASE i = Len(queries) + 1
    <3>1. queries'[i] = c
      BY <1>2, <2>2
    <3>2. CASE c.from = Len(queries) + 1 /\ OfBase(c, c)
      BY <1>2, <2>2, <3>1, <3>2 DEF Based
    <3>3. CASE c.from \in DOMAIN queries /\ c.kind # "select" /\ OfBase(c, queries[c.from])
      <4>1. queries'[c.from] = queries[c.from] /\ c.from \in 1..i
        BY <1>2, <2>2, <3>3
      <4> QED BY <3>1, <3>3, <4>1 DEF Based
    <3> QED BY <3>1, <3>2, <3>3
  <2> QED BY <1>2, <2>1, <2>2
<1>4. SetsInv'
  <2>1. RowsOK'
    BY DEF SetsInv, RowsOK
  <2> QED BY <1>2, <1>3, <2>1 DEF SetsInv
<1> QED BY <1>2, <1>4 DEF SetsKept, ContentsStay

LEMMA CloneKeeps ==
    ASSUME SetsInv, NEW q, Shape(q), q.kind = "select", NEW filters, NEW notes,
           Sets!_clone(q, filters, notes)
    PROVE  SetsKept
<1> DEFINE a == lists[q.filters] \o filters
           b == lists[q.notes] \o notes
           c == [q EXCEPT !.from = Len(queries) + 1,
                          !.filters = Len(lists) + 1, !.notes = Len(lists) + 2]
<1>1. lists' = lists \o <<a, b>> /\ queries' = Append(queries, c) /\ UNCHANGED rows
  BY DEF Sets!_clone
<1>2. PICK S : lists \in Seq(S)
  BY DEF SetsInv
<1>3. /\ lists' \in Seq(S \cup {a, b}) /\ Len(lists') = Len(lists) + 2
      /\ \A l \in DOMAIN lists : l \in DOMAIN lists' /\ lists'[l] = lists[l]
      /\ Len(lists) + 1 \in DOMAIN lists' /\ Len(lists) + 2 \in DOMAIN lists'
  <2> HIDE DEF a, b
  <2> QED BY <1>1, <1>2
<1>4. /\ DOMAIN c = DOMAIN Sets!QuerySet /\ c.from = Len(queries) + 1
      /\ c.filters = Len(lists) + 1 /\ c.notes = Len(lists) + 2
      /\ c.kind = q.kind /\ c.order = q.order /\ c.limit = q.limit /\ c.offset = q.offset
      /\ c.single = q.single /\ c.raises = q.raises /\ c.params = q.params
  BY DEF Shape, Sets!QuerySet
<1> HIDE DEF a, b, c
<1>5. IsQuery(c, DOMAIN lists')
  BY <1>3, <1>4 DEF IsQuery, Shape
<1>6. OfBase(c, c)
  BY <1>4 DEF OfBase, Shape
<1> QED BY <1>1, <1>3, <1>4, <1>5, <1>6, AppendKeeps

LEMMA DeriveKeeps ==
    ASSUME SetsInv, NEW q, IsQuery(q, DOMAIN lists), q.kind # "select",
           q.from \in DOMAIN queries, OfBase(q, queries[q.from]), Sets!Derive(q)
    PROVE  SetsKept
<1> DEFINE c == [q EXCEPT !.joined = {}]
           b == queries[q.from]
<1>1. UNCHANGED <<lists, rows>> /\ queries' = Append(queries, c)
  BY DEF Sets!Derive
<1>2. /\ DOMAIN c = DOMAIN Sets!QuerySet /\ c.filters = q.filters /\ c.notes = q.notes
      /\ c.kind = q.kind /\ c.order = q.order /\ c.limit = q.limit /\ c.offset = q.offset
      /\ c.single = q.single /\ c.raises = q.raises /\ c.params = q.params /\ c.from = q.from
  BY DEF IsQuery, Shape, Sets!QuerySet
<1> HIDE DEF c
<1>3. IsQuery(c, DOMAIN lists')
  BY <1>1, <1>2 DEF IsQuery, Shape
<1>4. OfBase(c, b)
  BY <1>2 DEF OfBase
<1>5. /\ \E S : lists' \in Seq(S)
      /\ \A l \in DOMAIN lists : l \in DOMAIN lists' /\ lists'[l] = lists[l]
  BY <1>1 DEF SetsInv
<1> QED BY <1>1, <1>2, <1>3, <1>4, <1>5, AppendKeeps

LEMMA BuildKeeps ==
    ASSUME SetsInv, NEW i \in DOMAIN queries, UNCHANGED lists, RowsOK',
           queries' = [queries EXCEPT ![i] = Sets!_make_query(@)]
    PROVE  SetsKept
<1> DEFINE q == queries[i]
           c == Sets!_make_query(q)
<1>0. IsQuery(q, DOMAIN lists)
  BY DEF SetsInv
<1>1. PICK T : queries \in Seq(T)
  BY DEF SetsInv
<1>2. /\ DOMAIN c = DOMAIN q
      /\ \A f \in DOMAIN q \ {"joined", "params"} : c[f] = q[f]
      /\ c.params = IF q.kind = "update" /\ q.params < 2 THEN q.params + 1 ELSE q.params
  <2> HIDE DEF q
  <2> QED BY <1>0 DEF IsQuery, Shape, Sets!QuerySet, Sets!_make_query
<1> HIDE DEF c, q
<1>3. /\ c.kind = q.kind /\ c.filters = q.filters /\ c.notes = q.notes /\ c.order = q.order
      /\ c.limit = q.limit /\ c.offset = q.offset /\ c.single = q.single /\ c.raises = q.raises
  BY <1>0, <1>2 DEF IsQuery, Shape, Sets!QuerySet
<1>4. IsQuery(c, DOMAIN lists)
  <2>1. c.params \in Nat /\ (c.kind # "update" => c.params = 0)
    BY <1>0, <1>2, <1>3 DEF IsQuery, Shape
  <2> QED BY <1>0, <1>2, <1>3, <2>1 DEF IsQuery, Shape
<1>5. /\ queries' \in Seq(T \cup {c}) /\ DOMAIN queries' = DOMAIN queries
      /\ \A j \in DOMAIN queries : queries'[j] = IF j = i THEN c ELSE queries[j]
  <2>1. queries' = [queries EXCEPT ![i] = c]
    BY DEF c, q
  <2> QED BY <1>1, <2>1
<1>6. \A j \in DOMAIN queries :
        /\ DOMAIN queries[j] = DOMAIN Sets!QuerySet
        /\ DOMAIN queries'[j] = DOMAIN queries[j]
        /\ \A f \in DOMAIN queries[j] \ {"joined", "params"} : queries'[j][f] = queries[j][f]
  BY <1>2, <1>5 DEF SetsInv, IsQuery, Shape, q
<1>7. ASSUME NEW j \in DOMAIN queries'
      PROVE  IsQuery(queries'[j], DOMAIN lists') /\ Based(queries', j)
  <2>1. IsQuery(queries'[j], DOMAIN lists')
    BY <1>4, <1>5 DEF SetsInv
  <2>2. Based(queries, j) /\ queries[j].from \in DOMAIN queries
    <3>1. Based(queries, j) /\ j \in 1..Len(queries)
      BY <1>1, <1>5 DEF SetsInv
    <3> QED BY <1>1, <3>1 DEF Based
  <2>3. /\ OfBase(queries'[j], queries'[queries[j].from])
             <=> OfBase(queries[j], queries[queries[j].from])
        /\ queries'[j].from = queries[j].from /\ queries'[j].kind = queries[j].kind
    <3> DEFINE x == queries[j]
               b == queries[x.from]
               y == queries'[j]
               d == queries'[x.from]
    <3>1. /\ DOMAIN x = DOMAIN Sets!QuerySet /\ DOMAIN b = DOMAIN Sets!QuerySet
          /\ \A f \in DOMAIN x \ {"joined", "params"} : y[f] = x[f]
          /\ \A f \in DOMAIN b \ {"joined", "params"} : d[f] = b[f]
      BY <1>5, <1>6, <2>2
    <3> HIDE DEF x, b, y, d
    <3>2. /\ OfBase(y, d) <=> OfBase(x, b)
          /\ y.from = x.from /\ y.kind = x.kind
      BY <3>1, SameBase
    <3> QED BY <3>2 DEF x, b, y, d
  <2> QED BY <2>1, <2>2, <2>3 DEF Based
<1>8. SetsInv'
  BY <1>5, <1>7 DEF SetsInv
<1> QED BY <1>5, <1>6, <1>8 DEF SetsKept, ContentsStay

LEMMA QueryOf ==
    ASSUME SetsInv, NEW i \in DOMAIN queries
    PROVE  IsQuery(queries[i], DOMAIN lists)
BY DEF SetsInv

LEMMA SetsInit == Sets!Init => SetsInv
<1> SUFFICES ASSUME Sets!Init PROVE SetsInv
  OBVIOUS
<1> DEFINE q == Sets!QuerySet
<1>1. lists = << <<>>, <<>> >> /\ queries = <<q>> /\ rows = Table
  BY DEF Sets!Init
<1>2. lists \in Seq({<<>>}) /\ DOMAIN lists = {1, 2}
  BY <1>1
<1>3. RowsOK
  BY <1>1, SetsAssumption DEF RowsOK
<1>4. /\ q.filters = 1 /\ q.notes = 2 /\ q.from = 1 /\ q.kind = "select" /\ q.order = "default"
      /\ q.limit = Sets!NoLimit /\ q.offset = 0 /\ q.single = FALSE /\ q.raises = FALSE
      /\ q.params = 0
  BY DEF Sets!QuerySet
<1> HIDE DEF q
<1>5. IsQuery(q, DOMAIN lists)
  <2>1. q.kind \in Kinds /\ q.order \in Sets!Orders \cup {"none"}
    BY <1>4 DEF Kinds, Sets!Orders
  <2>2. q.limit \in Limits /\ q.limit \in Nat \cup {Sets!NoLimit}
    BY <1>4 DEF Limits
  <2>3. DOMAIN q = DOMAIN Sets!QuerySet
    BY DEF q
  <2>4. q.filters \in DOMAIN lists /\ q.notes \in DOMAIN lists
    BY <1>2, <1>4
  <2>5. q.params \in Nat /\ q.offset \in Bounds \cup {0} /\ q.params = 0
    BY <1>4
  <2>6. q.single \in BOOLEAN /\ q.raises \in BOOLEAN /\ ~q.single /\ ~q.raises
    BY <1>4
  <2> QED BY <2>1, <2>2, <2>3, <2>4, <2>5, <2>6 DEF IsQuery, Shape
<1>6. OfBase(q, q)
  BY <1>4 DEF OfBase
<1>7. queries \in Seq({q}) /\ \A i \in DOMAIN queries : i = 1 /\ queries[i] = q
  BY <1>1
<1>8. \A i \in DOMAIN queries : Based(queries, i)
  BY <1>4, <1>6, <1>7 DEF Based
<1> QED BY <1>2, <1>3, <1>5, <1>7, <1>8 DEF SetsInv

\* The rows that a write leaves are rows of the table.
LEMMA RowsStep ==
    ASSUME RowsOK, NEW i, Sets!Await(i)
    PROVE  RowsOK'
<1>1. CASE rows' = rows
  BY <1>1 DEF RowsOK
<1>2. CASE rows' = Sets!DeleteQuery(queries[i])
  <2> DEFINE D == DOMAIN rows \ Sets!Written(queries[i])
  <2>1. rows' = [k \in D |-> rows[k]] /\ D \subseteq DOMAIN rows
    BY <1>2 DEF Sets!DeleteQuery
  <2> HIDE DEF D
  <2> QED BY <2>1 DEF RowsOK
<1>3. CASE rows' = Sets!UpdateQuery(queries[i])
  <2> DEFINE W == Sets!Written(queries[i])
  <2>1. rows' = [k \in DOMAIN rows |-> IF k \in W THEN "red" ELSE rows[k]]
    BY <1>3 DEF Sets!UpdateQuery
  <2> HIDE DEF W
  <2> QED BY <2>1 DEF RowsOK
<1> QED BY <1>1, <1>2, <1>3 DEF Sets!Await

LEMMA SetsStep ==
    ASSUME SetsInv, Sets!Next
    PROVE  SetsKept
<1>1. PICK i \in DOMAIN queries :
        \/ \E f \in Sets!Filters : \/ Sets!filter(i, f) \/ Sets!exclude(i, f)
                                   \/ Sets!get(i, f) \/ Sets!get_or_none(i, f)
        \/ \E o \in Sets!Orders : Sets!order_by(i, o)
        \/ \E n \in Bounds : Sets!limit(i, n) \/ Sets!offset(i, n)
        \/ \E a \in Bounds, b \in Bounds \cup {Sets!NoLimit} : Sets!__getitem__(i, a, b)
        \/ \E f \in Sets!Flags \cap Methods : Sets!SetFlag(i, f)
        \/ Sets!annotate(i, "n") \/ Sets!all(i) \/ Sets!first(i)
        \/ Sets!select_related(i, "other") \/ Sets!force_index(i, "index")
        \/ Sets!values(i) \/ Sets!values_list(i) \/ Sets!count(i) \/ Sets!exists(i)
        \/ Sets!delete(i) \/ Sets!update(i)
        \/ Sets!Build(i) \/ Sets!Await(i)
  BY DEF Sets!Next, Sets!Method
<1> DEFINE q == queries[i]
<1>2. IsQuery(q, DOMAIN lists)
  BY QueryOf
<1>3. OfBase(q, queries[q.from]) /\ q.from \in DOMAIN queries
      /\ (q.kind = "select" => OfBase(q, q))
  <2>1. Based(queries, i) /\ i \in 1..Len(queries) /\ DOMAIN queries = 1..Len(queries)
    BY DEF SetsInv
  <2> QED BY <2>1 DEF Based
<1>4. Sets!IsQuerySet(i) <=> q.kind = "select"
  BY DEF Sets!IsQuerySet
<1>5. Sets!Plain(i) <=> q.kind = "select" /\ ~q.single
  BY DEF Sets!Plain, Sets!IsQuerySet
<1>6. Bounds \subseteq Nat
  BY SetsAssumption
<1> HIDE DEF q
<1>7. Shape(q) /\ DOMAIN q = DOMAIN Sets!QuerySet
  BY <1>2 DEF IsQuery, Shape
<1> DEFINE Slice(c) == /\ DOMAIN c = DOMAIN q /\ c.kind = q.kind /\ c.single = q.single
                       /\ c.raises = q.raises /\ c.params = q.params
<1>8. ASSUME NEW c, Slice(c), q.kind = "select", ~q.single,
             c.order \in Sets!Orders \cup {"none"}, c.offset \in Bounds \cup {0},
             c.limit \in Limits, c.limit \in Nat \cup {Sets!NoLimit}
      PROVE  Shape(c)
  BY <1>7, <1>8 DEF Shape
<1>9. ASSUME NEW f, \/ Sets!filter(i, f) \/ Sets!exclude(i, f)
      PROVE  SetsKept
  <2>1. /\ \E negate \in BOOLEAN : Sets!_clone(q, <<<<f, negate>>>>, <<>>)
        /\ q.kind = "select"
    BY <1>5, <1>9 DEF Sets!filter, Sets!exclude, Sets!_filter_or_exclude, q
  <2> QED BY <1>7, <2>1, CloneKeeps
<1>10. ASSUME NEW f, \/ Sets!get(i, f) \/ Sets!get_or_none(i, f)
       PROVE  SetsKept
  <2>1. PICK raises \in BOOLEAN :
              /\ Sets!_clone([q EXCEPT !.limit = 2, !.single = TRUE, !.raises = raises],
                             <<<<f, FALSE>>>>, <<>>)
              /\ q.kind = "select"
    BY <1>5, <1>10 DEF Sets!get, Sets!get_or_none, Sets!Get, q
  <2> DEFINE c == [q EXCEPT !.limit = 2, !.single = TRUE, !.raises = raises]
  <2>2. /\ DOMAIN c = DOMAIN q /\ c.kind = q.kind /\ c.order = q.order /\ c.limit = 2
        /\ c.offset = q.offset /\ c.single = TRUE /\ c.raises = raises /\ c.params = q.params
    BY <1>7 DEF Sets!QuerySet
  <2>3. 2 \in Limits
    BY DEF Limits
  <2> HIDE DEF c
  <2>4. Shape(c)
    <3>1. c.single \in BOOLEAN /\ c.single /\ c.raises \in BOOLEAN
      BY <2>2
    <3>2. c.limit \in {1, 2} /\ c.limit \in Nat /\ c.limit \in Limits
      BY <2>2, <2>3
    <3> QED BY <1>7, <2>2, <3>1, <3>2 DEF Shape
  <2> QED BY <2>1, <2>2, <2>4, CloneKeeps DEF c
<1>11. ASSUME NEW o \in Sets!Orders, Sets!order_by(i, o)
       PROVE  SetsKept
  <2> DEFINE c == [q EXCEPT !.order = o]
  <2>1. Sets!_clone(c, <<>>, <<>>) /\ q.kind = "select" /\ ~q.single
    BY <1>5, <1>11 DEF Sets!order_by, Sets!Copy, q
  <2>2. Slice(c) /\ c.order = o /\ c.limit = q.limit /\ c.offset = q.offset
    BY <1>7 DEF Sets!QuerySet
  <2> HIDE DEF c
  <2>3. Shape(c)
    BY <1>7, <1>8, <2>1, <2>2 DEF Shape
  <2> QED BY <2>1, <2>2, <2>3, CloneKeeps
<1>12. ASSUME NEW n \in Bounds, Sets!limit(i, n)
       PROVE  SetsKept
  <2> DEFINE c == [q EXCEPT !.limit = n]
  <2>1. Sets!_clone(c, <<>>, <<>>) /\ q.kind = "select" /\ ~q.single
    BY <1>5, <1>12 DEF Sets!limit, Sets!Copy, q
  <2>2. Slice(c) /\ c.order = q.order /\ c.limit = n /\ c.offset = q.offset
    BY <1>7 DEF Sets!QuerySet
  <2> HIDE DEF c
  <2>3. c.limit \in Limits /\ c.limit \in Nat
    BY <1>6, <2>2 DEF Limits
  <2>4. Shape(c)
    BY <1>7, <1>8, <2>1, <2>2, <2>3 DEF Shape
  <2> QED BY <2>1, <2>2, <2>4, CloneKeeps
<1> DEFINE o(n) == Sets!Offset(q, n)
<1>13. ASSUME NEW n
       PROVE  /\ Slice(o(n)) /\ o(n).order = q.order /\ o(n).offset = n
              /\ o(n).limit \in {q.limit, Sets!Huge}
  BY <1>7 DEF Sets!Offset, Sets!QuerySet
<1>14. ASSUME NEW n, o(n).limit \in {q.limit, Sets!Huge}
       PROVE  o(n).limit \in Limits /\ o(n).limit \in Nat \cup {Sets!NoLimit}
  <2> HIDE DEF o
  <2>1. Sets!Huge \in Limits /\ Sets!Huge \in Nat
    BY DEF Limits, Sets!Huge
  <2> QED BY <1>7, <1>14, <2>1 DEF Shape
<1> HIDE DEF o
<1>15. ASSUME NEW n \in Bounds, Sets!offset(i, n)
       PROVE  SetsKept
  <2>1. Sets!_clone(o(n), <<>>, <<>>) /\ q.kind = "select" /\ ~q.single
    BY <1>5, <1>15 DEF Sets!offset, Sets!Copy, q, o
  <2>2. Shape(o(n))
    BY <1>7, <1>8, <1>13, <1>14, <2>1 DEF Shape
  <2> QED BY <1>13, <2>1, <2>2, CloneKeeps
<1>16. ASSUME NEW a \in Bounds, NEW b \in Bounds \cup {Sets!NoLimit}, Sets!__getitem__(i, a, b)
       PROVE  SetsKept
  <2> DEFINE c == [o(a) EXCEPT !.limit = b - a]
  <2>1. /\ Sets!_clone(IF b = Sets!NoLimit THEN o(a) ELSE c, <<>>, <<>>)
        /\ q.kind = "select" /\ ~q.single /\ (b # Sets!NoLimit => b > a)
    BY <1>5, <1>16 DEF Sets!__getitem__, Sets!Copy, q, o
  <2>2. CASE b = Sets!NoLimit
    <3>1. Shape(o(a))
      BY <1>7, <1>8, <1>13, <1>14, <2>1 DEF Shape
    <3> QED BY <1>13, <2>1, <2>2, <3>1, CloneKeeps
  <2>3. CASE b # Sets!NoLimit
    <3>1. DOMAIN o(a) = DOMAIN Sets!QuerySet /\ Slice(o(a))
      BY <1>7, <1>13
    <3>2. /\ DOMAIN c = DOMAIN q /\ c.kind = o(a).kind /\ c.single = o(a).single
          /\ c.raises = o(a).raises /\ c.params = o(a).params
          /\ c.order = o(a).order /\ c.offset = o(a).offset /\ c.limit = b - a
      BY <1>7, <3>1 DEF Sets!QuerySet
    <3>3. b \in Bounds /\ b > a
      BY <2>1, <2>3
    <3>4. b - a \in Limits /\ b - a \in Nat
      BY <1>6, <3>3 DEF Limits
    <3> HIDE DEF c
    <3>5. Slice(c) /\ c.order = q.order /\ c.offset = a /\ c.limit = b - a
      BY <1>13, <3>1, <3>2
    <3>6. Shape(c)
      BY <1>7, <1>8, <2>1, <3>4, <3>5 DEF Shape
    <3> QED BY <2>1, <2>3, <3>5, <3>6, CloneKeeps
  <2> QED BY <2>2, <2>3
<1>17. ASSUME NEW f, Sets!SetFlag(i, f)
       PROVE  SetsKept
  <2> DEFINE c == [q EXCEPT !.flags = @ \cup {f}]
  <2>1. Sets!_clone(c, <<>>, <<>>) /\ q.kind = "select" /\ ~q.single
    BY <1>5, <1>17 DEF Sets!SetFlag, Sets!Copy, q
  <2>2. Slice(c) /\ c.order = q.order /\ c.limit = q.limit /\ c.offset = q.offset
    BY <1>7 DEF Sets!QuerySet
  <2> HIDE DEF c
  <2>3. Shape(c)
    BY <1>7, <1>8, <2>1, <2>2 DEF Shape
  <2> QED BY <2>1, <2>2, <2>3, CloneKeeps
<1>18. CASE \/ Sets!annotate(i, "n") \/ Sets!all(i)
            \/ Sets!select_related(i, "other") \/ Sets!force_index(i, "index")
  <2>1. /\ Sets!_clone(q, <<>>, <<"n">>) \/ Sets!_clone(q, <<>>, <<>>)
        /\ q.kind = "select"
    BY <1>4, <1>5, <1>18 DEF Sets!annotate, Sets!all, Sets!select_related, Sets!force_index,
                             Sets!Copy, q
  <2> QED BY <1>7, <2>1, CloneKeeps
<1>19. CASE Sets!first(i)
  <2> DEFINE c == [q EXCEPT !.limit = 1, !.single = TRUE]
  <2>1. Sets!_clone(c, <<>>, <<>>) /\ q.kind = "select" /\ ~q.single
    BY <1>5, <1>19 DEF Sets!first, Sets!Copy, q
  <2>2. /\ DOMAIN c = DOMAIN q /\ c.kind = q.kind /\ c.order = q.order /\ c.limit = 1
        /\ c.offset = q.offset /\ c.single = TRUE /\ c.raises = q.raises /\ c.params = q.params
    BY <1>7 DEF Sets!QuerySet
  <2>3. 1 \in Limits
    BY DEF Limits
  <2> HIDE DEF c
  <2>4. Shape(c)
    <3>1. c.single \in BOOLEAN /\ c.single /\ c.raises \in BOOLEAN /\ ~c.raises
      BY <1>7, <2>1, <2>2 DEF Shape
    <3>2. c.limit \in {1, 2} /\ c.limit \in Nat /\ c.limit \in Limits
      BY <2>2, <2>3
    <3> QED BY <1>7, <2>2, <3>1, <3>2 DEF Shape
  <2> QED BY <2>1, <2>2, <2>4, CloneKeeps
<1> DEFINE Same(c) ==
             /\ DOMAIN c = DOMAIN q /\ c.from = q.from /\ c.filters = q.filters
             /\ c.notes = q.notes /\ c.single = q.single /\ c.raises = q.raises
             /\ c.params = q.params
<1>20. ASSUME NEW c, Same(c), Sets!Derive(c), q.kind = "select",
              c.kind \in Kinds \ {"select"},
              c.order \in Sets!Orders \cup {"none"}, c.offset \in Bounds \cup {0},
              c.limit \in Limits, c.limit \in Nat \cup {Sets!NoLimit},
              c.limit = q.limit \/ ~q.single,
              OfBase(c, q)
       PROVE  SetsKept
  <2>1. Shape(c)
    BY <1>7, <1>20 DEF Shape
  <2>2. IsQuery(c, DOMAIN lists)
    BY <1>2, <1>20, <2>1 DEF IsQuery
  <2>3. queries[c.from] = q
    <3>1. q.from = i
      BY <1>20 DEF SetsInv, Based, q
    <3> QED BY <1>20, <3>1 DEF q
  <2>4. c.from \in DOMAIN queries /\ OfBase(c, queries[c.from]) /\ c.kind # "select"
    BY <1>3, <1>20, <2>3
  <2> QED BY <1>20, <2>2, <2>4, DeriveKeeps
<1>21. CASE Sets!values(i) \/ Sets!values_list(i)
  <2>1. PICK k \in {"values", "values_list"} :
            Sets!Derive([q EXCEPT !.kind = k]) /\ q.kind = "select"
    BY <1>4, <1>21 DEF Sets!values, Sets!values_list, q
  <2> DEFINE c == [q EXCEPT !.kind = k]
  <2>2. Same(c) /\ c.kind = k /\ c.order = q.order /\ c.limit = q.limit /\ c.offset = q.offset
    BY <1>7 DEF Sets!QuerySet
  <2> HIDE DEF c
  <2>3. OfBase(c, q)
    BY <1>3, <2>1, <2>2 DEF OfBase
  <2>4. Sets!Derive(c) /\ c.kind \in Kinds \ {"select"}
    BY <2>1, <2>2 DEF c, Kinds
  <2> QED BY <1>7, <1>20, <2>1, <2>2, <2>3, <2>4 DEF Shape
<1>22. CASE Sets!count(i)
  <2> DEFINE c == [q EXCEPT !.kind = "count", !.order = "none"]
  <2>1. Sets!Derive(c) /\ q.kind = "select" /\ ~q.single
    BY <1>5, <1>22 DEF Sets!count, q
  <2>2. Same(c) /\ c.kind = "count" /\ c.order = "none" /\ c.limit = q.limit
        /\ c.offset = q.offset
    BY <1>7 DEF Sets!QuerySet
  <2> HIDE DEF c
  <2>3. OfBase(c, q)
    BY <1>3, <2>1, <2>2 DEF OfBase
  <2>4. c.kind \in Kinds \ {"select"}
    BY <2>2 DEF Kinds
  <2> QED BY <1>7, <1>20, <2>1, <2>2, <2>3, <2>4 DEF Shape
<1>23. CASE Sets!exists(i)
  <2> DEFINE c == [q EXCEPT !.kind = "exists", !.order = "none",
                            !.limit = Sets!NoLimit, !.offset = 0]
  <2>1. Sets!Derive(c) /\ q.kind = "select" /\ ~q.single
    BY <1>5, <1>23 DEF Sets!exists, q
  <2>2. Same(c) /\ c.kind = "exists" /\ c.order = "none" /\ c.limit = Sets!NoLimit
        /\ c.offset = 0
    BY <1>7 DEF Sets!QuerySet
  <2> HIDE DEF c
  <2>3. OfBase(c, q)
    BY <1>3, <2>1, <2>2 DEF OfBase
  <2>4. c.kind \in Kinds \ {"select"} /\ c.limit \in Limits
    BY <2>2 DEF Kinds, Limits
  <2> QED BY <1>7, <1>20, <2>1, <2>2, <2>3, <2>4 DEF Shape
<1>24. CASE Sets!delete(i) \/ Sets!update(i)
  <2>1. PICK k \in {"delete", "update"} :
            Sets!Derive([q EXCEPT !.kind = k, !.offset = 0]) /\ q.kind = "select"
    BY <1>5, <1>24 DEF Sets!delete, Sets!update, q
  <2> DEFINE c == [q EXCEPT !.kind = k, !.offset = 0]
  <2>2. Same(c) /\ c.kind = k /\ c.order = q.order /\ c.limit = q.limit /\ c.offset = 0
    BY <1>7 DEF Sets!QuerySet
  <2> HIDE DEF c
  <2>3. OfBase(c, q)
    BY <1>3, <2>1, <2>2 DEF OfBase
  <2>4. Sets!Derive(c) /\ c.kind \in Kinds \ {"select"}
    BY <2>1, <2>2 DEF c, Kinds
  <2> QED BY <1>7, <1>20, <2>1, <2>2, <2>3, <2>4 DEF Shape
<1>25. CASE Sets!Build(i) \/ Sets!Await(i)
  <2>1. UNCHANGED lists /\ queries' = [queries EXCEPT ![i] = Sets!_make_query(@)]
    BY <1>25 DEF Sets!Build, Sets!Await
  <2>2. RowsOK'
    <3>1. RowsOK
      BY DEF SetsInv
    <3>2. CASE Sets!Build(i)
      BY <3>1, <3>2 DEF Sets!Build, RowsOK
    <3> QED BY <1>25, <3>1, <3>2, RowsStep
  <2> QED BY <2>1, <2>2, BuildKeeps
<1> QED BY <1>1, <1>9, <1>10, <1>11, <1>12, <1>15, <1>16, <1>17, <1>18, <1>19, <1>21, <1>22,
           <1>23, <1>24, <1>25

LEMMA SetsAlways == Sets!Spec => []SetsInv
<1>1. SetsInv /\ UNCHANGED Sets!vars => SetsInv'
  BY DEF Sets!vars, SetsInv, RowsOK
<1>2. SetsInv /\ [Sets!Next]_Sets!vars => SetsInv'
  BY <1>1, SetsStep DEF SetsKept
<1> QED BY <1>2, SetsInit, PTL DEF Sets!Spec

\* No method called on a query, and no await of one, changes the rows of another query or
\* of the query itself: what a method adds to the filters and annotations it adds to copies.
THEOREM QueriesIndependent == Sets!Spec => ClonesIndependent
<1>1. SetsInv /\ [Sets!Next]_Sets!vars =>
        [\A i \in DOMAIN queries :
            Sets!Content(queries[i])' = Sets!Content(queries[i])]_Sets!vars
  <2> SUFFICES ASSUME SetsInv, Sets!Next, NEW i \in DOMAIN queries
               PROVE  Sets!Content(queries[i])' = Sets!Content(queries[i])
    OBVIOUS
  <2>1. ContentsStay /\ IsQuery(queries[i], DOMAIN lists)
    BY SetsStep, QueryOf DEF SetsKept
  <2>2. /\ queries'[i].kind = queries[i].kind /\ queries'[i].filters = queries[i].filters
        /\ queries'[i].notes = queries[i].notes /\ queries'[i].order = queries[i].order
        /\ queries'[i].limit = queries[i].limit /\ queries'[i].offset = queries[i].offset
        /\ queries'[i].single = queries[i].single /\ queries'[i].raises = queries[i].raises
        /\ queries'[i].flags = queries[i].flags
    BY <2>1 DEF ContentsStay, IsQuery, Shape, Sets!QuerySet
  <2>3. /\ lists'[queries'[i].filters] = lists[queries[i].filters]
        /\ lists'[queries'[i].notes] = lists[queries[i].notes]
    BY <2>1, <2>2 DEF ContentsStay, IsQuery, Shape, Sets!QuerySet
  <2> QED BY <2>2, <2>3 DEF Sets!Content
<1> QED BY <1>1, SetsAlways, PTL DEF Sets!Spec, ClonesIndependent, Sets!ClonesIndependent

-----------------------------------------------------------------------------
(* What queries yield                                                      *)

\* A query of the invariant, with the queryset it is made from
Known(q, b) ==
    /\ RowsOK /\ Shape(q) /\ Shape(b) /\ OfBase(q, b)
    /\ q.kind = "select" => q = b

LEMMA KnownQueries ==
    ASSUME SetsInv, NEW j \in DOMAIN queries
    PROVE  Known(queries[j], Sets!Base(j))
<1>1. RowsOK /\ IsQuery(queries[j], DOMAIN lists) /\ Based(queries, j)
  BY DEF SetsInv
<1>2. queries[j].from \in DOMAIN queries
  BY <1>1 DEF SetsInv, Based
<1>3. IsQuery(queries[queries[j].from], DOMAIN lists)
  BY <1>2 DEF SetsInv
<1> QED BY <1>1, <1>3 DEF Known, IsQuery, Based, Sets!Base

\* The same filters find the same rows, and the same lists have the same order.
LEMMA SameRows ==
    ASSUME NEW q, NEW b, OfBase(q, b)
    PROVE  /\ Sets!Where(q) = Sets!Where(b)
           /\ q.order = b.order => Sets!Order(q) = Sets!Order(b)
BY DEF OfBase, Sets!Where, Sets!Order

LEMMA Ordering ==
    ASSUME NEW q, Shape(q)
    PROVE  /\ Sets!StatementOrder(q) \in RowOrders
           /\ Sets!StatementLimit(q) \in Nat \cup {Sets!NoLimit}
BY DEF Shape, Kinds, Sets!Orders, Sets!StatementOrder, Sets!StatementLimit, Sets!Order, RowOrders

\* The rows a query fetches: a slice of an enumeration of those that satisfy the filters
LEMMA FetchedIs ==
    ASSUME RowsOK, NEW q, Shape(q)
    PROVE  LET n == Cardinality(Sets!Where(q))
           IN  /\ n \in Nat /\ Len(Sets!Sorted(q)) = n
               /\ Sets!Sorted(q) \in Seq(Sets!Where(q))
               /\ Sets!Fetched(q) \in Seq(Sets!Where(q))
               /\ Len(Sets!Fetched(q)) = Many(n, q.offset, Sets!StatementLimit(q))
               /\ Many(n, q.offset, Sets!StatementLimit(q)) \in Nat
<1> DEFINE S == Sets!Where(q)
           s == Sets!Sorted(q)
           k == Sets!StatementLimit(q)
<1>1. Sets!StatementOrder(q) \in RowOrders /\ k \in Nat \cup {Sets!NoLimit}
  BY Ordering
<1>2. s \in Seq(S) /\ Len(s) = Cardinality(S) /\ IsFiniteSet(S)
  BY <1>1, SortedIs
<1>3. Cardinality(S) \in Nat
  BY <1>2, FS_CardinalityType
<1>4. q.offset \in Nat
  BY SetsAssumption DEF Shape
<1>5. Sets!Fetched(q) = Sets!Cut(s, q.offset, k)
  BY DEF Sets!Fetched
<1> HIDE DEF S, s, k
<1>6. /\ Sets!Cut(s, q.offset, k) \in Seq(S)
      /\ Len(Sets!Cut(s, q.offset, k)) = Many(Len(s), q.offset, k)
      /\ Many(Len(s), q.offset, k) \in Nat
  BY <1>1, <1>2, <1>4, CutIs
<1> QED BY <1>2, <1>3, <1>5, <1>6 DEF S, s, k

\* What is read of the same rows in the same slice
LEMMA SameFetched ==
    ASSUME NEW q, NEW b, OfBase(q, b), q.order = b.order, q.offset = b.offset,
           Sets!StatementLimit(q) = Sets!StatementLimit(b),
           q.kind \in {"delete", "update"} => Sets!StatementLimit(q) # Sets!NoLimit
    PROVE  Sets!Fetched(q) = Sets!Fetched(b)
<1>1. Sets!Where(q) = Sets!Where(b)
  BY SameRows
<1>2. Sets!StatementOrder(q) = Sets!StatementOrder(b)
  <2>1. Sets!Order(q) = Sets!Order(b) /\ b.kind = "select"
    BY SameRows DEF OfBase
  <2> QED BY <2>1 DEF Sets!StatementOrder
<1>3. Sets!Sorted(q) = Sets!Sorted(b)
  BY <1>1, <1>2 DEF Sets!Sorted
<1> QED BY <1>3 DEF Sets!Fetched

\* Selects, and values() of one, are built whole however often.
LEMMA NotRefused ==
    ASSUME NEW q, Shape(q), q.kind \in {"select", "values", "values_list"}
    PROVE  ~Sets!Refused(q)
BY DEF Shape, Sets!Refused, Sets!JoinedBefore

LEMMA NotRefusedAtFirst ==
    ASSUME NEW q, Shape(q), q.kind \in {"count", "exists"}, q.joined = {}
    PROVE  ~Sets!Refused(q)
BY DEF Shape, Sets!Refused, Sets!JoinedBefore

LEMMA ResultIs ==
    ASSUME NEW q, Shape(q)
    PROVE  /\ q.kind \in {"select", "values", "values_list"} => Sets!Result(q) = Sets!_execute(q)
           /\ q.kind = "count" /\ q.joined = {} =>
                Sets!Result(q) = <<"number", Sets!CountQuery(q)>>
           /\ q.kind = "exists" /\ q.joined = {} =>
                Sets!Result(q) = <<"bool", Sets!ExistsQuery(q)>>
BY NotRefused, NotRefusedAtFirst DEF Shape, Kinds, Sets!Result

LEMMA FirstOfSlice ==
    ASSUME NEW S, NEW s \in Seq(S), NEW from \in Nat, NEW k \in {1, 2}
    PROVE  LET rest == Sets!Cut(s, from, Sets!NoLimit)
               c == Sets!Cut(s, from, k)
           IN  /\ rest \in Seq(S) /\ c \in Seq(S) /\ Len(rest) \in Nat
               /\ Len(c) = IF Len(rest) > k THEN k ELSE Len(rest)
               /\ Len(rest) > 0 => c[1] = rest[1]
<1> DEFINE rest == Sets!Cut(s, from, Sets!NoLimit)
           c == Sets!Cut(s, from, k)
           n == Len(s)
<1>0. Sets!NoLimit \in Nat \cup {Sets!NoLimit}
  OBVIOUS
<1>1. /\ rest \in Seq(S) /\ Len(rest) = Many(n, from, Sets!NoLimit)
      /\ \A i \in 1..Len(rest) : rest[i] = s[from + i]
      /\ Len(rest) \in Nat
  <2>1. /\ rest \in Seq(S) /\ Len(rest) = Many(n, from, Sets!NoLimit)
        /\ \A i \in 1..Len(rest) : rest[i] = s[from + i]
    BY <1>0, CutIs
  <2> HIDE DEF rest
  <2> QED BY <2>1
<1>2. /\ c \in Seq(S) /\ Len(c) = Many(n, from, k)
      /\ \A i \in 1..Len(c) : c[i] = s[from + i]
  <2>1. k \in Nat \cup {Sets!NoLimit}
    OBVIOUS
  <2> QED BY <2>1, CutIs
<1>3. n \in Nat /\ from \in Nat /\ k \in {1, 2}
  OBVIOUS
<1> HIDE DEF rest, c, n
<1>4. Len(c) = IF Len(rest) > k THEN k ELSE Len(rest)
  <2> DEFINE m == IF from + k > n THEN n ELSE from + k
  <2>1. Many(n, from, Sets!NoLimit) = IF n >= from THEN n - from ELSE 0
    BY DEF Many
  <2>2. Many(n, from, k) = IF m >= from THEN m - from ELSE 0
    BY <1>3 DEF Many, Sets!NoLimit
  <2>3. (IF m >= from THEN m - from ELSE 0)
          = LET rests == IF n >= from THEN n - from ELSE 0 IN IF rests > k THEN k ELSE rests
    BY ONLY <1>3
  <2> HIDE DEF m
  <2> QED BY ONLY <1>1, <1>2, <2>1, <2>2, <2>3
<1>5. Len(rest) > 0 => c[1] = rest[1]
  BY <1>1, <1>2, <1>4
<1> QED BY <1>1, <1>2, <1>4, <1>5 DEF rest, c

\* get(), get_or_none() and first() are exact.
LEMMA SingleExact ==
    ASSUME RowsOK, NEW q, Shape(q), q.kind \in {"select", "values", "values_list"}, q.single
    PROVE  Sets!OneIsExact(q)
<1> DEFINE S == Sets!Where(q)
           s == Sets!Sorted(q)
           rest == Sets!Cut(s, q.offset, Sets!NoLimit)
           c == Sets!Fetched(q)
<1>1. q.limit \in {1, 2} /\ q.offset \in Nat /\ (q.raises => q.limit = 2)
      /\ q.raises \in BOOLEAN
  BY SetsAssumption DEF Shape
<1>2. Sets!StatementLimit(q) = q.limit
  BY <1>1 DEF Sets!StatementLimit
<1>3. c = Sets!Cut(s, q.offset, q.limit)
  BY <1>2 DEF Sets!Fetched
<1>4. s \in Seq(S)
  BY FetchedIs
<1> HIDE DEF S, s
<1>5. /\ rest \in Seq(S) /\ c \in Seq(S) /\ Len(rest) \in Nat
      /\ Len(c) = IF Len(rest) > q.limit THEN q.limit ELSE Len(rest)
      /\ Len(rest) > 0 => c[1] = rest[1]
  <2> DEFINE d == Sets!Cut(s, q.offset, q.limit)
  <2>1. /\ rest \in Seq(S) /\ d \in Seq(S) /\ Len(rest) \in Nat
        /\ Len(d) = IF Len(rest) > q.limit THEN q.limit ELSE Len(rest)
        /\ Len(rest) > 0 => d[1] = rest[1]
    BY <1>1, <1>4, FirstOfSlice
  <2> HIDE DEF d, rest
  <2> QED BY <1>3, <2>1 DEF d
<1>6. Sets!Result(q) = Sets!OneOf(q, c)
  BY ResultIs DEF Sets!_execute
<1> DEFINE one == IF q.limit = 1 \/ Len(rest) = 1
                  THEN <<"row", IF rest = <<>> THEN 0 ELSE rest[1]>>
                  ELSE IF rest # <<>> THEN Sets!Error("MultipleObjectsReturned")
                  ELSE IF q.raises THEN Sets!Error("DoesNotExist") ELSE <<"row", 0>>
<1> HIDE DEF rest, c
<1>7. rest = <<>> <=> Len(rest) = 0
  BY <1>5
<1>8. c = <<>> <=> Len(c) = 0
  BY <1>5
<1> DEFINE m == Len(rest)
           l == Len(c)
<1>9. /\ m \in Nat /\ l = (IF m > q.limit THEN q.limit ELSE m) /\ q.limit \in {1, 2}
       /\ (m > 0 => c[1] = rest[1])
  BY <1>1, <1>5
<1> HIDE DEF m, l
<1>10. Sets!OneOf(q, c) = one
  <2>1. CASE Len(rest) = 0
    BY <1>1, <1>5, <1>7, <1>8, <2>1 DEF Sets!OneOf
  <2>2. CASE m # 0 /\ l = 1
    <3>1. m > 0 /\ (q.limit = 1 \/ m = 1)
      BY ONLY <1>9, <2>2
    <3>2. c # <<>> /\ rest # <<>>
      BY <1>7, <1>8, <2>2 DEF m, l
    <3>3. Sets!OneOf(q, c) = <<"row", rest[1]>>
      BY <1>9, <2>2, <3>1, <3>2 DEF Sets!OneOf, l
    <3> QED BY <3>1, <3>2, <3>3 DEF m
  <2>3. CASE m # 0 /\ l # 1
    <3>1. q.limit # 1 /\ m # 1 /\ l # 0
      BY ONLY <1>9, <2>3
    <3>2. c # <<>> /\ rest # <<>>
      BY <1>7, <1>8, <2>3, <3>1 DEF m, l
    <3>3. Sets!OneOf(q, c) = Sets!Error("MultipleObjectsReturned")
      BY <2>3, <3>2 DEF Sets!OneOf, l
    <3> QED BY <3>1, <3>2, <3>3 DEF m
  <2> QED BY <2>1, <2>2, <2>3 DEF m
<1> QED BY <1>6, <1>10 DEF Sets!OneIsExact, rest, s

\* values() and values_list() yield the rows of their queryset.
LEMMA ValuesAgree ==
    ASSUME NEW q, NEW b, Known(q, b), q.kind \in {"values", "values_list"}, q.limit # 0
    PROVE  Sets!Result(q) = Sets!Result(b)
<1>1. /\ Shape(q) /\ Shape(b) /\ OfBase(q, b) /\ q.order = b.order /\ q.offset = b.offset
      /\ q.limit = b.limit /\ b.kind = "select" /\ q.single = b.single /\ q.raises = b.raises
  BY DEF Known, OfBase
<1>2. Sets!StatementLimit(q) = Sets!StatementLimit(b)
  BY <1>1 DEF Sets!StatementLimit
<1>3. Sets!Fetched(q) = Sets!Fetched(b)
  BY <1>1, <1>2, SameFetched
<1>4. Sets!_execute(q) = Sets!_execute(b)
  BY <1>1, <1>3 DEF Sets!_execute, Sets!OneOf
<1> QED BY <1>1, <1>4, ResultIs

\* count() is how many rows its queryset yields.
LEMMA CountAgrees ==
    ASSUME NEW q, NEW b, Known(q, b), q.kind = "count", q.joined = {}, q.limit # 0,
           q.offset <= Sets!Cardinality(Sets!Where(q))
    PROVE  Sets!Result(q) = <<"number", Len(Sets!Result(b)[2])>>
<1> DEFINE n == Cardinality(Sets!Where(q))
<1>1. /\ Shape(q) /\ Shape(b) /\ OfBase(q, b) /\ q.offset = b.offset /\ RowsOK
      /\ q.limit = b.limit /\ b.kind = "select" /\ ~b.single
  BY DEF Known, OfBase
<1>2. Sets!Where(b) = Sets!Where(q) /\ Sets!Cardinality(Sets!Where(q)) = n
  BY <1>1, SameRows, SetsCardinality
<1>3. Sets!StatementLimit(b) = q.limit
  BY <1>1 DEF Sets!StatementLimit
<1>4. n \in Nat /\ Len(Sets!Fetched(b)) = Many(n, q.offset, q.limit)
  BY <1>1, <1>2, <1>3, FetchedIs
<1>5. q.offset \in Nat /\ q.limit \in Nat \cup {Sets!NoLimit} /\ q.offset <= n
  BY <1>1, <1>2, SetsAssumption DEF Shape
<1>6. Sets!CountQuery(q)
        = IF q.limit > 0 /\ n - q.offset > q.limit THEN q.limit ELSE n - q.offset
  BY <1>2 DEF Sets!CountQuery
<1> HIDE DEF n
<1>7. Sets!CountQuery(q) = Many(n, q.offset, q.limit)
  BY <1>4, <1>5, <1>6 DEF Many, Sets!NoLimit
<1>8. Sets!Result(b) = <<"rows", Sets!Fetched(b)>>
  BY <1>1, ResultIs DEF Sets!_execute
<1> QED BY <1>1, <1>4, <1>7, <1>8, ResultIs

\* exists() is whether a row satisfies the filters.
LEMMA ExistsAgrees ==
    ASSUME RowsOK, NEW q, Shape(q), q.kind = "exists", q.joined = {}
    PROVE  Sets!Result(q) = <<"bool", Sets!Sorted(q) # <<>> >>
<1> DEFINE S == Sets!Where(q)
           s == Sets!Sorted(q)
<1>1. s \in Seq(S) /\ Len(s) = Cardinality(S) /\ IsFiniteSet(S)
  <2>1. Sets!StatementOrder(q) \in RowOrders
    BY Ordering
  <2> QED BY <2>1, SortedIs
<1>2. Sets!Result(q) = <<"bool", S # {}>>
  BY ResultIs DEF Sets!ExistsQuery
<1> HIDE DEF S, s
<1>3. S # {} <=> Cardinality(S) # 0
  BY <1>1, FS_EmptySet
<1>4. s # <<>> <=> Len(s) # 0
  BY <1>1
<1>5. (S # {}) = (s # <<>>)
  BY <1>1, <1>3, <1>4
<1> QED BY <1>2, <1>5 DEF s

\* Whatever was called before, what is read of a queryset in another way agrees with its
\* rows: values() and values_list() are the same rows, count() is how many there are,
\* exists() whether there is one; get() and first() yield a row only when it is the one
\* that matches, or the first; and no select is refused, however often it was built.
THEOREM ReadsOfOneQuerysetAgree == Sets!Spec => []ReadsAgree
<1>1. SetsInv => ReadsAgree
  <2> SUFFICES ASSUME SetsInv PROVE ReadsAgree
    OBVIOUS
  <2> SUFFICES ASSUME NEW j \in DOMAIN queries
               PROVE  LET q == queries[j]
                          r == Sets!Result(Sets!Base(j))
                      IN  /\ q.kind = "select" => ~Sets!Refused(q)
                          /\ q.kind \in {"select", "values", "values_list"} /\ q.single =>
                             Sets!OneIsExact(q)
                          /\ q.kind \in {"values", "values_list"} /\ q.limit # 0 =>
                             Sets!Result(q) = r
                          /\ q.kind = "count" /\ q.joined = {} /\ q.limit # 0
                             /\ q.offset <= Sets!Cardinality(Sets!Where(q)) =>
                             Sets!Result(q) = <<"number", Len(r[2])>>
                          /\ q.kind = "exists" /\ q.joined = {} =>
                             Sets!Result(q) = <<"bool", Sets!Sorted(q) # <<>> >>
    BY DEF ReadsAgree, Sets!ReadsAgree
  <2> DEFINE q == queries[j]
             b == Sets!Base(j)
  <2>1. Known(q, b)
    BY KnownQueries
  <2> HIDE DEF q, b
  <2>2. RowsOK /\ Shape(q)
    BY <2>1 DEF Known
  <2>3. q.kind = "select" => ~Sets!Refused(q)
    BY <2>2 DEF Shape, Sets!Refused, Sets!JoinedBefore
  <2>4. q.kind \in {"select", "values", "values_list"} /\ q.single => Sets!OneIsExact(q)
    BY <2>2, SingleExact
  <2>5. q.kind \in {"values", "values_list"} /\ q.limit # 0 => Sets!Result(q) = Sets!Result(b)
    BY <2>1, ValuesAgree
  <2>6. q.kind = "count" /\ q.joined = {} /\ q.limit # 0
        /\ q.offset <= Sets!Cardinality(Sets!Where(q)) =>
            Sets!Result(q) = <<"number", Len(Sets!Result(b)[2])>>
    BY <2>1, CountAgrees
  <2>7. q.kind = "exists" /\ q.joined = {} =>
            Sets!Result(q) = <<"bool", Sets!Sorted(q) # <<>> >>
    BY <2>2, ExistsAgrees
  <2> QED BY <2>3, <2>4, <2>5, <2>6, <2>7 DEF q, b
<1> QED BY <1>1, SetsAlways, PTL

\* delete() and update() write, of the rows that satisfy their queryset's filters, the
\* first ones in its order when the database limits writes, and all of them otherwise.
THEOREM WritesOfTheQueryset == Sets!Spec => []WritesItsRows
<1>1. SetsInv => WritesItsRows
  <2> SUFFICES ASSUME SetsInv, NEW j \in DOMAIN queries,
                      queries[j].kind \in {"delete", "update"}, ~Sets!Refused(queries[j])
               PROVE  LET q == queries[j]
                          b == Sets!Base(j)
                          limited == WriteLimit /\ q.limit > 0
                      IN  /\ Sets!Written(q)
                               = IF limited THEN Sets!ToSet(Sets!Cut(Sets!Sorted(b), 0, q.limit))
                                 ELSE Sets!Where(b)
                          /\ b.offset = 0 /\ (limited \/ q.limit = Sets!NoLimit) =>
                               Sets!Written(q) = Sets!ToSet(Sets!Fetched(b))
    BY DEF WritesItsRows, Sets!WritesItsRows
  <2> DEFINE q == queries[j]
             b == Sets!Base(j)
             limited == WriteLimit /\ q.limit > 0
             cut == Sets!Cut(Sets!Sorted(b), 0, q.limit)
  <2>1. Known(q, b)
    BY KnownQueries
  <2> HIDE DEF q, b
  <2>2. /\ RowsOK /\ Shape(q) /\ Shape(b) /\ OfBase(q, b) /\ q.order = b.order
        /\ q.limit = b.limit /\ q.offset = 0 /\ b.kind = "select"
        /\ q.kind \in {"delete", "update"} /\ q.limit \in Nat \cup {Sets!NoLimit}
    BY <2>1 DEF Known, OfBase, Shape, q, b
  <2>3. Sets!Written(q) = Sets!ToSet(Sets!Fetched(q))
    BY DEF Sets!Written, q
  <2>4. \* A query that has no offset and no limit has all the rows.
        ASSUME NEW x, Shape(x), x.offset = 0, Sets!StatementLimit(x) = Sets!NoLimit
        PROVE  Sets!ToSet(Sets!Fetched(x)) = Sets!Where(x)
    <3> DEFINE s == Sets!Sorted(x)
               S == Sets!Where(x)
    <3>1. Sets!StatementOrder(x) \in RowOrders
      BY <2>4, Ordering
    <3>2. s \in Seq(S) /\ {s[i] : i \in DOMAIN s} = S
      BY <2>2, <3>1, SortedIs
    <3>3. Sets!Fetched(x) = SubSeq(s, 1, Len(s))
      BY <2>4 DEF Sets!Fetched, Sets!Cut
    <3> HIDE DEF s, S
    <3>4. Sets!Fetched(x) = s
      BY <3>2, <3>3, SubSeqFull
    <3> QED BY <3>2, <3>4 DEF Sets!ToSet, S
  <2>5. CASE limited
    <3>1. Sets!StatementLimit(q) = q.limit /\ q.limit # Sets!NoLimit
      BY <2>2, <2>5 DEF Sets!StatementLimit, Sets!NoLimit
    <3>2. Sets!Sorted(q) = Sets!Sorted(b)
      <4>1. Sets!Where(q) = Sets!Where(b) /\ Sets!Order(q) = Sets!Order(b)
        BY <2>2, SameRows
      <4> QED BY <2>2, <3>1, <4>1 DEF Sets!Sorted, Sets!StatementOrder
    <3>3. Sets!Fetched(q) = cut
      BY <2>2, <3>1, <3>2 DEF Sets!Fetched
    <3>4. b.offset = 0 => Sets!Fetched(b) = cut
      <4>1. Sets!StatementLimit(b) = q.limit
        BY <2>2 DEF Sets!StatementLimit
      <4> QED BY <4>1 DEF Sets!Fetched
    <3> QED BY <2>3, <2>5, <3>3, <3>4 DEF q, b
  <2>6. CASE ~limited
    <3>1. Sets!StatementLimit(q) = Sets!NoLimit
      BY <2>2, <2>6 DEF Sets!StatementLimit
    <3>2. Sets!Written(q) = Sets!Where(b)
      <4>1. Sets!Where(q) = Sets!Where(b)
        BY <2>2, SameRows
      <4> QED BY <2>2, <2>3, <2>4, <3>1, <4>1
    <3>3. ASSUME b.offset = 0, q.limit = Sets!NoLimit
          PROVE  Sets!ToSet(Sets!Fetched(b)) = Sets!Where(b)
      <4>1. Sets!StatementLimit(b) = Sets!NoLimit
        BY <2>2, <3>3 DEF Sets!StatementLimit
      <4> QED BY <2>2, <2>4, <3>3, <4>1
    <3> QED BY <2>6, <3>2, <3>3 DEF q, b
  <2> QED BY <2>5, <2>6
<1> QED BY <1>1, SetsAlways, PTL

\* A query's lists are there, its base comes before it, and its limit and offset are of
\* those that were given; the table has rows that it had at first.
THEOREM QueriesTyped == Sets!Spec => []Sets!TypeOK
<1>1. SetsInv => Sets!TypeOK
  <2> SUFFICES ASSUME SetsInv PROVE Sets!TypeOK
    OBVIOUS
  <2>1. RowsOK
    BY DEF SetsInv
  <2>2. ASSUME NEW i \in DOMAIN queries
        PROVE  /\ queries[i].from \in 1..i
               /\ queries[i].filters \in DOMAIN lists /\ queries[i].notes \in DOMAIN lists
               /\ queries[i].limit \in Limits
               /\ queries[i].offset \in Bounds \cup {0}
    BY DEF SetsInv, IsQuery, Based, Shape
  <2> QED BY <2>1, <2>2 DEF Sets!TypeOK, RowsOK, Limits
<1> QED BY <1>1, SetsAlways, PTL

-----------------------------------------------------------------------------
(* Prefetching                                                             *)

Nested == SUBSET {"nested"}
Maps   == UNION {[D -> Nested] : D \in SUBSET Pre!FieldsOf}

\* The relations and the Prefetch objects are of the model.
Asking ==
    /\ MaxAwaits \in Nat /\ MaxPrefetches \in Nat
    /\ IsFiniteSet(Pre!FieldsOf) /\ Pre!Direct \in Pre!FieldsOf
    /\ Refetched \subseteq Maps /\ NewBosses \subseteq Pre!Keys \X SUBSET Pre!Rows
    /\ \A ask \in Asks :
        /\ ask.relations \in Maps
        /\ ask.prefetches \subseteq [field : Pre!FieldsOf, rows : SUBSET Pre!Rows,
                                     attr : Pre!Attrs \cup {Pre!NoAttr}]

Query  == [attr : Pre!Attrs \cup {Pre!NoAttr}, rows : SUBSET Pre!Rows, nested : Nested]
Values == [set : BOOLEAN, rows : SUBSET Pre!Rows, nested : Nested]
LoadedInstance ==
    [boss_id : SUBSET Pre!Rows, behind : BOOLEAN, value : [Pre!FieldsOf -> Values],
     attr : [Pre!Attrs -> Values]]
Made   == UNION {[D -> Seq(Query) \ {<<>>}] : D \in SUBSET Pre!FieldsOf}
Chosen == UNION {[D -> Nat] : D \in SUBSET Pre!FieldsOf}
Task   == [field : Pre!FieldsOf, n : Nat, keys : SUBSET (Pre!Rows \cup Pre!Keys)]
Call   == [batch : Nat, on : SUBSET Pre!Keys, made : Made, failed : BOOLEAN, tasks : SUBSET Task]
Batch  == [Pre!Keys -> LoadedInstance]

\* What the querysets ask for: no list of queries is empty.
Asked ==
    /\ querysets \in Seq([map : Maps, queries : Chosen])
    /\ \A i \in DOMAIN querysets : \A f \in DOMAIN querysets[i].queries :
        querysets[i].queries[f] \in DOMAIN prefetches
    /\ prefetches \in Seq(Seq(Query) \ {<<>>})

\* Queries that let all rows through
Whole(made) == \A f \in DOMAIN made : \A n \in DOMAIN made[f] : made[f][n].rows = Pre!Rows

\* The tasks of a call are of its queries, those on instances in use are for all rows,
\* and a list that a queryset loaded is that of one call.
CallOK(call) ==
    /\ call.batch # 1 => call.on = Pre!Keys
    /\ call.batch = 1 => Whole(call.made)
    /\ \A t \in call.tasks : t.field \in DOMAIN call.made /\ t.n \in 1..Len(call.made[t.field])
Called ==
    /\ batches \in Seq(Batch) /\ batches # <<>>
    /\ awaits \in Seq(Call)
    /\ Len(awaits) <= MaxAwaits
    /\ \A c \in DOMAIN awaits : awaits[c].batch \in DOMAIN batches /\ CallOK(awaits[c])
    /\ \A c, d \in DOMAIN awaits : c # d => awaits[c].batch # awaits[d].batch \/ awaits[c].batch = 1

\* What an instance was given is the result of the query
LEMMA ValueTyped ==
    ASSUME NEW r \in SUBSET Pre!Rows, NEW n \in Nested
    PROVE  /\ Pre!Value(r, n) \in Values /\ Pre!Value(r, n).set /\ Pre!Value(r, n).rows = r
           /\ r = {} => Pre!Value(r, n) = Pre!Value({}, {})
BY DEF Pre!Value, Values, Nested

LEMMA RelatedRows ==
    ASSUME NEW f \in Pre!FieldsOf, NEW k \in Pre!Keys
    PROVE  RelatedOf[f][k] \subseteq Pre!Rows
BY DEF Pre!Rows

Answer(x, k, on, f, q, keys) ==
    IF f = Pre!Direct THEN Pre!_prefetch_direct_relation(x, q, keys)
    ELSE IF f = Pre!Many THEN Pre!_prefetch_m2m_relation(x, k, on, q)
    ELSE Pre!_prefetch_reverse_relation(x, k, f, q)

WithAttr(x, a, v) == IF a = Pre!NoAttr THEN x ELSE [x EXCEPT !.attr[a] = v]

LEMMA AttrSet ==
    ASSUME NEW x \in LoadedInstance, NEW a \in Pre!Attrs \cup {Pre!NoAttr}, NEW v \in Values
    PROVE  /\ WithAttr(x, a, v) \in LoadedInstance
           /\ WithAttr(x, a, v).boss_id = x.boss_id /\ WithAttr(x, a, v).value = x.value
           /\ WithAttr(x, a, v).behind = x.behind
           /\ \A b \in Pre!Attrs : WithAttr(x, a, v).attr[b] = IF a = b THEN v ELSE x.attr[b]
BY DEF WithAttr, LoadedInstance, Pre!Attrs, Pre!NoAttr

\* The rows of a join that name one instance
Joined(on, S, of, k) ==
    {l[2] : l \in {m \in {l \in on \X S : l[2] \in of[l[1]]} : m[1] = k}}

LEMMA JoinedRows ==
    ASSUME NEW on, NEW S, NEW of, NEW k \in on
    PROVE  Joined(on, S, of, k) = of[k] \cap S
<1> DEFINE pairs == {m \in {l \in on \X S : l[2] \in of[l[1]]} : m[1] = k}
<1>1. Joined(on, S, of, k) = {l[2] : l \in pairs}
  BY DEF Joined
<1>2. ASSUME NEW r \in of[k] \cap S
      PROVE  r \in {l[2] : l \in pairs}
  <2>1. <<k, r>> \in pairs
    OBVIOUS
  <2> QED BY <2>1
<1>3. ASSUME NEW l \in pairs
      PROVE  l[2] \in of[k] \cap S
  OBVIOUS
<1> HIDE DEF pairs
<1> QED BY <1>1, <1>2, <1>3

\* What the query yields for the instance, and what the instance is then
Yielded(x, k, f, q, keys) ==
    IF f = Pre!Direct THEN x.boss_id \cap keys \cap q.rows ELSE RelatedOf[f][k] \cap q.rows
Answered(y, x, k, f, q, keys) ==
    LET r == Yielded(x, k, f, q, keys)
    IN  /\ y \in LoadedInstance
        /\ y.value = [x.value EXCEPT ![f] = Pre!Value(r, q.nested)]
        /\ y.boss_id = IF f = Pre!Direct THEN r ELSE x.boss_id
        /\ y.behind = IF f = Pre!Direct THEN FALSE ELSE x.behind
        /\ \A a \in Pre!Attrs :
            y.attr[a] = IF q.attr = a THEN Pre!Value(r, q.nested) ELSE x.attr[a]

LEMMA AnswerOf ==
    ASSUME NEW x \in LoadedInstance, NEW on \in SUBSET Pre!Keys, NEW k \in on,
           NEW f \in Pre!FieldsOf, NEW q \in Query, NEW keys,
           NEW y, y = Answer(x, k, on, f, q, keys)
    PROVE  Answered(y, x, k, f, q, keys)
<1> DEFINE r == IF f = Pre!Direct THEN x.boss_id \cap keys \cap q.rows
                ELSE RelatedOf[f][k] \cap q.rows
           v == Pre!Value(r, q.nested)
           z == IF f = Pre!Direct
                THEN [x EXCEPT !.value[f] = v, !.boss_id = v.rows, !.behind = FALSE]
                ELSE [x EXCEPT !.value[f] = v]
<1>1. r \in SUBSET Pre!Rows /\ q.nested \in Nested /\ q.attr \in Pre!Attrs \cup {Pre!NoAttr}
  BY RelatedRows DEF Query, LoadedInstance
<1>2. v \in Values /\ v.rows = r
  BY <1>1, ValueTyped
<1>3. y = WithAttr(z, q.attr, v)
  <2> USE DEF WithAttr
  <2>1. CASE f = Pre!Direct
    BY <2>1 DEF Answer, Pre!_prefetch_direct_relation, Pre!_fk_setter
  <2>2. CASE f = Pre!Many /\ f # Pre!Direct
    <3> DEFINE relations == {l \in on \X q.rows : l[2] \in RelatedOf[Pre!Many][l[1]]}
    <3>1. {l[2] : l \in {m \in relations : m[1] = k}} = RelatedOf[f][k] \cap q.rows
      <4>1. {l[2] : l \in {m \in relations : m[1] = k}}
                = Joined(on, q.rows, RelatedOf[Pre!Many], k)
        BY DEF Joined
      <4> QED BY <2>2, <4>1, JoinedRows
    <3> QED BY <2>2, <3>1 DEF Answer, Pre!_prefetch_m2m_relation
  <2>3. CASE f # Pre!Many /\ f # Pre!Direct
    BY <2>3 DEF Answer, Pre!_prefetch_reverse_relation
  <2> QED BY <2>1, <2>2, <2>3
<1>4. /\ z \in LoadedInstance /\ z.value = [x.value EXCEPT ![f] = v] /\ z.attr = x.attr
      /\ z.boss_id = IF f = Pre!Direct THEN r ELSE x.boss_id
      /\ z.behind = IF f = Pre!Direct THEN FALSE ELSE x.behind
  <2> HIDE DEF v, r
  <2> QED BY <1>1, <1>2 DEF LoadedInstance
<1> HIDE DEF v, r, z
<1>5. /\ y \in LoadedInstance /\ y.boss_id = z.boss_id /\ y.value = z.value
      /\ y.behind = z.behind
      /\ \A a \in Pre!Attrs : y.attr[a] = IF q.attr = a THEN v ELSE z.attr[a]
  <2>1. z \in LoadedInstance /\ v \in Values /\ q.attr \in Pre!Attrs \cup {Pre!NoAttr}
    BY <1>1, <1>2, <1>4
  <2> DEFINE w == WithAttr(z, q.attr, v)
  <2>2. /\ w \in LoadedInstance /\ w.boss_id = z.boss_id /\ w.value = z.value
        /\ w.behind = z.behind
        /\ \A a \in Pre!Attrs : w.attr[a] = IF q.attr = a THEN v ELSE z.attr[a]
    BY <2>1, AttrSet
  <2> HIDE DEF w
  <2> QED BY <1>3, <2>2 DEF w
<1>6. v = Pre!Value(r, q.nested) /\ r = Yielded(x, k, f, q, keys)
  BY DEF v, r, Yielded
<1> QED BY <1>4, <1>5, <1>6 DEF Answered

LEMMA MadeOK ==
    ASSUME Asked, NEW map \in Maps, NEW chosen \in Chosen,
           \A f \in DOMAIN chosen : chosen[f] \in DOMAIN prefetches
    PROVE  /\ Pre!_make_prefetch_queries(map, chosen) \in Made
           /\ DOMAIN Pre!_make_prefetch_queries(map, chosen) = DOMAIN map \cup DOMAIN chosen
<1> DEFINE list(f) == IF f \in DOMAIN chosen THEN prefetches[chosen[f]] ELSE <<>>
           made == Pre!_make_prefetch_queries(map, chosen)
           D == DOMAIN map \cup DOMAIN chosen
<1>1. D \in SUBSET Pre!FieldsOf /\ \A f \in DOMAIN map : map[f] \in Nested
  BY DEF Maps, Chosen
<1>2. made = [f \in D |-> IF f \in DOMAIN map THEN Pre!Made(list(f), map[f]) ELSE list(f)]
  BY DEF Pre!_make_prefetch_queries
<1>3. ASSUME NEW f \in D
      PROVE  list(f) \in Seq(Query) /\ (f \notin DOMAIN map => list(f) # <<>>)
  BY DEF Asked
<1>4. Pre!Plain \in Query
  BY DEF Pre!Plain, Pre!Query, Query, Nested
<1>5. ASSUME NEW l \in Seq(Query), NEW nested \in Nested
      PROVE  Pre!Made(l, nested) \in Seq(Query) \ {<<>>}
  <2> DEFINE q == IF l = <<>> THEN Pre!Plain ELSE l[1]
             r == IF nested = {} THEN q ELSE [q EXCEPT !.nested = nested]
  <2>1. q \in Query
    BY <1>4
  <2>2. r \in Query
    <3> HIDE DEF q
    <3> QED BY <2>1 DEF Query
  <2>3. Pre!Made(l, nested) = Append(l, r)
    BY DEF Pre!Made
  <2> HIDE DEF r
  <2> QED BY <2>2, <2>3
<1> HIDE DEF list, made, D
<1>6. \A f \in D : made[f] \in Seq(Query) \ {<<>>}
  BY <1>1, <1>2, <1>3, <1>5
<1>7. made \in [D -> Seq(Query) \ {<<>>}]
  BY <1>2, <1>6
<1> QED BY <1>1, <1>7 DEF Made, made, D

\* One more field of a dictionary
LEMMA SetChosen ==
    ASSUME NEW chosen \in Chosen, NEW f \in Pre!FieldsOf, NEW l \in Nat
    PROVE  /\ Pre!Set(chosen, f, l) \in Chosen
           /\ DOMAIN Pre!Set(chosen, f, l) = DOMAIN chosen \cup {f}
           /\ \A g \in DOMAIN Pre!Set(chosen, f, l) :
                Pre!Set(chosen, f, l)[g] = IF g = f THEN l ELSE chosen[g]
<1>1. PICK D \in SUBSET Pre!FieldsOf : chosen \in [D -> Nat]
  BY DEF Chosen
<1>2. Pre!Set(chosen, f, l) \in [D \cup {f} -> Nat] /\ D \cup {f} \in SUBSET Pre!FieldsOf
  BY <1>1 DEF Pre!Set
<1> QED BY <1>1, <1>2 DEF Chosen, Pre!Set

LEMMA ListAppended ==
    ASSUME prefetches \in Seq(Seq(Query) \ {<<>>}), NEW list \in Seq(Query) \ {<<>>}
    PROVE  /\ Append(prefetches, list) \in Seq(Seq(Query) \ {<<>>})
           /\ DOMAIN Append(prefetches, list) = DOMAIN prefetches \cup {Len(prefetches) + 1}
           /\ Len(prefetches) + 1 \in Nat
OBVIOUS

LEMMA ListReplaced ==
    ASSUME NEW S, NEW s \in Seq(S), NEW l \in DOMAIN s, NEW e \in S
    PROVE  [s EXCEPT ![l] = e] \in Seq(S) /\ DOMAIN [s EXCEPT ![l] = e] = DOMAIN s
<1>1. DOMAIN s = 1..Len(s)
  OBVIOUS
<1> QED BY <1>1, ExceptSeq

LEMMA QueryAppended ==
    ASSUME NEW list \in Seq(Query), NEW q \in Query
    PROVE  Append(list, q) \in Seq(Query) \ {<<>>}
BY AppendProperties

LEMMA ResolvedOK ==
    ASSUME Asked, NEW chosen \in Chosen, \A f \in DOMAIN chosen : chosen[f] \in DOMAIN prefetches,
           NEW f \in Pre!FieldsOf, NEW q \in Query
    PROVE  LET r == Pre!Resolved(chosen, f, q)
           IN  /\ r.queries \in Chosen /\ r.lists \in Seq(Seq(Query) \ {<<>>})
               /\ DOMAIN prefetches \subseteq DOMAIN r.lists
               /\ \A g \in DOMAIN r.queries : r.queries[g] \in DOMAIN r.lists
<1>0. prefetches \in Seq(Seq(Query) \ {<<>>})
  BY DEF Asked
<1>1. CASE f \in DOMAIN chosen
  <2> DEFINE list == Append(prefetches[chosen[f]], q)
             lists1 == [prefetches EXCEPT ![chosen[f]] = list]
  <2>1. Pre!Resolved(chosen, f, q) = [queries |-> chosen, lists |-> lists1]
    BY <1>1 DEF Pre!Resolved
  <2>2. list \in Seq(Query) \ {<<>>}
    <3>1. prefetches[chosen[f]] \in Seq(Query)
      BY <1>0, <1>1
    <3> QED BY <3>1, QueryAppended
  <2>3. lists1 \in Seq(Seq(Query) \ {<<>>}) /\ DOMAIN lists1 = DOMAIN prefetches
    <3> HIDE DEF list
    <3> QED BY <1>0, <1>1, <2>2, ListReplaced
  <2> HIDE DEF lists1
  <2> QED BY <2>1, <2>3
<1>2. CASE f \notin DOMAIN chosen
  <2>1. Pre!Resolved(chosen, f, q) =
            [queries |-> Pre!Set(chosen, f, Len(prefetches) + 1),
             lists |-> Append(prefetches, <<q>>)]
    BY <1>2 DEF Pre!Resolved
  <2>2. <<q>> \in Seq(Query) \ {<<>>}
    OBVIOUS
  <2>3. /\ Append(prefetches, <<q>>) \in Seq(Seq(Query) \ {<<>>})
        /\ DOMAIN Append(prefetches, <<q>>) = DOMAIN prefetches \cup {Len(prefetches) + 1}
        /\ Len(prefetches) + 1 \in Nat
    BY <1>0, <2>2, ListAppended
  <2>4. /\ Pre!Set(chosen, f, Len(prefetches) + 1) \in Chosen
        /\ \A g \in DOMAIN Pre!Set(chosen, f, Len(prefetches) + 1) :
            Pre!Set(chosen, f, Len(prefetches) + 1)[g]
                \in DOMAIN prefetches \cup {Len(prefetches) + 1}
    <3> DEFINE set == Pre!Set(chosen, f, Len(prefetches) + 1)
    <3> DEFINE next == Len(prefetches) + 1
    <3>0. next \in Nat
      BY <2>3
    <3> HIDE DEF next
    <3>1. /\ Pre!Set(chosen, f, next) \in Chosen
          /\ DOMAIN Pre!Set(chosen, f, next) = DOMAIN chosen \cup {f}
          /\ \A g \in DOMAIN Pre!Set(chosen, f, next) :
                Pre!Set(chosen, f, next)[g] = IF g = f THEN next ELSE chosen[g]
      <4>1. chosen \in Chosen /\ f \in Pre!FieldsOf
        OBVIOUS
      <4> QED BY ONLY <3>0, <4>1, SetChosen
    <3>2. /\ set \in Chosen /\ DOMAIN set = DOMAIN chosen \cup {f}
          /\ \A g \in DOMAIN set : set[g] = IF g = f THEN next ELSE chosen[g]
      BY <3>1, Zenon DEF next
    <3> HIDE DEF set
    <3>3. \A g \in DOMAIN set : set[g] \in DOMAIN prefetches \cup {Len(prefetches) + 1}
      BY <3>2 DEF Chosen, next
    <3> QED BY <3>2, <3>3 DEF set
  <2> QED BY <2>1, <2>3, <2>4
<1> QED BY <1>1, <1>2

LEMMA ElementOf ==
    ASSUME NEW S, NEW s \in Seq(S), NEW i \in DOMAIN s
    PROVE  s[i] \in S
OBVIOUS

LEMMA QuerysetOf ==
    ASSUME Asked, NEW i \in DOMAIN querysets
    PROVE  /\ querysets[i].map \in Maps /\ querysets[i].queries \in Chosen
           /\ \A f \in DOMAIN querysets[i].queries : querysets[i].queries[f] \in DOMAIN prefetches
<1>1. querysets[i] \in [map : Maps, queries : Chosen]
  BY ElementOf DEF Asked
<1> QED BY <1>1 DEF Asked

LEMMA AskStep ==
    ASSUME Asking, Asked, NEW i \in DOMAIN querysets, NEW ask \in Asks,
           Pre!prefetch_related(i, ask.relations, ask.prefetches)
    PROVE  Asked' /\ UNCHANGED <<batches, awaits>>
<1> DEFINE q == querysets[i]
           p == CHOOSE x \in ask.prefetches : TRUE
           new == IF ask.prefetches = {} THEN [queries |-> q.queries, lists |-> prefetches]
                  ELSE Pre!Resolved(q.queries, p.field, Pre!Query(p.attr, p.rows, {}))
           asked == [map |-> ask.relations, queries |-> new.queries]
<1>1. /\ querysets' = Append(querysets, asked) /\ prefetches' = new.lists
      /\ UNCHANGED <<batches, awaits>>
  BY DEF Pre!prefetch_related
<1>2. /\ q.queries \in Chosen /\ prefetches \in Seq(Seq(Query) \ {<<>>})
      /\ \A f \in DOMAIN q.queries : q.queries[f] \in DOMAIN prefetches
  BY QuerysetOf DEF Asked
<1>3. /\ new.queries \in Chosen /\ new.lists \in Seq(Seq(Query) \ {<<>>})
      /\ DOMAIN prefetches \subseteq DOMAIN new.lists
      /\ \A g \in DOMAIN new.queries : new.queries[g] \in DOMAIN new.lists
  <2>1. CASE ask.prefetches = {}
    BY <1>2, <2>1
  <2>2. CASE ask.prefetches # {}
    <3>1. p \in ask.prefetches
      BY <2>2
    <3>2. p.field \in Pre!FieldsOf /\ Pre!Query(p.attr, p.rows, {}) \in Query
      BY <3>1 DEF Asking, Pre!Query, Query, Nested
    <3> HIDE DEF p, q
    <3> QED BY <1>2, <2>2, <3>2, ResolvedOK
  <2> QED BY <2>1, <2>2
<1> HIDE DEF new
<1>4. asked \in [map : Maps, queries : Chosen] /\ asked.queries = new.queries
  BY <1>3 DEF Asking
<1> HIDE DEF asked
<1>5. /\ querysets' \in Seq([map : Maps, queries : Chosen])
      /\ \A j \in DOMAIN querysets' :
            querysets'[j] = asked \/ (j \in DOMAIN querysets /\ querysets'[j] = querysets[j])
  BY <1>1, <1>4 DEF Asked
<1>6. ASSUME NEW j \in DOMAIN querysets'
      PROVE  \A f \in DOMAIN querysets'[j].queries : querysets'[j].queries[f] \in DOMAIN prefetches'
  <2>1. CASE querysets'[j] = asked
    BY <1>1, <1>3, <1>4, <2>1
  <2>2. CASE j \in DOMAIN querysets /\ querysets'[j] = querysets[j]
    BY <1>1, <1>3, <2>2 DEF Asked
  <2> QED BY <1>5, <2>1, <2>2
<1> QED BY <1>1, <1>3, <1>5, <1>6 DEF Asked

\* Before the queries are answered: None where there is no key
Empties(batch, on, made, k) == k \in on /\ Pre!Direct \in DOMAIN made /\ batch[k].boss_id = {}

LEMMA StartedOK ==
    ASSUME Asking, NEW batch \in Batch, NEW on, NEW made
    PROVE  /\ Pre!Started(batch, on, made) \in Batch
           /\ \A k \in Pre!Keys :
                LET x == Pre!Started(batch, on, made)[k]
                    empty == Empties(batch, on, made, k)
                IN  /\ x.boss_id = batch[k].boss_id /\ x.attr = batch[k].attr
                    /\ empty \/ x.behind = batch[k].behind
                    /\ \A f \in Pre!FieldsOf :
                         x.value[f] = IF empty /\ f = Pre!Direct
                                      THEN Pre!Value({}, {}) ELSE batch[k].value[f]
<1> DEFINE none == Pre!Value({}, {})
           start(k) == IF Empties(batch, on, made, k)
                       THEN Pre!_fk_setter(batch[k], none) ELSE batch[k]
<1>1. Pre!Started(batch, on, made) = [k \in Pre!Keys |-> start(k)]
  BY DEF Pre!Started, Empties
<1>2. none \in Values /\ none.rows = {}
  BY ValueTyped DEF Nested
<1> HIDE DEF none
<1>3. ASSUME NEW k \in Pre!Keys
      PROVE  /\ start(k) \in LoadedInstance
             /\ start(k).boss_id = batch[k].boss_id /\ start(k).attr = batch[k].attr
             /\ Empties(batch, on, made, k) \/ start(k).behind = batch[k].behind
             /\ \A f \in Pre!FieldsOf :
                  start(k).value[f] = IF Empties(batch, on, made, k) /\ f = Pre!Direct
                                      THEN none ELSE batch[k].value[f]
  <2> DEFINE x == batch[k]
             empty == Empties(batch, on, made, k)
  <2>1. x \in LoadedInstance /\ (empty => x.boss_id = {})
    BY DEF Batch, Empties
  <2>2. start(k) = IF empty THEN [x EXCEPT !.value[Pre!Direct] = none, !.boss_id = none.rows,
                                           !.behind = FALSE]
                   ELSE x
    BY DEF Pre!_fk_setter
  <2> HIDE DEF x, empty, start
  <2>3. /\ start(k) \in LoadedInstance
        /\ start(k).boss_id = x.boss_id /\ start(k).attr = x.attr
        /\ empty \/ start(k).behind = x.behind
        /\ \A f \in Pre!FieldsOf :
             start(k).value[f] = IF empty /\ f = Pre!Direct THEN none ELSE x.value[f]
    <3>1. CASE empty
      <4> DEFINE y == [x EXCEPT !.value[Pre!Direct] = none, !.boss_id = none.rows,
                                !.behind = FALSE]
      <4>1. /\ y \in LoadedInstance /\ y.boss_id = none.rows /\ y.attr = x.attr
            /\ \A f \in Pre!FieldsOf :
                 y.value[f] = IF f = Pre!Direct THEN none ELSE x.value[f]
        BY <1>2, <2>1 DEF LoadedInstance, Asking
      <4>2. start(k) = y
        BY <2>2, <3>1
      <4> HIDE DEF y
      <4> QED BY <1>2, <2>1, <3>1, <4>1, <4>2
    <3>2. CASE ~empty
      BY <2>1, <2>2, <3>2
    <3> QED BY <3>1, <3>2
  <2> QED BY <2>3 DEF x, empty
<1> HIDE DEF start
<1> QED BY <1>1, <1>3 DEF Batch, none

LEMMA LoadedBatch ==
    ASSUME Asking
    PROVE  /\ Pre!Loaded \in Batch
           /\ \A k \in Pre!Keys : /\ Pre!Loaded[k].boss_id = RelatedOf[Pre!Direct][k]
                                  /\ \A f \in Pre!FieldsOf : ~Pre!Loaded[k].value[f].set
                                  /\ \A a \in Pre!Attrs : ~Pre!Loaded[k].attr[a].set
<1>1. Pre!NotFetched \in Values /\ ~Pre!NotFetched.set
  BY DEF Pre!NotFetched, Values, Nested
<1>2. \A k \in Pre!Keys : RelatedOf[Pre!Direct][k] \subseteq Pre!Rows
  BY RelatedRows DEF Asking
<1> QED BY <1>1, <1>2 DEF Pre!Loaded, Batch, LoadedInstance

Most == MaxPrefetches + MaxAwaits

\* A query of the field was answered, or there was no key to ask for.
Served(call, f) ==
    \E n \in DOMAIN call.made[f] :
        n <= Most /\ \A t \in call.tasks : ~(t.field = f /\ t.n = n)

QueriesOf(call, f) == {call.made[f][n] : n \in DOMAIN call.made[f]}
OneBoss(call) ==
    Pre!Direct \in DOMAIN call.made =>
        \A q, r \in QueriesOf(call, Pre!Direct) : q.rows = r.rows

\* What the instance x of key k was given by the call, as far as it got
ValueExact(call, k, x, f) == \E q \in QueriesOf(call, f) : x.value[f] = Pre!Result(f, k, q)
AttrExact(call, k, x, a) ==
    x.attr[a].set => \E f \in DOMAIN call.made : \E q \in QueriesOf(call, f) :
                        q.attr = a /\ x.attr[a] = Pre!Result(f, k, q)
\* The column of the foreign key is that of the row, or what a query left of it.
BossExact(call, k, x) ==
    Pre!Direct \in DOMAIN call.made =>
        /\ \A q \in QueriesOf(call, Pre!Direct) :
             x.boss_id \in {RelatedOf[Pre!Direct][k], RelatedOf[Pre!Direct][k] \cap q.rows}
        /\ \A t \in call.tasks : t.field = Pre!Direct => RelatedOf[Pre!Direct][k] \subseteq t.keys

ExactFor(call, k, x) ==
    /\ \A f \in DOMAIN call.made :
        Served(call, f) /\ (f = Pre!Direct => OneBoss(call)) => ValueExact(call, k, x, f)
    /\ OneBoss(call) => BossExact(call, k, x) /\ \A a \in Pre!Attrs : AttrExact(call, k, x, a)

\* Whatever was fetched or assigned, a foreign key is the one of its column, unless that
\* was assigned itself since; other relations are of their instance, as far as x has them.
BossKept(x) ==
    x.value[Pre!Direct].set /\ ~x.behind => x.value[Pre!Direct].rows = x.boss_id
OthersKept(x, k) ==
    \A f \in Pre!FieldsOf \ {Pre!Direct} : x.value[f].set => x.value[f].rows = RelatedOf[f][k]

Exact ==
    /\ \A b \in DOMAIN batches : \A k \in Pre!Keys : BossKept(batches[b][k])
    /\ \A k \in Pre!Keys : OthersKept(batches[1][k], k)
    /\ \A c \in DOMAIN awaits : awaits[c].batch # 1 /\ ~awaits[c].failed =>
        \A k \in Pre!Keys : ExactFor(awaits[c], k, batches[awaits[c].batch][k])

PrefetchInv == Asked /\ Called /\ Exact

LEMMA MadeOf ==
    ASSUME NEW made \in Made, NEW f \in DOMAIN made
    PROVE  /\ f \in Pre!FieldsOf /\ made[f] \in Seq(Query) /\ made[f] # <<>>
           /\ \A n \in DOMAIN made[f] : made[f][n] \in Query
           /\ DOMAIN made[f] = 1..Len(made[f]) /\ Len(made[f]) \in Nat
<1>1. PICK D \in SUBSET Pre!FieldsOf : made \in [D -> Seq(Query) \ {<<>>}]
  BY DEF Made
<1>2. f \in Pre!FieldsOf /\ made[f] \in Seq(Query) /\ made[f] # <<>>
  BY <1>1
<1> QED BY <1>2

\* The tasks of a new call
NewTasks(batch, on, made) ==
    {t \in Pre!Tasks(batch, on, made) : t.n <= Len(made[t.field]) /\ t.keys # {}}
KeysOf(batch, on, f) == IF f = Pre!Direct THEN UNION {batch[k].boss_id : k \in on} ELSE on

LEMMA NewTasksOK ==
    ASSUME Asking, NEW batch \in Batch, NEW on \in SUBSET Pre!Keys, NEW made \in Made
    PROVE  /\ NewTasks(batch, on, made) \in SUBSET Task
           /\ \A t \in NewTasks(batch, on, made) :
                /\ t.field \in DOMAIN made /\ t.n \in 1..Len(made[t.field])
                /\ t.keys = KeysOf(batch, on, t.field)
           /\ \A f \in DOMAIN made, n \in 1..Most :
                n <= Len(made[f]) /\ KeysOf(batch, on, f) # {} =>
                    \E t \in NewTasks(batch, on, made) : t.field = f /\ t.n = n
<1> DEFINE task(f, n) == [field |-> f, n |-> n, keys |-> KeysOf(batch, on, f)]
<1>1. Pre!Tasks(batch, on, made) = {task(f, n) : f \in DOMAIN made, n \in 1..Most}
  BY DEF Pre!Tasks, KeysOf, Most
<1>2. Most \in Nat
  BY DEF Most, Asking
<1>3. \A f \in DOMAIN made : KeysOf(batch, on, f) \in SUBSET (Pre!Rows \cup Pre!Keys)
  BY DEF KeysOf, Batch, LoadedInstance
<1>4. ASSUME NEW f \in DOMAIN made, NEW n \in 1..Most
      PROVE  /\ task(f, n) \in Task /\ task(f, n).field = f /\ task(f, n).n = n
             /\ task(f, n).keys = KeysOf(batch, on, f)
  <2>1. f \in Pre!FieldsOf /\ n \in Nat
    BY <1>2, MadeOf
  <2> QED BY <1>3, <2>1 DEF Task
<1> HIDE DEF task
<1>5. ASSUME NEW t \in NewTasks(batch, on, made)
      PROVE  /\ t \in Task /\ t.field \in DOMAIN made /\ t.n \in 1..Len(made[t.field])
             /\ t.keys = KeysOf(batch, on, t.field)
  <2>1. PICK f \in DOMAIN made, n \in 1..Most : t = task(f, n) /\ n <= Len(made[f])
    <3>1. PICK f \in DOMAIN made, n \in 1..Most : t = task(f, n)
      BY <1>1 DEF NewTasks
    <3>2. t.field = f /\ t.n = n /\ t.n <= Len(made[t.field])
      BY <1>4, <3>1 DEF NewTasks
    <3> QED BY <3>1, <3>2
  <2>2. n \in 1..Len(made[f])
    BY <1>2, <2>1, MadeOf
  <2> QED BY <1>4, <2>1, <2>2
<1>6. ASSUME NEW f \in DOMAIN made, NEW n \in 1..Most, n <= Len(made[f]),
             KeysOf(batch, on, f) # {}
      PROVE  \E t \in NewTasks(batch, on, made) : t.field = f /\ t.n = n
  <2>1. task(f, n) \in NewTasks(batch, on, made)
    BY <1>1, <1>4, <1>6 DEF NewTasks
  <2> QED BY <1>4, <2>1
<1> QED BY <1>5, <1>6

LEMMA NewTaskKeys ==
    ASSUME NEW batch, NEW on, NEW made, NEW t \in NewTasks(batch, on, made)
    PROVE  t.keys = KeysOf(batch, on, t.field)
<1>1. PICK f \in DOMAIN made, n \in 1..Most :
        t = [field |-> f, n |-> n, keys |-> KeysOf(batch, on, f)]
  BY DEF NewTasks, Pre!Tasks, KeysOf, Most
<1> QED BY <1>1

\* The first list of a call: nothing is served yet but the foreign keys that are all None.
LEMMA NewExact ==
    ASSUME Asking, NEW made \in Made, NEW call, call.made = made,
           call.tasks = NewTasks(Pre!Loaded, Pre!Keys, made), NEW k \in Pre!Keys
    PROVE  ExactFor(call, k, Pre!Started(Pre!Loaded, Pre!Keys, made)[k])
<1> DEFINE x == Pre!Started(Pre!Loaded, Pre!Keys, made)[k]
           keys(f) == KeysOf(Pre!Loaded, Pre!Keys, f)
<1>1. /\ x.boss_id = RelatedOf[Pre!Direct][k] /\ x.attr = Pre!Loaded[k].attr
      /\ \A f \in Pre!FieldsOf :
           Pre!Direct \in DOMAIN made /\ RelatedOf[Pre!Direct][k] = {} /\ f = Pre!Direct
             => x.value[f] = Pre!Value({}, {})
  <2> DEFINE l == Pre!Loaded
  <2>1. l \in Batch /\ l[k].boss_id = RelatedOf[Pre!Direct][k]
    BY LoadedBatch
  <2>2. RelatedOf[Pre!Direct][k] = {} /\ Pre!Direct \in DOMAIN made =>
            Empties(l, Pre!Keys, made, k)
    BY <2>1 DEF Empties
  <2> HIDE DEF l
  <2> QED BY <2>1, <2>2, StartedOK DEF l
<1>2. RelatedOf[Pre!Direct][k] \subseteq keys(Pre!Direct) /\ k \in Pre!Keys
  BY LoadedBatch DEF KeysOf
<1> HIDE DEF x, keys
<1>3. ASSUME NEW f \in DOMAIN made, Served(call, f)
      PROVE  ValueExact(call, k, x, f)
  <2>1. PICK n \in DOMAIN made[f] : n <= Most /\ \A t \in call.tasks : ~(t.field = f /\ t.n = n)
    BY <1>3 DEF Served
  <2>2. n \in 1..Len(made[f]) /\ n \in 1..Most /\ n <= Len(made[f])
    BY <2>1, MadeOf DEF Most, Asking
  <2>3. keys(f) = {}
    BY <2>1, <2>2, NewTasksOK, LoadedBatch DEF keys
  <2>4. f = Pre!Direct /\ RelatedOf[Pre!Direct][k] = {}
    BY <1>2, <2>3 DEF keys, KeysOf
  <2>5. x.value[f] = Pre!Value({}, {})
    BY <1>1, <2>4, MadeOf
  <2>6. made[f][n] \in Query
    BY <2>1, MadeOf
  <2>7. Pre!Result(f, k, made[f][n]) = Pre!Value({}, {})
    BY <2>4 DEF Pre!Result, Pre!Value
  <2> QED BY <2>1, <2>5, <2>7 DEF ValueExact, QueriesOf
<1>4. BossExact(call, k, x)
  <2>1. \A t \in call.tasks : t.field = Pre!Direct => RelatedOf[Pre!Direct][k] \subseteq t.keys
    <3>1. \A t \in call.tasks : t.keys = keys(t.field)
      BY NewTaskKeys DEF keys
    <3> QED BY <1>2, <3>1
  <2> QED BY <1>1, <2>1 DEF BossExact
<1>5. \A a \in Pre!Attrs : AttrExact(call, k, x, a)
  BY <1>1, LoadedBatch DEF AttrExact
<1> QED BY <1>3, <1>4, <1>5 DEF ExactFor, x

LEMMA StartedBossKept ==
    ASSUME Asking, NEW batch \in Batch, NEW on, NEW made, NEW k \in Pre!Keys, BossKept(batch[k])
    PROVE  BossKept(Pre!Started(batch, on, made)[k])
<1>1. Pre!Value({}, {}).rows = {}
  BY DEF Pre!Value
<1> DEFINE x == Pre!Started(batch, on, made)[k]
<1>2. /\ x.boss_id = batch[k].boss_id
      /\ \/ x.value[Pre!Direct] = batch[k].value[Pre!Direct] /\ x.behind = batch[k].behind
         \/ x.value[Pre!Direct] = Pre!Value({}, {}) /\ batch[k].boss_id = {}
  <2>1. Pre!Direct \in Pre!FieldsOf
    BY DEF Asking
  <2> DEFINE empty == Empties(batch, on, made, k)
             none == Pre!Value({}, {})
  <2>2. empty => batch[k].boss_id = {}
    BY DEF Empties
  <2>3. /\ x.boss_id = batch[k].boss_id
        /\ empty \/ x.behind = batch[k].behind
        /\ \A f \in Pre!FieldsOf :
              x.value[f] = IF empty /\ f = Pre!Direct THEN none ELSE batch[k].value[f]
    BY StartedOK
  <2> HIDE DEF empty, none, x
  <2> QED BY <2>1, <2>2, <2>3 DEF none
<1> HIDE DEF x
<1>3. BossKept(x)
  BY <1>1, <1>2 DEF BossKept
<1> QED BY <1>3 DEF x

LEMMA CallStep ==
    ASSUME Asking, Called, Exact, NEW b, NEW batch \in Batch, NEW on \in SUBSET Pre!Keys,
           NEW made \in Made, Pre!NewCall(b, batch, on, made),
           \/ /\ b = Len(batches) + 1 /\ batch = Pre!Loaded /\ on = Pre!Keys
              /\ batches' = Append(batches, Pre!Started(batch, on, made))
           \/ /\ b = 1 /\ batch = batches[1] /\ Whole(made)
              /\ batches' = [batches EXCEPT ![1] = Pre!Started(batch, on, made)]
    PROVE  Called' /\ Exact'
<1> DEFINE call == [batch |-> b, on |-> on, made |-> made, failed |-> FALSE,
                    tasks |-> NewTasks(batch, on, made)]
           started == Pre!Started(batch, on, made)
<1>1. awaits' = Append(awaits, call) /\ Len(awaits) < MaxAwaits
  BY DEF Pre!NewCall, NewTasks
<1>2. started \in Batch
  BY StartedOK
<1>3. /\ \A k \in Pre!Keys : BossKept(batch[k])
      /\ \A k \in Pre!Keys : BossKept(started[k])
  <2>1. ASSUME NEW k \in Pre!Keys
        PROVE  BossKept(batch[k])
    <3>1. batches # <<>> /\ batches \in Seq(Batch)
      BY DEF Called
    <3>2. 1 \in DOMAIN batches
      BY <3>1
    <3>3. CASE batch = Pre!Loaded
      BY <3>3, LoadedBatch DEF BossKept, Asking
    <3>4. CASE batch = batches[1]
      BY <3>2, <3>4 DEF Exact
    <3> QED BY <3>3, <3>4
  <2> QED BY <2>1, StartedBossKept
<1>4. b \in Nat /\ call \in Call /\ CallOK(call) /\ call.batch = b /\ ~call.failed
  <2>1. b \in Nat
    BY DEF Called
  <2>2. NewTasks(batch, on, made) \in SUBSET Task
    BY NewTasksOK
  <2>3. call \in Call
    BY <2>1, <2>2 DEF Call
  <2>4. (b # 1 => on = Pre!Keys) /\ (b = 1 => Whole(made))
    <3>1. Len(batches) + 1 # 1
      BY DEF Called
    <3> QED BY <3>1
  <2>5. CallOK(call)
    BY <2>4, NewTasksOK DEF CallOK
  <2> QED BY <2>1, <2>3, <2>5
<1>5. /\ batches' \in Seq(Batch) /\ batches' # <<>> /\ b \in DOMAIN batches'
      /\ batches'[b] = started
      /\ \A c \in DOMAIN batches : c \in DOMAIN batches' /\ (c # b => batches'[c] = batches[c])
      /\ \A c \in DOMAIN batches' : c = b \/ (c \in DOMAIN batches /\ batches'[c] = batches[c])
  <2>1. batches \in Seq(Batch) /\ batches # <<>>
    BY DEF Called
  <2> HIDE DEF started
  <2> QED BY <1>2, <2>1 DEF started
<1>6. \A c \in DOMAIN awaits : awaits[c].batch \in DOMAIN batches
  BY DEF Called
<1>7. \A c \in DOMAIN awaits : awaits[c].batch # b \/ awaits[c].batch = 1
  <2>1. CASE b = 1
    BY <2>1
  <2>2. CASE b = Len(batches) + 1
    <3>1. b \notin DOMAIN batches
      BY <2>2 DEF Called
    <3> QED BY <1>6, <3>1
  <2> QED BY <2>1, <2>2
<1> HIDE DEF started
<1>8. /\ awaits' \in Seq(Call) /\ Len(awaits') = Len(awaits) + 1
      /\ awaits'[Len(awaits) + 1] = call
      /\ \A c \in DOMAIN awaits : c \in DOMAIN awaits' /\ awaits'[c] = awaits[c]
      /\ \A c \in DOMAIN awaits' : c = Len(awaits) + 1 \/ c \in DOMAIN awaits
      /\ Len(awaits) \in Nat
  <2> HIDE DEF call
  <2> QED BY <1>1, <1>4 DEF Called
<1>9. Called'
  <2>1. \A c \in DOMAIN awaits' : awaits'[c].batch \in DOMAIN batches' /\ CallOK(awaits'[c])
    <3> HIDE DEF call
    <3> QED BY <1>4, <1>5, <1>8 DEF Called
  <2>2. \A c, d \in DOMAIN awaits' :
            c # d => awaits'[c].batch # awaits'[d].batch \/ awaits'[c].batch = 1
    <3> HIDE DEF call
    <3> QED BY <1>4, <1>7, <1>8 DEF Called
  <2>3. Len(awaits') <= MaxAwaits
    BY <1>1, <1>8 DEF Asking
  <2> QED BY <1>5, <1>8, <2>1, <2>2, <2>3 DEF Called
<1>10. Exact'
  <2>1. \A c \in DOMAIN batches' : \A k \in Pre!Keys : BossKept(batches'[c][k])
    BY <1>3, <1>5 DEF Exact
  <2>2. ASSUME NEW c \in DOMAIN awaits', awaits'[c].batch # 1, ~awaits'[c].failed,
               NEW k \in Pre!Keys
        PROVE  ExactFor(awaits'[c], k, batches'[awaits'[c].batch][k])
    <3>1. CASE c \in DOMAIN awaits
      <4>1. batches'[awaits[c].batch] = batches[awaits[c].batch] /\ awaits'[c] = awaits[c]
        BY <1>5, <1>6, <1>7, <1>8, <2>2, <3>1
      <4> QED BY <2>2, <3>1, <4>1 DEF Exact
    <3>2. CASE c = Len(awaits) + 1
      <4>1. awaits'[c] = call /\ b # 1 /\ batches'[b] = started
        BY <1>4, <1>5, <1>8, <2>2, <3>2
      <4>2. batch = Pre!Loaded /\ on = Pre!Keys
        BY <4>1
      <4>3. call.made = made /\ call.tasks = NewTasks(Pre!Loaded, Pre!Keys, made)
        BY <4>2
      <4> HIDE DEF call
      <4>4. ExactFor(call, k, Pre!Started(Pre!Loaded, Pre!Keys, made)[k])
        BY <4>3, NewExact
      <4> QED BY <1>4, <4>1, <4>2, <4>4 DEF started
    <3> QED BY <1>8, <3>1, <3>2
  <2>3. ASSUME NEW k \in Pre!Keys
        PROVE  OthersKept(batches'[1][k], k)
    <3>1. OthersKept(batches[1][k], k) /\ 1 \in DOMAIN batches
      BY DEF Exact, Called
    <3>2. CASE b = 1
      <4>1. batch = batches[1] /\ batches'[1] = started
        <5>1. Len(batches) + 1 # 1
          BY DEF Called
        <5> QED BY <1>5, <3>2, <5>1
      <4>2. \A f \in Pre!FieldsOf \ {Pre!Direct} : started[k].value[f] = batch[k].value[f]
        <5> DEFINE x == Pre!Started(batch, on, made)[k]
                   empty == Empties(batch, on, made, k)
                   none == Pre!Value({}, {})
        <5>1. \A f \in Pre!FieldsOf :
                x.value[f] = IF empty /\ f = Pre!Direct THEN none ELSE batch[k].value[f]
          BY StartedOK
        <5> HIDE DEF empty, none
        <5> QED BY <5>1 DEF started
      <4> QED BY <3>1, <4>1, <4>2 DEF OthersKept
    <3>3. CASE b # 1
      BY <1>5, <3>1, <3>3
    <3> QED BY <3>2, <3>3
  <2> QED BY <2>1, <2>2, <2>3 DEF Exact
<1> QED BY <1>9, <1>10

LEMMA SameCardinality == \A S : Pre!Cardinality(S) = Cardinality(S)
BY DEF Pre!Cardinality, Cardinality

\* Awaiting a queryset changes its dictionary, or lists that it shares with its clones.
LEMMA SelectAsked ==
    ASSUME Asking, Asked, NEW i \in DOMAIN querysets, Pre!execute_select(i)
    PROVE  Asked'
<1> DEFINE q == querysets[i]
           made == Pre!_make_prefetch_queries(q.map, q.queries)
           new == DOMAIN q.map \ DOMAIN q.queries
<1>1. /\ q.map \in Maps /\ q.queries \in Chosen
      /\ \A f \in DOMAIN q.queries : q.queries[f] \in DOMAIN prefetches
  BY QuerysetOf
<1>2. /\ made \in Made /\ DOMAIN made = DOMAIN q.map \cup DOMAIN q.queries
  BY <1>1, MadeOK
<1> DEFINE added == (Len(prefetches) + 1)..(Len(prefetches) + Pre!Cardinality(new))
           list(at) == [f \in DOMAIN made |-> IF f \in new THEN at[f] ELSE q.queries[f]]
<1>3. \/ UNCHANGED <<querysets, prefetches>>
      \/ \E at \in [new -> added] :
            /\ \A l \in added : \E f \in new : at[f] = l
            /\ prefetches' = [l \in DOMAIN prefetches \cup added |->
                                IF \E f \in DOMAIN q.map : list(at)[f] = l
                                THEN made[CHOOSE f \in DOMAIN q.map : list(at)[f] = l]
                                ELSE prefetches[l]]
            /\ querysets' = [querysets EXCEPT ![i].queries = list(at)]
  BY DEF Pre!execute_select
<1>4. CASE UNCHANGED <<querysets, prefetches>>
  BY <1>4 DEF Asked
<1>5. CASE ~UNCHANGED <<querysets, prefetches>>
  <2>1. PICK at \in [new -> added] :
            /\ \A l \in added : \E f \in new : at[f] = l
            /\ prefetches' = [l \in DOMAIN prefetches \cup added |->
                                IF \E f \in DOMAIN q.map : list(at)[f] = l
                                THEN made[CHOOSE f \in DOMAIN q.map : list(at)[f] = l]
                                ELSE prefetches[l]]
            /\ querysets' = [querysets EXCEPT ![i].queries = list(at)]
    BY <1>3, <1>5
  <2> DEFINE m == Len(prefetches)
             n == Pre!Cardinality(new)
             chosen == list(at)
             S == Seq(Query) \ {<<>>}
             asked == [q EXCEPT !.queries = chosen]
  <2>2. /\ prefetches \in Seq(S) /\ m \in Nat /\ DOMAIN prefetches = 1..m
        /\ querysets \in Seq([map : Maps, queries : Chosen])
    BY DEF Asked
  <2>3. /\ DOMAIN q.map \in SUBSET Pre!FieldsOf /\ DOMAIN q.queries \in SUBSET Pre!FieldsOf
        /\ \A f \in DOMAIN q.queries : q.queries[f] \in Nat
    BY <1>1 DEF Maps, Chosen
  <2>4. n \in Nat
    <3>1. IsFiniteSet(new)
      BY <2>3, FS_Subset DEF Asking
    <3> QED BY <3>1, FS_CardinalityType, SameCardinality
  <2>5. DOMAIN prefetches \cup added = 1..(m + n) /\ added \subseteq Nat /\ m + n \in Nat
    BY <2>2, <2>4
  <2>6. \A f \in DOMAIN q.map : made[f] \in S
    BY <1>2, MadeOf
  <2> HIDE DEF m, n, S, made
  <2>7. /\ chosen \in Chosen /\ \A g \in DOMAIN chosen : chosen[g] \in 1..(m + n)
        /\ \A f \in new : chosen[f] = at[f]
    <3>1. /\ chosen = [f \in DOMAIN q.map \cup DOMAIN q.queries |->
                        IF f \in new THEN at[f] ELSE q.queries[f]]
      BY <1>2
    <3>2. \A f \in new : at[f] \in added
      BY <2>1
    <3>3. \A f \in DOMAIN q.queries : q.queries[f] \in DOMAIN prefetches
      BY <1>1
    <3> HIDE DEF chosen, added
    <3>4. ASSUME NEW f \in DOMAIN q.map \cup DOMAIN q.queries
          PROVE  /\ chosen[f] \in 1..(m + n) /\ chosen[f] \in Nat
                 /\ f \in new => chosen[f] = at[f]
      BY <2>3, <2>5, <3>1, <3>2, <3>3
    <3>5. DOMAIN q.map \cup DOMAIN q.queries \in SUBSET Pre!FieldsOf
      BY <2>3
    <3>6. chosen \in [DOMAIN q.map \cup DOMAIN q.queries -> Nat]
      BY <3>1, <3>4
    <3> QED BY <3>1, <3>4, <3>5, <3>6 DEF Chosen
  <2>8. /\ prefetches' = [l \in 1..(m + n) |-> IF \E f \in DOMAIN q.map : chosen[f] = l
                                              THEN made[CHOOSE f \in DOMAIN q.map : chosen[f] = l]
                                              ELSE prefetches[l]]
        /\ querysets' = [querysets EXCEPT ![i] = asked]
    BY <2>1, <2>5
  <2>9. \A l \in added : \E f \in DOMAIN q.map : chosen[f] = l
    <3>1. \A l \in added : \E f \in new : at[f] = l
      BY <2>1
    <3> HIDE DEF chosen, added
    <3> QED BY <2>7, <3>1
  <2> HIDE DEF chosen
  <2>10. ASSUME NEW l \in 1..(m + n)
         PROVE  prefetches'[l] \in S
    <3>1. CASE \E f \in DOMAIN q.map : chosen[f] = l
      <4> DEFINE f == CHOOSE f \in DOMAIN q.map : chosen[f] = l
      <4>1. f \in DOMAIN q.map
        BY <3>1
      <4>2. prefetches'[l] = made[f]
        BY <2>8, <3>1
      <4> QED BY <2>6, <4>1, <4>2
    <3>2. CASE ~\E f \in DOMAIN q.map : chosen[f] = l
      <4>1. prefetches'[l] = prefetches[l]
        BY <2>8, <3>2
      <4>2. l \in DOMAIN prefetches
        BY <2>5, <2>9, <3>2
      <4> QED BY <2>2, <4>1, <4>2, ElementOf
    <3> QED BY <3>1, <3>2
  <2>11. prefetches' \in Seq(S) /\ DOMAIN prefetches' = 1..(m + n)
    <3>1. prefetches' = [l \in 1..(m + n) |-> prefetches'[l]]
      BY <2>8
    <3>2. prefetches' \in [1..(m + n) -> S]
      BY <2>10, <3>1
    <3> QED BY <2>5, <3>1, <3>2
  <2>12. asked \in [map : Maps, queries : Chosen] /\ asked.queries = chosen
    <3>1. q \in [map : Maps, queries : Chosen]
      BY <2>2, ElementOf
    <3> HIDE DEF q
    <3> QED BY <2>7, <3>1
  <2> HIDE DEF asked
  <2>13. /\ querysets' \in Seq([map : Maps, queries : Chosen])
         /\ DOMAIN querysets' = DOMAIN querysets
         /\ \A j \in DOMAIN querysets : querysets'[j] = IF j = i THEN asked ELSE querysets[j]
    BY <2>2, <2>8, <2>12, ListReplaced
  <2>14. DOMAIN prefetches \subseteq 1..(m + n)
    BY <2>5
  <2>15. ASSUME NEW j \in DOMAIN querysets', NEW g \in DOMAIN querysets'[j].queries
         PROVE  querysets'[j].queries[g] \in DOMAIN prefetches'
    BY <2>7, <2>11, <2>12, <2>13, <2>14, <2>15, QuerysetOf
  <2> QED BY <2>11, <2>13, <2>15 DEF Asked, S
<1> QED BY <1>4, <1>5

LEMMA SelectStep ==
    ASSUME Asking, PrefetchInv, NEW i \in DOMAIN querysets, Pre!execute_select(i)
    PROVE  PrefetchInv'
<1> DEFINE q == querysets[i]
           made == Pre!_make_prefetch_queries(q.map, q.queries)
<1>1. Asked /\ Called /\ Exact
  BY DEF PrefetchInv
<1>2. made \in Made
  BY <1>1, MadeOK, QuerysetOf
<1>3. /\ Pre!NewCall(Len(batches) + 1, Pre!Loaded, Pre!Keys, made)
      /\ batches' = Append(batches, Pre!Started(Pre!Loaded, Pre!Keys, made))
  BY DEF Pre!execute_select
<1> HIDE DEF made
<1>4. Pre!Loaded \in Batch /\ Pre!Keys \in SUBSET Pre!Keys
  BY LoadedBatch
<1>5. Called' /\ Exact'
  BY <1>1, <1>2, <1>3, <1>4, CallStep
<1>6. Asked'
  BY <1>1, SelectAsked
<1> QED BY <1>5, <1>6 DEF PrefetchInv

LEMMA FetchStep ==
    ASSUME Asking, PrefetchInv, NEW on \in SUBSET Pre!Keys, NEW map \in Maps,
           Pre!fetch_for_list(on, map)
    PROVE  PrefetchInv'
<1> DEFINE made == Pre!_make_prefetch_queries(map, <<>>)
<1>1. Asked /\ Called /\ Exact
  BY DEF PrefetchInv
<1>2. made \in Made
  <2> DEFINE none == [f \in {} |-> 0]
  <2>1. none \in [{} -> Nat] /\ DOMAIN none = {} /\ none = <<>>
    OBVIOUS
  <2>2. none \in Chosen
    BY <2>1 DEF Chosen
  <2> HIDE DEF none
  <2> QED BY <1>1, <2>1, <2>2, MadeOK
<1>7. Whole(made)
  <2>1. \A f \in DOMAIN made : made[f] = Pre!Made(<<>>, map[f])
    BY DEF Pre!_make_prefetch_queries
  <2>2. ASSUME NEW nested
        PROVE  \A n \in DOMAIN Pre!Made(<<>>, nested) :
                 Pre!Made(<<>>, nested)[n].rows = Pre!Rows
    BY DEF Pre!Made, Pre!Plain, Pre!Query
  <2> HIDE DEF made
  <2> QED BY <2>1, <2>2 DEF Whole
<1>3. /\ Pre!NewCall(1, batches[1], on, made)
      /\ batches' = [batches EXCEPT ![1] = Pre!Started(batches[1], on, made)]
      /\ UNCHANGED <<querysets, prefetches>>
  BY DEF Pre!fetch_for_list
<1> HIDE DEF made
<1>4. batches[1] \in Batch
  <2>1. batches \in Seq(Batch) /\ batches # <<>>
    BY <1>1 DEF Called
  <2> QED BY <2>1
<1>5. Called' /\ Exact'
  BY <1>1, <1>2, <1>3, <1>4, <1>7, CallStep
<1> QED BY <1>1, <1>3, <1>5 DEF PrefetchInv, Asked

LEMMA PrefetchInit ==
    ASSUME Asking, Pre!Init
    PROVE  PrefetchInv
<1> DEFINE none == [map |-> <<>>, queries |-> <<>>]
<1>1. querysets = <<none>> /\ prefetches = <<>> /\ batches = <<Pre!Loaded>> /\ awaits = <<>>
  BY DEF Pre!Init
<1>2. <<>> \in Maps /\ <<>> \in Chosen /\ none.queries = <<>>
  <2>1. [f \in {} |-> {}] \in [{} -> Nested] /\ [f \in {} |-> 0] \in [{} -> Nat]
    OBVIOUS
  <2>2. [f \in {} |-> {}] = <<>> /\ [f \in {} |-> 0] = <<>>
    OBVIOUS
  <2>3. [f \in {} |-> {}] \in Maps /\ [f \in {} |-> 0] \in Chosen
    BY <2>1 DEF Maps, Chosen
  <2> QED BY <2>2, <2>3
<1>3. Asked
  <2>1. none \in [map : Maps, queries : Chosen]
    BY <1>2
  <2>2. \A f \in DOMAIN none.queries : none.queries[f] \in DOMAIN prefetches
    BY <1>2
  <2> HIDE DEF none
  <2>3. querysets \in Seq([map : Maps, queries : Chosen])
        /\ \A i \in DOMAIN querysets : querysets[i] = none
    BY <1>1, <2>1
  <2> QED BY <1>1, <2>2, <2>3 DEF Asked
<1>4. Pre!Loaded \in Batch
  BY LoadedBatch
<1>5. Called
  BY <1>1, <1>4 DEF Called, Asking
<1>6. Exact
  <2>1. \A b \in DOMAIN batches : batches[b] = Pre!Loaded
    BY <1>1
  <2>2. \A k \in Pre!Keys : BossKept(Pre!Loaded[k]) /\ OthersKept(Pre!Loaded[k], k)
    BY LoadedBatch DEF BossKept, OthersKept, Asking
  <2>3. DOMAIN awaits = {}
    BY <1>1
  <2>4. 1 \in DOMAIN batches
    BY <1>1
  <2> QED BY <2>1, <2>2, <2>3, <2>4 DEF Exact
<1> QED BY <1>3, <1>5, <1>6 DEF PrefetchInv

LEMMA CallOf ==
    ASSUME Called, NEW c \in DOMAIN awaits
    PROVE  /\ awaits[c] \in Call /\ CallOK(awaits[c]) /\ awaits[c].batch \in DOMAIN batches
           /\ awaits[c].on \in SUBSET Pre!Keys /\ awaits[c].made \in Made
           /\ batches[awaits[c].batch] \in Batch
           /\ \A t \in awaits[c].tasks :
                /\ t.field \in DOMAIN awaits[c].made /\ t.field \in Pre!FieldsOf
                /\ t.n \in DOMAIN awaits[c].made[t.field]
                /\ awaits[c].made[t.field][t.n] \in Query
<1>1. awaits[c] \in Call /\ CallOK(awaits[c]) /\ awaits[c].batch \in DOMAIN batches
  BY ElementOf DEF Called
<1>2. awaits[c].on \in SUBSET Pre!Keys /\ awaits[c].made \in Made
  BY <1>1 DEF Call
<1>3. batches[awaits[c].batch] \in Batch
  BY <1>1, ElementOf DEF Called
<1> DEFINE call == awaits[c]
<1> HIDE DEF call
<1>4. ASSUME NEW t \in call.tasks, CallOK(call), call.made \in Made
      PROVE  /\ t.field \in DOMAIN call.made /\ t.field \in Pre!FieldsOf
             /\ t.n \in DOMAIN call.made[t.field] /\ call.made[t.field][t.n] \in Query
  <2>1. t.field \in DOMAIN call.made /\ t.n \in 1..Len(call.made[t.field])
    BY <1>4 DEF CallOK
  <2> QED BY <1>4, <2>1, MadeOf
<1> QED BY <1>1, <1>2, <1>3, <1>4 DEF call

\* The answer to a task of a call on an instance that the call loaded
LEMMA AnswerExact ==
    ASSUME Asking, NEW call, NEW t \in call.tasks, NEW left, left.made = call.made,
           left.tasks = call.tasks \ {t}, NEW q \in Query, q = call.made[t.field][t.n],
           t.field \in DOMAIN call.made, t.field \in Pre!FieldsOf,
           t.n \in DOMAIN call.made[t.field], \A g \in DOMAIN call.made : g \in Pre!FieldsOf,
           NEW k \in Pre!Keys, NEW x \in LoadedInstance, ExactFor(call, k, x),
           NEW y, y = Answer(x, k, Pre!Keys, t.field, q, t.keys)
    PROVE  ExactFor(left, k, y)
<1> DEFINE f == t.field
           r == Yielded(x, k, f, q, t.keys)
<1>1. /\ y.value = [x.value EXCEPT ![f] = Pre!Value(r, q.nested)]
      /\ y.boss_id = IF f = Pre!Direct THEN r ELSE x.boss_id
      /\ \A a \in Pre!Attrs :
            y.attr[a] = IF q.attr = a THEN Pre!Value(r, q.nested) ELSE x.attr[a]
  <2>1. Answered(y, x, k, f, q, t.keys)
    BY AnswerOf
  <2> QED BY <2>1 DEF Answered
<1>2. \A g \in Pre!FieldsOf :
        y.value[g] = IF g = f THEN Pre!Value(r, q.nested) ELSE x.value[g]
  BY <1>1 DEF LoadedInstance
<1>3. q \in QueriesOf(call, f)
  BY DEF QueriesOf
<1>4. \A g : QueriesOf(left, g) = QueriesOf(call, g)
  BY DEF QueriesOf
<1>5. OneBoss(left) = OneBoss(call)
  BY <1>4 DEF OneBoss
<1>6. f = Pre!Direct /\ OneBoss(call) => r = RelatedOf[f][k] \cap q.rows
  BY <1>3 DEF ExactFor, BossExact, Yielded
<1>7. (f = Pre!Direct => OneBoss(call)) => Pre!Value(r, q.nested) = Pre!Result(f, k, q)
  BY <1>6 DEF Pre!Result, Yielded
<1> HIDE DEF r
<1>8. ASSUME NEW g \in DOMAIN left.made, Served(left, g), g = Pre!Direct => OneBoss(left)
      PROVE  ValueExact(left, k, y, g)
  <2>1. CASE g = f
    BY <1>2, <1>3, <1>4, <1>5, <1>7, <1>8, <2>1 DEF ValueExact
  <2>2. CASE g # f
    <3>1. Served(call, g)
      BY <1>8, <2>2 DEF Served
    <3>2. ValueExact(call, k, x, g)
      BY <1>5, <1>8, <3>1 DEF ExactFor
    <3> QED BY <1>2, <1>4, <2>2, <3>2 DEF ValueExact
  <2> QED BY <2>1, <2>2
<1>9. ASSUME OneBoss(left)
      PROVE  BossExact(left, k, y)
  <2>1. BossExact(call, k, x)
    BY <1>5, <1>9 DEF ExactFor
  <2>2. CASE f = Pre!Direct
    <3>1. y.boss_id = RelatedOf[Pre!Direct][k] \cap q.rows
      BY <1>1, <1>5, <1>6, <1>9, <2>2
    <3>2. \A p \in QueriesOf(call, Pre!Direct) : p.rows = q.rows
      BY <1>3, <1>5, <1>9, <2>2 DEF OneBoss
    <3> QED BY <1>4, <2>1, <3>1, <3>2 DEF BossExact
  <2>3. CASE f # Pre!Direct
    BY <1>1, <1>4, <2>1, <2>3 DEF BossExact
  <2> QED BY <2>2, <2>3
<1>10. ASSUME OneBoss(left), NEW a \in Pre!Attrs
       PROVE  AttrExact(left, k, y, a)
  <2>1. AttrExact(call, k, x, a)
    BY <1>5, <1>10 DEF ExactFor
  <2>2. CASE q.attr = a
    <3>1. y.attr[a] = Pre!Result(f, k, q)
      BY <1>1, <1>5, <1>7, <1>10, <2>2
    <3> QED BY <1>3, <1>4, <2>2, <3>1 DEF AttrExact
  <2>3. CASE q.attr # a
    <3>1. y.attr[a] = x.attr[a]
      BY <1>1, <2>3
    <3> QED BY <1>4, <2>1, <3>1 DEF AttrExact
  <2> QED BY <2>2, <2>3
<1> QED BY <1>8, <1>9, <1>10 DEF ExactFor

\* A call that a task is done of, or has failed
LEMMA CallLeft ==
    ASSUME Asking, Called, NEW c \in DOMAIN awaits, NEW t \in awaits[c].tasks, NEW left,
           left \in Call, left.batch = awaits[c].batch, left.made = awaits[c].made,
           left.on = awaits[c].on, left.tasks = awaits[c].tasks \ {t},
           awaits' = [awaits EXCEPT ![c] = left],
           batches' \in Seq(Batch), DOMAIN batches' = DOMAIN batches
    PROVE  /\ Called'
           /\ DOMAIN awaits' = DOMAIN awaits
           /\ \A d \in DOMAIN awaits : awaits'[d] = IF d = c THEN left ELSE awaits[d]
<1> DEFINE call == awaits[c]
<1>1. call \in Call /\ CallOK(call) /\ call.batch \in DOMAIN batches
  BY CallOf
<1> HIDE DEF call
<1>2. /\ left.batch = call.batch /\ left.made = call.made /\ left.on = call.on
      /\ left.tasks = call.tasks \ {t}
  BY DEF call
<1>3. CallOK(left)
  BY <1>1, <1>2 DEF CallOK
<1>4. awaits \in Seq(Call)
  BY DEF Called
<1>5. /\ awaits' \in Seq(Call) /\ DOMAIN awaits' = DOMAIN awaits /\ Len(awaits') = Len(awaits)
      /\ \A d \in DOMAIN awaits : awaits'[d] = IF d = c THEN left ELSE awaits[d]
  <2>1. awaits' \in Seq(Call) /\ DOMAIN awaits' = DOMAIN awaits
    BY <1>4, ListReplaced
  <2>2. Len(awaits') = Len(awaits)
    BY <1>4, <2>1
  <2> QED BY <2>1, <2>2
<1>6. \A d \in DOMAIN awaits : awaits'[d].batch = awaits[d].batch
  BY <1>2, <1>5 DEF call
<1>7. \A d \in DOMAIN awaits' : awaits'[d].batch \in DOMAIN batches' /\ CallOK(awaits'[d])
  BY <1>3, <1>5, <1>6 DEF Called
<1>8. batches' # <<>>
  <2>1. DOMAIN batches' # {}
    BY DEF Called
  <2> QED BY <2>1
<1>9. Called'
  BY <1>5, <1>6, <1>7, <1>8 DEF Called
<1> QED BY <1>2, <1>5, <1>9 DEF call

LEMMA AnswerStep ==
    ASSUME Asking, PrefetchInv, NEW c \in DOMAIN awaits, NEW t \in awaits[c].tasks,
           Pre!Answer(c, t)
    PROVE  PrefetchInv'
<1> DEFINE call == awaits[c]
           b == call.batch
           q == call.made[t.field][t.n]
           left == [call EXCEPT !.tasks = @ \ {t}]
           answer(k) == Answer(batches[b][k], k, call.on, t.field, q, t.keys)
           answered == [k \in Pre!Keys |-> IF k \notin call.on THEN batches[b][k] ELSE answer(k)]
<1>1. Asked /\ Called /\ Exact
  BY DEF PrefetchInv
<1>2. /\ batches' = [batches EXCEPT ![b] = answered]
      /\ awaits' = [awaits EXCEPT ![c] = left] /\ UNCHANGED <<querysets, prefetches>>
  BY DEF Pre!Answer, Answer
<1>3. /\ call.on \in SUBSET Pre!Keys /\ batches[b] \in Batch /\ b \in DOMAIN batches
      /\ t.field \in Pre!FieldsOf /\ t.field \in DOMAIN call.made
      /\ t.n \in DOMAIN call.made[t.field] /\ q \in Query /\ call.made \in Made /\ CallOK(call)
  BY <1>1, CallOf
<1>4. \A g \in DOMAIN call.made : g \in Pre!FieldsOf
  BY <1>3, MadeOf
<1>5. \A k \in Pre!Keys : batches[b][k] \in LoadedInstance /\ BossKept(batches[b][k])
  BY <1>1, <1>3 DEF Batch, Exact
<1> HIDE DEF q, answer, b
<1>6. ASSUME NEW k \in call.on
      PROVE  /\ answer(k) \in LoadedInstance /\ BossKept(answer(k))
             /\ b = 1 /\ OthersKept(batches[b][k], k) => OthersKept(answer(k), k)
  <2> DEFINE x == batches[b][k]
             y == answer(k)
             r == Yielded(x, k, t.field, q, t.keys)
  <2>1. x \in LoadedInstance /\ BossKept(x)
    BY <1>3, <1>5
  <2>2. /\ y \in LoadedInstance
        /\ y.value = [x.value EXCEPT ![t.field] = Pre!Value(r, q.nested)]
        /\ y.boss_id = IF t.field = Pre!Direct THEN r ELSE x.boss_id
        /\ y.behind = IF t.field = Pre!Direct THEN FALSE ELSE x.behind
    <3>1. y = Answer(x, k, call.on, t.field, q, t.keys)
      BY DEF answer
    <3> HIDE DEF x, y, call
    <3>2. Answered(y, x, k, t.field, q, t.keys)
      BY <1>3, <2>1, <3>1, AnswerOf
    <3> QED BY <3>2 DEF Answered
  <2>3. y.value[Pre!Direct]
            = IF t.field = Pre!Direct THEN Pre!Value(r, q.nested) ELSE x.value[Pre!Direct]
    BY <2>1, <2>2 DEF LoadedInstance, Asking
  <2>4. Pre!Value(r, q.nested).rows = r
    BY DEF Pre!Value
  <2>5. \A f \in Pre!FieldsOf :
            y.value[f] = IF t.field = f THEN Pre!Value(r, q.nested) ELSE x.value[f]
    BY <2>1, <2>2 DEF LoadedInstance
  <2>6. b = 1 /\ t.field # Pre!Direct => r = RelatedOf[t.field][k]
    <3>1. b = 1 => q.rows = Pre!Rows
      BY <1>3 DEF CallOK, Whole, q, b
    <3>2. k \in Pre!Keys
      BY <1>3
    <3>3. RelatedOf[t.field][k] \subseteq Pre!Rows
      BY <1>3, <3>2, RelatedRows
    <3> QED BY <3>1, <3>3 DEF Yielded
  <2> HIDE DEF x, y, r
  <2>7. BossKept(y)
    BY <2>1, <2>2, <2>3, <2>4 DEF BossKept
  <2>8. b = 1 /\ OthersKept(x, k) => OthersKept(y, k)
    BY <2>4, <2>5, <2>6 DEF OthersKept
  <2> QED BY <2>2, <2>7, <2>8 DEF x, y
<1>7. /\ answered \in Batch /\ \A k \in Pre!Keys : BossKept(answered[k])
      /\ b = 1 => \A k \in Pre!Keys : OthersKept(answered[k], k)
  <2>1. \A k \in Pre!Keys : answered[k] \in LoadedInstance /\ BossKept(answered[k])
    BY <1>5, <1>6
  <2>2. b = 1 => \A k \in Pre!Keys : OthersKept(answered[k], k)
    BY <1>1, <1>6 DEF Exact
  <2> QED BY <2>1, <2>2 DEF Batch
<1> HIDE DEF answered
<1>8. batches' \in Seq(Batch) /\ DOMAIN batches' = DOMAIN batches
      /\ \A d \in DOMAIN batches : batches'[d] = IF d = b THEN answered ELSE batches[d]
  <2>1. batches \in Seq(Batch)
    BY <1>1 DEF Called
  <2> QED BY <1>2, <1>3, <1>7, <2>1, ListReplaced DEF b
<1>9. /\ left \in Call /\ left.batch = b /\ left.made = call.made /\ left.on = call.on
      /\ left.tasks = call.tasks \ {t} /\ left.failed = call.failed
  <2>1. call \in Call
    BY <1>1, CallOf
  <2> HIDE DEF call
  <2> QED BY <2>1 DEF Call, b
<1> HIDE DEF left
<1>10. /\ Called' /\ DOMAIN awaits' = DOMAIN awaits
       /\ \A d \in DOMAIN awaits : awaits'[d] = IF d = c THEN left ELSE awaits[d]
  <2>1. batches' \in Seq(Batch) /\ DOMAIN batches' = DOMAIN batches
    BY <1>8
  <2> QED BY <1>1, <1>2, <1>9, <2>1, CallLeft DEF b
<1>11. /\ \A d \in DOMAIN batches' : \A k \in Pre!Keys : BossKept(batches'[d][k])
       /\ \A k \in Pre!Keys : OthersKept(batches'[1][k], k)
  <2>1. \A d \in DOMAIN batches' : \A k \in Pre!Keys : BossKept(batches'[d][k])
    BY <1>1, <1>7, <1>8 DEF Exact
  <2>2. 1 \in DOMAIN batches
    BY <1>1 DEF Called
  <2>3. \A k \in Pre!Keys : OthersKept(batches'[1][k], k)
    BY <1>1, <1>7, <1>8, <2>2 DEF Exact
  <2> QED BY <2>1, <2>3
<1> HIDE DEF call
<1>12. ASSUME NEW d \in DOMAIN awaits', awaits'[d].batch # 1, ~awaits'[d].failed, NEW k \in Pre!Keys
       PROVE  ExactFor(awaits'[d], k, batches'[awaits'[d].batch][k])
  <2>1. CASE d = c
    <3>1. awaits'[d] = left /\ batches'[left.batch] = answered /\ b # 1 /\ ~call.failed
      BY <1>3, <1>8, <1>9, <1>10, <1>12, <2>1 DEF b
    <3>2. call.on = Pre!Keys
      BY <1>3, <3>1 DEF CallOK, b
    <3>3. ExactFor(call, k, batches[b][k])
      BY <1>1, <3>1 DEF Exact, call, b
    <3>4. answered[k] = Answer(batches[b][k], k, Pre!Keys, t.field, q, t.keys)
      BY <3>2 DEF answered, answer
    <3>5. t \in call.tasks
      BY DEF call
    <3> QED BY <1>3, <1>4, <1>5, <1>9, <3>1, <3>3, <3>4, <3>5, AnswerExact DEF q
  <2>2. CASE d # c
    <3>1. awaits'[d] = awaits[d] /\ d \in DOMAIN awaits
      BY <1>10, <2>2
    <3>2. awaits[d].batch # b /\ awaits[d].batch \in DOMAIN batches
      BY <1>1, <1>12, <2>2, <3>1 DEF Called, b, call
    <3>3. batches'[awaits[d].batch] = batches[awaits[d].batch]
      BY <1>8, <3>2
    <3> QED BY <1>1, <1>12, <3>1, <3>3 DEF Exact
  <2> QED BY <2>1, <2>2
<1>13. Exact'
  BY <1>11, <1>12 DEF Exact
<1> QED BY <1>1, <1>2, <1>10, <1>13 DEF PrefetchInv, Asked

LEMMA RaiseStep ==
    ASSUME Asking, PrefetchInv, NEW c \in DOMAIN awaits, NEW t \in awaits[c].tasks,
           Pre!Raise(c, t)
    PROVE  PrefetchInv'
<1> DEFINE left == [awaits[c] EXCEPT !.tasks = @ \ {t}, !.failed = TRUE]
<1>1. Asked /\ Called /\ Exact
  BY DEF PrefetchInv
<1>2. awaits' = [awaits EXCEPT ![c] = left] /\ UNCHANGED <<querysets, prefetches, batches>>
  BY DEF Pre!Raise
<1>3. /\ left \in Call /\ left.batch = awaits[c].batch /\ left.made = awaits[c].made
      /\ left.on = awaits[c].on /\ left.tasks = awaits[c].tasks \ {t} /\ left.failed
  <2> DEFINE call == awaits[c]
  <2>1. call \in Call
    BY <1>1, CallOf
  <2> HIDE DEF call
  <2> QED BY <2>1 DEF Call, call
<1> HIDE DEF left
<1>4. batches' \in Seq(Batch) /\ DOMAIN batches' = DOMAIN batches
  BY <1>1, <1>2 DEF Called
<1>5. /\ Called' /\ DOMAIN awaits' = DOMAIN awaits
      /\ \A d \in DOMAIN awaits : awaits'[d] = IF d = c THEN left ELSE awaits[d]
  BY <1>1, <1>2, <1>3, <1>4, CallLeft
<1>6. \A d \in DOMAIN awaits' : ~awaits'[d].failed => awaits'[d] = awaits[d]
  BY <1>3, <1>5
<1>7. Exact'
  BY <1>1, <1>2, <1>5, <1>6 DEF Exact
<1> QED BY <1>1, <1>2, <1>5, <1>7 DEF PrefetchInv, Asked

\* An assignment to an instance in use changes neither its other relations nor what
\* querysets loaded.
LEMMA Assignment ==
    ASSUME Asking, PrefetchInv, NEW k \in Pre!Keys, NEW y \in LoadedInstance, BossKept(y),
           \A f \in Pre!FieldsOf \ {Pre!Direct} : y.value[f] = batches[1][k].value[f],
           batches' = [batches EXCEPT ![1] = [@ EXCEPT ![k] = y]],
           UNCHANGED <<querysets, prefetches, awaits>>
    PROVE  PrefetchInv'
<1> DEFINE assigned == [batches[1] EXCEPT ![k] = y]
<1>1. Asked /\ Called /\ Exact
  BY DEF PrefetchInv
<1>2. batches' = [batches EXCEPT ![1] = assigned]
  OBVIOUS
<1>3. batches \in Seq(Batch) /\ 1 \in DOMAIN batches /\ batches[1] \in Batch
  BY <1>1 DEF Called
<1>4. assigned \in Batch /\ \A l \in Pre!Keys : assigned[l] = IF l = k THEN y ELSE batches[1][l]
  BY <1>3 DEF Batch
<1> HIDE DEF assigned
<1>5. \A l \in Pre!Keys : BossKept(assigned[l]) /\ OthersKept(assigned[l], l)
  <2>1. \A l \in Pre!Keys : BossKept(batches[1][l]) /\ OthersKept(batches[1][l], l)
    BY <1>1, <1>3 DEF Exact
  <2>2. OthersKept(y, k)
    BY <2>1 DEF OthersKept
  <2> QED BY <1>4, <2>1, <2>2
<1>6. batches' \in Seq(Batch) /\ DOMAIN batches' = DOMAIN batches
      /\ \A d \in DOMAIN batches : batches'[d] = IF d = 1 THEN assigned ELSE batches[d]
  BY <1>2, <1>3, <1>4, ListReplaced
<1>7. Called'
  <2>1. batches' # <<>>
    BY <1>3, <1>6
  <2> QED BY <1>1, <1>6, <2>1 DEF Called
<1>8. Exact'
  <2>1. /\ \A d \in DOMAIN batches' : \A l \in Pre!Keys : BossKept(batches'[d][l])
        /\ \A l \in Pre!Keys : OthersKept(batches'[1][l], l)
    BY <1>1, <1>3, <1>5, <1>6 DEF Exact
  <2>2. \A c \in DOMAIN awaits : awaits[c].batch # 1 =>
            batches'[awaits[c].batch] = batches[awaits[c].batch]
    BY <1>1, <1>6 DEF Called
  <2> QED BY <1>1, <2>1, <2>2 DEF Exact
<1> QED BY <1>1, <1>7, <1>8 DEF PrefetchInv, Asked

LEMMA AssignStep ==
    ASSUME Asking, PrefetchInv, NEW k \in Pre!Keys, NEW r \in SUBSET Pre!Rows,
           Pre!Assign(k, r)
    PROVE  PrefetchInv'
<1> DEFINE x == batches[1][k]
           v == Pre!Value(r, {})
           y == Pre!_fk_setter(x, v)
<1>1. batches' = [batches EXCEPT ![1] = [@ EXCEPT ![k] = y]]
      /\ UNCHANGED <<querysets, prefetches, awaits>>
  BY DEF Pre!Assign
<1>2. v \in Values /\ v.rows = r
  <2>1. {} \in Nested
    BY DEF Nested
  <2> QED BY <2>1, ValueTyped
<1>3. x \in LoadedInstance
  BY DEF PrefetchInv, Called, Batch
<1>4. y = [x EXCEPT !.value[Pre!Direct] = v, !.boss_id = v.rows, !.behind = FALSE]
  BY DEF Pre!_fk_setter
<1> HIDE DEF x, v, y
<1>5. /\ y \in LoadedInstance /\ y.value[Pre!Direct] = v /\ y.boss_id = v.rows
      /\ \A f \in Pre!FieldsOf \ {Pre!Direct} : y.value[f] = x.value[f]
  BY <1>2, <1>3, <1>4 DEF LoadedInstance, Asking
<1>6. BossKept(y)
  BY <1>5 DEF BossKept
<1> QED BY <1>1, <1>5, <1>6, Assignment DEF x

LEMMA AssignColumnStep ==
    ASSUME Asking, PrefetchInv, NEW k \in Pre!Keys, NEW r \in SUBSET Pre!Rows,
           Pre!AssignColumn(k, r)
    PROVE  PrefetchInv'
<1> DEFINE x == batches[1][k]
           set == x.value[Pre!Direct].set
           y == [x EXCEPT !.boss_id = r, !.behind = set]
<1>1. x \in LoadedInstance /\ batches[1] \in Batch /\ 1 \in DOMAIN batches
  BY DEF PrefetchInv, Called, Batch
<1>2. batches' = [batches EXCEPT ![1] = [@ EXCEPT ![k] = y]]
      /\ UNCHANGED <<querysets, prefetches, awaits>>
  BY <1>1 DEF Pre!AssignColumn, Batch
<1> HIDE DEF x
<1>3. /\ y \in LoadedInstance /\ y.value = x.value /\ y.behind = x.value[Pre!Direct].set
  BY <1>1 DEF LoadedInstance, Values, Asking
<1> HIDE DEF y
<1>4. BossKept(y)
  BY <1>3 DEF BossKept
<1> QED BY <1>2, <1>3, <1>4, Assignment DEF x

LEMMA PrefetchStep == Asking /\ PrefetchInv /\ [Pre!Next]_(Pre!vars) => PrefetchInv'
<1> SUFFICES ASSUME Asking, PrefetchInv, [Pre!Next]_(Pre!vars)
             PROVE  PrefetchInv'
  OBVIOUS
<1>1. ASSUME NEW i \in DOMAIN querysets, Pre!execute_select(i)
      PROVE  PrefetchInv'
  BY <1>1, SelectStep
<1>2. ASSUME NEW i \in DOMAIN querysets, NEW ask \in Asks,
             Pre!prefetch_related(i, ask.relations, ask.prefetches)
      PROVE  PrefetchInv'
  <2>1. Asked' /\ UNCHANGED <<batches, awaits>>
    BY <1>2, AskStep DEF PrefetchInv
  <2> QED BY <2>1 DEF PrefetchInv, Called, Exact
<1>3. ASSUME NEW k \in Pre!Keys, NEW r \in Refetched, Pre!fetch_for_list({k}, r)
      PROVE  PrefetchInv'
  <2>1. {k} \in SUBSET Pre!Keys /\ r \in Maps
    BY DEF Asking
  <2> QED BY <1>3, <2>1, FetchStep
<1>4. ASSUME NEW k \in Pre!Keys, NEW f \in Pre!FieldsOf, Pre!__aiter__(k, f)
      PROVE  PrefetchInv'
  <2> DEFINE map == [g \in {f} |-> {}]
  <2>1. map \in [{f} -> Nested]
    BY DEF Nested
  <2>2. map \in Maps
    BY <2>1 DEF Maps
  <2>3. Pre!fetch_for_list({k}, map)
    BY <1>4 DEF Pre!__aiter__
  <2> HIDE DEF map
  <2> QED BY <2>2, <2>3, FetchStep
<1>5. ASSUME NEW to \in NewBosses,
             Pre!Assign(to[1], to[2]) \/ Pre!AssignColumn(to[1], to[2])
      PROVE  PrefetchInv'
  <2>1. to[1] \in Pre!Keys /\ to[2] \in SUBSET Pre!Rows
    BY DEF Asking
  <2> QED BY <1>5, <2>1, AssignStep, AssignColumnStep
<1>9. ASSUME NEW k \in Pre!Keys, Pre!refresh_from_db(k)
      PROVE  PrefetchInv'
  <2>1. RelatedOf[Pre!Direct][k] \subseteq Pre!Rows
    BY RelatedRows DEF Asking
  <2> QED BY <1>9, <2>1, AssignColumnStep DEF Pre!refresh_from_db
<1>6. ASSUME NEW c \in DOMAIN awaits, NEW t \in awaits[c].tasks, Pre!Answer(c, t)
      PROVE  PrefetchInv'
  BY <1>6, AnswerStep
<1>7. ASSUME NEW c \in DOMAIN awaits, NEW t \in awaits[c].tasks, Pre!Raise(c, t)
      PROVE  PrefetchInv'
  BY <1>7, RaiseStep
<1>8. CASE UNCHANGED Pre!vars
  BY <1>8 DEF Pre!vars, PrefetchInv, Asked, Called, Exact
<1> QED BY <1>1, <1>2, <1>3, <1>4, <1>5, <1>6, <1>7, <1>8, <1>9 DEF Pre!Next

LEMMA QueriesAre == \A c, f : Pre!Queries(c, f) = QueriesOf(awaits[c], f)
BY DEF Pre!Queries, QueriesOf

LEMMA OneQuerysetOf ==
    ASSUME Called, NEW c \in DOMAIN awaits, Pre!Direct \in DOMAIN awaits[c].made,
           Pre!OneQueryset(c, Pre!Direct)
    PROVE  OneBoss(awaits[c])
<1> DEFINE list == awaits[c].made[Pre!Direct]
           asked == QueriesOf(awaits[c], Pre!Direct)
           sets == {q.rows : q \in asked}
           rowsOf == [n \in 1..Len(list) |-> list[n].rows]
<1>1. DOMAIN list = 1..Len(list) /\ Len(list) \in Nat
  BY CallOf, MadeOf
<1>2. asked = {list[n] : n \in 1..Len(list)}
  BY <1>1 DEF QueriesOf
<1>3. IsFiniteSet(1..Len(list))
  BY <1>1, FS_Interval
<1>4. rowsOf \in Surjection(1..Len(list), sets)
  <2> HIDE DEF list, asked
  <2> QED BY <1>2 DEF Surjection
<1>5. Cardinality(sets) = 1
  <2>1. \A f : Pre!Queries(c, f) = QueriesOf(awaits[c], f)
    BY QueriesAre
  <2>2. Cardinality({q.rows : q \in Pre!Queries(c, Pre!Direct)}) = 1
    BY SameCardinality DEF Pre!OneQueryset
  <2> QED BY <2>1, <2>2, Zenon
<1>6. IsFiniteSet(sets)
  <2> HIDE DEF list, sets, rowsOf
  <2> QED BY <1>3, <1>4, FS_Surjection
<1> HIDE DEF asked
<1>7. PICK s : sets = {s}
  <2> HIDE DEF sets
  <2> QED BY <1>5, <1>6, FS_Singleton
<1>8. \A q \in asked : q.rows \in sets
  OBVIOUS
<1>9. \A q, r \in asked : q.rows = r.rows
  <2> HIDE DEF sets
  <2> QED BY <1>7, <1>8
<1> QED BY <1>9 DEF OneBoss, asked

\* A call whose tasks are done has served every field.
LEMMA ServedAll ==
    ASSUME Asking, Called, NEW c \in DOMAIN awaits, awaits[c].tasks = {},
           NEW f \in DOMAIN awaits[c].made
    PROVE  Served(awaits[c], f)
<1>1. 1 \in DOMAIN awaits[c].made[f]
  <2> DEFINE list == awaits[c].made[f]
  <2>1. list \in Seq(Query) /\ list # <<>>
    BY CallOf, MadeOf
  <2> HIDE DEF list
  <2>2. 1 \in DOMAIN list
    BY <2>1
  <2> QED BY <2>2 DEF list
<1>2. 1 <= Most
  <2>1. Len(awaits) >= 1 /\ Len(awaits) \in Nat
    BY DEF Called
  <2> QED BY <2>1 DEF Called, Asking, Most
<1> QED BY <1>1, <1>2 DEF Served

LEMMA PrefetchSafe == Asking /\ PrefetchInv => Pre!PrefetchExact
<1> SUFFICES ASSUME Asking, PrefetchInv
             PROVE  Pre!PrefetchExact
  OBVIOUS
<1>1. Called /\ Exact
  BY DEF PrefetchInv
<1>2. ASSUME NEW c \in DOMAIN awaits, Pre!Returned(c), NEW k \in Pre!Keys
      PROVE  LET instance == batches[awaits[c].batch][k]
                 exact == {f \in DOMAIN awaits[c].made : Pre!OneQueryset(c, f)}
             IN  /\ \A f \in exact : \E q \in Pre!Queries(c, f) :
                        instance.value[f] = Pre!Result(f, k, q)
                 /\ exact = DOMAIN awaits[c].made =>
                    \A a \in Pre!Attrs : instance.attr[a].set =>
                        \E f \in exact : \E q \in Pre!Queries(c, f) :
                            q.attr = a /\ instance.attr[a] = Pre!Result(f, k, q)
  <2> DEFINE call == awaits[c]
             x == batches[call.batch][k]
             exact == {f \in DOMAIN call.made : Pre!OneQueryset(c, f)}
  <2>1. call.batch # 1 /\ call.tasks = {} /\ ~call.failed
    BY <1>2 DEF Pre!Returned
  <2>2. ExactFor(call, k, x)
    BY <1>1, <2>1 DEF Exact
  <2>3. \A f : Pre!Queries(c, f) = QueriesOf(call, f)
    BY QueriesAre
  <2>4. \A f \in DOMAIN call.made : Served(call, f)
    BY <1>1, <2>1, ServedAll
  <2>5. Pre!Direct \in exact => OneBoss(call)
    BY <1>1, OneQuerysetOf
  <2>6. \A f \in exact : f \in DOMAIN call.made
    OBVIOUS
  <2> HIDE DEF call, x, exact
  <2>7. \A f \in exact : ValueExact(call, k, x, f)
    BY <2>2, <2>4, <2>5, <2>6 DEF ExactFor
  <2>8. ASSUME exact = DOMAIN call.made
        PROVE  \A a \in Pre!Attrs : AttrExact(call, k, x, a)
    <3>1. OneBoss(call)
      BY <2>5, <2>8 DEF OneBoss
    <3> QED BY <2>2, <3>1 DEF ExactFor
  <2>9. \A f \in exact : \E q \in Pre!Queries(c, f) : x.value[f] = Pre!Result(f, k, q)
    BY <2>3, <2>7 DEF ValueExact
  <2>10. exact = DOMAIN call.made =>
            \A a \in Pre!Attrs : x.attr[a].set =>
                \E f \in exact : \E q \in Pre!Queries(c, f) :
                    q.attr = a /\ x.attr[a] = Pre!Result(f, k, q)
    BY <2>3, <2>8 DEF AttrExact
  <2> QED BY <2>9, <2>10 DEF call, x, exact
<1>3. ASSUME NEW b \in DOMAIN batches, NEW k \in Pre!Keys, ~batches[b][k].behind
      PROVE  Pre!_fk_getter(batches[b][k]) = batches[b][k].boss_id
  <2>1. BossKept(batches[b][k])
    BY <1>1 DEF Exact
  <2> QED BY <1>3, <2>1 DEF BossKept, Pre!_fk_getter
<1>4. \A k \in Pre!Keys : \A f \in Pre!FieldsOf \ {Pre!Direct} :
        batches[1][k].value[f].set => batches[1][k].value[f].rows = RelatedOf[f][k]
  BY <1>1 DEF Exact, OthersKept
<1> QED BY <1>2, <1>3, <1>4, Zenon DEF Pre!PrefetchExact

LEMMA PrefetchAlways ==
    ASSUME Asking
    PROVE  Pre!Spec => []PrefetchInv
<1>1. Pre!Init => PrefetchInv
  BY PrefetchInit
<1>2. PrefetchInv /\ [Pre!Next]_(Pre!vars) => PrefetchInv'
  BY PrefetchStep
<1> QED BY <1>1, <1>2, PTL DEF Pre!Spec

(* However many querysets, clones, Prefetch objects and fetches there are   *)
(* and however their queries overlap, a queryset that was awaited returns   *)
(* instances that hold, of every relation it asked for, what one of its own *)
(* queries yields for that instance; other relations of instances in use    *)
(* are whole, and a foreign key is the one of its column unless that was    *)
(* assigned itself since (backends/base/executor.py, models.py:98).         *)
THEOREM PrefetchesExact ==
    ASSUME Asking
    PROVE  Pre!Spec => []PrefetchExact
<1>1. PrefetchInv => PrefetchExact
  BY PrefetchSafe DEF PrefetchExact
<1> QED BY <1>1, PrefetchAlways, PTL

\* The lists that querysets refer to are there, and whatever the queries of overlapping
\* fetches leave in a column, a relation or an attribute is a set of the model's rows.
THEOREM PrefetchesTyped ==
    ASSUME Asking
    PROVE  Pre!Spec => []Pre!TypeOK
<1>1. PrefetchInv => Pre!TypeOK
  <2> SUFFICES ASSUME PrefetchInv PROVE Pre!TypeOK
    OBVIOUS
  <2>1. \A i \in DOMAIN querysets : \A f \in DOMAIN querysets[i].queries :
            querysets[i].queries[f] \in DOMAIN prefetches
    BY DEF PrefetchInv, Asked
  <2>2. Pre!Values = Values
    BY DEF Values, Nested, Pre!Values
  <2>3. ASSUME NEW b \in DOMAIN batches, NEW k \in Pre!Keys
        PROVE  /\ batches[b][k].boss_id \subseteq Pre!Rows /\ batches[b][k].behind \in BOOLEAN
               /\ batches[b][k].value \in [Pre!FieldsOf -> Values]
               /\ batches[b][k].attr \in [Pre!Attrs -> Values]
    <3>1. batches[b] \in Batch
      BY DEF PrefetchInv, Called
    <3>2. batches[b][k] \in LoadedInstance
      BY <3>1 DEF Batch
    <3> QED BY <3>2 DEF LoadedInstance
  <2> QED BY <2>1, <2>2, <2>3 DEF Pre!TypeOK
<1> QED BY <1>1, PrefetchAlways, PTL

-----------------------------------------------------------------------------
(* Writing many instances *)

Object ==
    [pk : OwnKeys \cup {Bulk!None}, own : BOOLEAN, value : BulkValues \cup {Bulk!Default}]
UpdateFields ==
    {"kind", "mode", "filter", "given", "items", "once", "size", "chunks", "statements",
     "queries", "built", "at", "count", "state"}

\* The values that statements were built with for a key, and the keys of the instances
\* that are to be written, if a generator has not lost them
ValuesOf(k)  == {c.value : c \in {b \in bulk.built : b.pk = k}}
ListedKey(k) == ~bulk.once /\ \E p \in DOMAIN bulk.given : objects[bulk.given[p]].pk = k
InCase(c, k) == \E r \in DOMAIN bulk.queries[c] : bulk.queries[c][r].pk = k
Covered(k)   == \E c \in DOMAIN bulk.queries : InCase(c, k)

\* A row that was there all the time, and what a statement leaves of it
Stayed     == DOMAIN stored \cap DOMAIN began
Updated(k) == stored[k].value \in ValuesOf(k) \/ stored[k].value \notin bulk.filter

IsRange(S) == \E n \in Nat : S = 1..n

UpdateTypes ==
    /\ DOMAIN bulk = UpdateFields
    /\ bulk.given \in Seq(DOMAIN objects) /\ bulk.size \in Nat
    /\ bulk.items = IF bulk.once THEN <<>> ELSE bulk.given
    /\ bulk.at \in Nat /\ (bulk.state = "running" => bulk.at # 0)
    /\ \E S : bulk.queries \in Seq(S)
    /\ \A c \in DOMAIN bulk.queries : IsRange(DOMAIN bulk.queries[c])

\* The statements have what is listed and nothing else, however often they were built.
CasesListed ==
    /\ \A c \in DOMAIN bulk.queries : \A r \in DOMAIN bulk.queries[c] :
        bulk.queries[c][r] \in bulk.built
    /\ \A b \in bulk.built : ListedKey(b.pk)
    /\ bulk.state # "made" => \A k : ListedKey(k) => Covered(k)

\* A row has a value it was given, or its own; the rows of the statements that were sent
\* are updated.
RowsUpdated ==
    /\ \A k \in Stayed : stored[k].value \in ValuesOf(k) \cup {began[k].value}
    /\ bulk.state = "running" => \A c \in DOMAIN bulk.queries : c < bulk.at =>
        \A k \in Stayed : InCase(c, k) => Updated(k)
    /\ bulk.state = "done" => \A k \in Stayed : ListedKey(k) => Updated(k)

UpdateInv == UpdateTypes /\ CasesListed /\ RowsUpdated
BulkInv ==
    /\ objects \in Seq(Object)
    /\ "kind" \in DOMAIN bulk /\ bulk.kind \in {"none", "refused", "create", "update"}
    /\ bulk.kind \in {"none", "update"} =>
        /\ DOMAIN began \subseteq DOMAIN stored
        /\ \A k \in DOMAIN stored : "value" \in DOMAIN stored[k]
    /\ bulk.kind = "update" => UpdateInv

LEMMA UpdatesSafe == BulkInv => UpdatesListed
<1> SUFFICES ASSUME BulkInv, bulk.kind = "update", NEW k \in Stayed
             PROVE  /\ stored[k].value \in (IF ListedKey(k) THEN ValuesOf(k) ELSE {})
                                                \cup {began[k].value}
                    /\ bulk.state = "done" /\ ListedKey(k) => Updated(k)
  BY DEF UpdatesListed, Bulk!UpdatesListed, Stayed, ListedKey, ValuesOf, Updated
<1>1. stored[k].value \in ValuesOf(k) \cup {began[k].value}
  BY DEF BulkInv, UpdateInv, RowsUpdated
<1>2. ValuesOf(k) # {} => ListedKey(k)
  BY DEF BulkInv, UpdateInv, CasesListed, ValuesOf
<1>3. bulk.state = "done" /\ ListedKey(k) => Updated(k)
  BY DEF BulkInv, UpdateInv, RowsUpdated
<1> QED BY <1>1, <1>2, <1>3

LEMMA Division ==
    ASSUME NEW d \in Nat \ {0}, NEW n \in Int
    PROVE  /\ n \div d \in Int /\ n % d \in 0..(d - 1)
           /\ n = d * (n \div d) + (n % d)
OBVIOUS

\* A sequence is the concatenation of its chunks, as far as its members go.
LEMMA ChunksCover ==
    ASSUME NEW S, NEW items \in Seq(S), NEW size \in Nat, NEW chunks,
           chunks = Bulk!chunk(items, size)
    PROVE  /\ \E T : chunks \in Seq(T)
           /\ \A c \in DOMAIN chunks : IsRange(DOMAIN chunks[c])
           /\ \A c \in DOMAIN chunks : \A q \in DOMAIN chunks[c] :
                \E p \in DOMAIN items : chunks[c][q] = items[p]
           /\ \A p \in DOMAIN items : \E c \in DOMAIN chunks : \E q \in DOMAIN chunks[c] :
                chunks[c][q] = items[p]
<1>0. Len(items) \in Nat /\ DOMAIN items = 1..Len(items)
  OBVIOUS
<1>1. CASE size = 0
  <2>1. chunks = <<items>>
    BY <1>1 DEF Bulk!chunk
  <2>2. chunks \in Seq({items}) /\ DOMAIN chunks = {1} /\ chunks[1] = items
    BY <2>1
  <2>3. IsRange(DOMAIN items)
    BY <1>0 DEF IsRange
  <2> QED BY <1>0, <2>2, <2>3
<1>2. CASE size # 0
  <2> DEFINE n == (Len(items) + size - 1) \div size
             end(c) == IF c * size < Len(items) THEN c * size ELSE Len(items)
             part(c) == SubSeq(items, (c - 1) * size + 1, end(c))
  <2>1. chunks = [c \in 1..n |-> part(c)]
    BY <1>2 DEF Bulk!chunk
  <2>2. n \in Int /\ (Len(items) + size - 1) % size \in 0..(size - 1)
        /\ Len(items) + size - 1 = size * n + ((Len(items) + size - 1) % size)
    <3>1. Len(items) + size - 1 \in Int /\ size \in Nat \ {0}
      BY <1>0, <1>2
    <3> QED BY <3>1, Division
  <2>3. n >= 0 /\ size * n >= Len(items)
    <3>1. size * n >= Len(items) /\ size * n \in Int /\ size >= 1
      BY <1>0, <1>2, <2>2
    <3>2. ASSUME n < 0 PROVE FALSE
      <4>1. size * n < 0
        BY <2>2, <3>1, <3>2
      <4> QED BY <1>0, <3>1, <4>1
    <3> QED BY <2>2, <3>1, <3>2
  <2> HIDE DEF n
  <2>4. ASSUME NEW c \in 1..n
        PROVE  /\ (c - 1) * size \in Nat /\ end(c) \in 0..Len(items)
               /\ end(c) - (c - 1) * size \in Int
    <3>1. c - 1 \in Nat /\ c * size \in Nat /\ (c - 1) * size \in Nat
      BY <2>2, <2>3
    <3> QED BY <1>0, <3>1
  <2>5. ASSUME NEW c \in 1..n
        PROVE  /\ DOMAIN part(c) = 1..(end(c) - (c - 1) * size)
               /\ \A q \in DOMAIN part(c) : part(c)[q] = items[(c - 1) * size + q]
    <3> DEFINE m == (c - 1) * size
               e == end(c)
    <3>1. m \in Nat /\ e \in 0..Len(items)
      BY <2>4
    <3> HIDE DEF m, e
    <3>2. LET s == SubSeq(items, m + 1, e)
          IN  /\ DOMAIN s = 1..(e - m)
              /\ \A q \in DOMAIN s : s[q] = items[m + q]
      BY <1>0, <3>1
    <3> QED BY <3>2 DEF m, e
  <2>6. \E T : chunks \in Seq(T)
    <3> DEFINE T == {part(c) : c \in 1..n}
    <3>1. \A c \in 1..n : part(c) \in T
      OBVIOUS
    <3> HIDE DEF part, T
    <3>2. n \in Nat /\ chunks \in [1..n -> T]
      BY <2>1, <2>2, <2>3, <3>1
    <3>3. chunks \in Seq(T)
      BY <3>2
    <3> QED BY <3>3
  <2>7. ASSUME NEW c \in DOMAIN chunks
        PROVE  /\ IsRange(DOMAIN chunks[c])
               /\ \A q \in DOMAIN chunks[c] : \E p \in DOMAIN items : chunks[c][q] = items[p]
    <3>1. c \in 1..n /\ chunks[c] = part(c)
      BY <2>1
    <3>2. DOMAIN chunks[c] = 1..(end(c) - (c - 1) * size)
          /\ \A q \in DOMAIN chunks[c] : chunks[c][q] = items[(c - 1) * size + q]
      BY <2>5, <3>1
    <3>3. (c - 1) * size \in Nat /\ end(c) \in 0..Len(items)
      BY <2>4, <3>1
    <3> HIDE DEF part, end
    <3>4. IsRange(DOMAIN chunks[c])
      <4> DEFINE m == end(c) - (c - 1) * size
      <4>1. m \in Int /\ DOMAIN chunks[c] = 1..m
        BY <1>0, <3>2, <3>3
      <4> HIDE DEF m
      <4>2. CASE m >= 0
        BY <4>1, <4>2 DEF IsRange
      <4>3. CASE m < 0
        <5>1. 1..m = 1..0
          BY <4>1, <4>3
        <5> QED BY <4>1, <5>1 DEF IsRange
      <4> QED BY <4>1, <4>2, <4>3
    <3>5. ASSUME NEW q \in DOMAIN chunks[c]
          PROVE  q \in Nat /\ (c - 1) * size + q \in DOMAIN items
      BY <1>0, <3>2, <3>3
    <3> QED BY <3>2, <3>4, <3>5
  <2>8. ASSUME NEW p \in DOMAIN items
        PROVE  \E c \in DOMAIN chunks : \E q \in DOMAIN chunks[c] : chunks[c][q] = items[p]
    <3> DEFINE d == (p - 1) \div size
               r == (p - 1) % size
               e == (Len(items) + size - 1) % size
               c == d + 1
    <3>1. d \in Int /\ r \in 0..(size - 1) /\ p - 1 = size * d + r
      <4>1. p - 1 \in Int /\ size \in Nat \ {0}
        BY <1>0, <1>2
      <4> QED BY <4>1, Division
    <3>2. e \in 0..(size - 1) /\ Len(items) + size - 1 = size * n + e
      BY <2>2
    <3> HIDE DEF d, r, e
    <3>3. size >= 1 /\ p \in 1..Len(items) /\ size * d \in Int
      BY <1>0, <1>2, <3>1
    <3>4. d >= 0
      <4> SUFFICES ASSUME d <= -1 PROVE FALSE
        BY <3>1
      <4>1. size * d <= -size
        BY <3>1, <3>3
      <4> QED BY <3>1, <3>3, <4>1
    <3>5. d < n
      <4> SUFFICES ASSUME n <= d PROVE FALSE
        BY <2>2, <3>1
      <4>1. size * n <= size * d /\ size * n \in Int
        BY <2>2, <3>1, <3>3
      <4>2. size * d + r <= Len(items) - 1
        BY <1>0, <3>1, <3>3
      <4>3. size * n >= Len(items)
        BY <2>3
      <4> QED BY <1>0, <3>1, <3>3, <4>1, <4>2, <4>3
    <3>6. c \in 1..n /\ c - 1 = d
      BY <2>2, <3>1, <3>4, <3>5
    <3>7. (c - 1) * size = size * d /\ c * size = size * d + size
      BY <3>1, <3>3, <3>6
    <3> DEFINE q == r + 1
    <3>8. q \in 1..(end(c) - (c - 1) * size)
      <4>1. end(c) = IF size * d + size < Len(items) THEN size * d + size ELSE Len(items)
        BY <3>7
      <4> HIDE DEF end
      <4>2. end(c) >= size * d + r + 1 /\ end(c) \in Int
        BY <1>0, <3>1, <3>3, <4>1
      <4> QED BY <3>1, <3>3, <3>7, <4>2
    <3>9. q \in DOMAIN part(c) /\ part(c)[q] = items[(c - 1) * size + q]
      BY <2>5, <3>6, <3>8
    <3>10. (c - 1) * size + q = p
      BY <3>1, <3>3, <3>7
    <3> QED BY <2>1, <3>6, <3>9, <3>10
  <2> QED BY <2>6, <2>7, <2>8
<1> QED BY <1>1, <1>2

\* What _make_query() changes: statements for all that is listed come after those there are.
LEMMA CasesMade ==
    ASSUME BulkInv, bulk.kind = "update", NEW q, q = Bulk!_make_query(bulk)
    PROVE  /\ DOMAIN q = UpdateFields
           /\ \A f \in UpdateFields \ {"queries", "built"} : q[f] = bulk[f]
           /\ bulk.built \subseteq q.built
           /\ \E S : q.queries \in Seq(S)
           /\ \A c \in DOMAIN q.queries :
                /\ IsRange(DOMAIN q.queries[c])
                /\ \A r \in DOMAIN q.queries[c] : q.queries[c][r] \in q.built
           /\ \A b \in q.built : ListedKey(b.pk)
           /\ \A k : ListedKey(k) =>
                \E c \in DOMAIN q.queries : \E r \in DOMAIN q.queries[c] : q.queries[c][r].pk = k
<1> DEFINE chunks == Bulk!chunk(bulk.items, bulk.size)
           made == [c \in DOMAIN chunks |-> Bulk!Case(chunks[c])]
<1>1. UpdateTypes /\ CasesListed
  BY DEF BulkInv, UpdateInv
<1>2. bulk.items \in Seq(DOMAIN objects) /\ bulk.size \in Nat
  <2>1. bulk.items = <<>> \/ bulk.items = bulk.given
    BY <1>1 DEF UpdateTypes
  <2>2. bulk.given \in Seq(DOMAIN objects) /\ bulk.size \in Nat
    BY <1>1 DEF UpdateTypes
  <2>3. <<>> \in Seq(DOMAIN objects)
    OBVIOUS
  <2> QED BY <2>1, <2>2, <2>3
<1>3. /\ \E T : chunks \in Seq(T)
      /\ \A c \in DOMAIN chunks : IsRange(DOMAIN chunks[c])
      /\ \A c \in DOMAIN chunks : \A r \in DOMAIN chunks[c] :
            \E p \in DOMAIN bulk.items : chunks[c][r] = bulk.items[p]
      /\ \A p \in DOMAIN bulk.items : \E c \in DOMAIN chunks : \E r \in DOMAIN chunks[c] :
            chunks[c][r] = bulk.items[p]
  <2> DEFINE S == DOMAIN objects
             items == bulk.items
             size == bulk.size
  <2>1. items \in Seq(S) /\ size \in Nat /\ chunks = Bulk!chunk(items, size)
    BY <1>2
  <2> HIDE DEF chunks, S, items, size
  <2>2. /\ \E T : chunks \in Seq(T)
        /\ \A c \in DOMAIN chunks : IsRange(DOMAIN chunks[c])
        /\ \A c \in DOMAIN chunks : \A r \in DOMAIN chunks[c] :
            \E p \in DOMAIN items : chunks[c][r] = items[p]
        /\ \A p \in DOMAIN items : \E c \in DOMAIN chunks : \E r \in DOMAIN chunks[c] :
            chunks[c][r] = items[p]
    BY <2>1, ChunksCover
  <2> QED BY <2>2 DEF items
<1>4. q = [bulk EXCEPT !.queries = bulk.queries \o made,
                       !.built = bulk.built \cup UNION {Bulk!ToSet(made[c]) : c \in DOMAIN made}]
  BY DEF Bulk!_make_query
<1> HIDE DEF chunks
<1>5. /\ DOMAIN made = DOMAIN chunks
      /\ \A c \in DOMAIN made :
            /\ DOMAIN made[c] = DOMAIN chunks[c]
            /\ \A r \in DOMAIN made[c] : made[c][r].pk = objects[chunks[c][r]].pk
  BY DEF Bulk!Case
<1>6. \E T : made \in Seq(T)
  <2>1. PICK T : chunks \in Seq(T)
    BY <1>3
  <2> DEFINE U == {made[c] : c \in DOMAIN made}
  <2>2. \A c \in DOMAIN made : made[c] \in U
    OBVIOUS
  <2>3. DOMAIN made = 1..Len(chunks) /\ Len(chunks) \in Nat
    BY <1>5, <2>1
  <2>4. made = [c \in 1..Len(chunks) |-> made[c]]
    BY <2>3
  <2> HIDE DEF made, U
  <2>5. made \in [1..Len(chunks) -> U]
    BY <2>2, <2>3, <2>4
  <2>6. made \in Seq(U)
    BY <2>3, <2>5
  <2> QED BY <2>6
<1> HIDE DEF made
<1>7. /\ DOMAIN q = UpdateFields
      /\ \A f \in UpdateFields \ {"queries", "built"} : q[f] = bulk[f]
      /\ q.queries = bulk.queries \o made
      /\ q.built = bulk.built \cup UNION {Bulk!ToSet(made[c]) : c \in DOMAIN made}
  BY <1>1, <1>4 DEF UpdateTypes, UpdateFields
<1>8. \A c \in DOMAIN made : \A r \in DOMAIN made[c] : made[c][r] \in q.built
  BY <1>7 DEF Bulk!ToSet
<1>9. \E S : q.queries \in Seq(S)
  <2>1. PICK S : bulk.queries \in Seq(S)
    BY <1>1 DEF UpdateTypes
  <2>2. PICK T : made \in Seq(T)
    BY <1>6
  <2>3. bulk.queries \in Seq(S \cup T) /\ made \in Seq(S \cup T)
    BY <2>1, <2>2
  <2>4. q.queries \in Seq(S \cup T)
    BY <1>7, <2>3
  <2> QED BY <2>4
<1>10. /\ \A c \in DOMAIN q.queries :
            \/ c \in DOMAIN bulk.queries /\ q.queries[c] = bulk.queries[c]
            \/ \E d \in DOMAIN made : q.queries[c] = made[d]
       /\ \A d \in DOMAIN made : \E c \in DOMAIN q.queries : q.queries[c] = made[d]
  <2>1. PICK S : bulk.queries \in Seq(S)
    BY <1>1 DEF UpdateTypes
  <2>2. PICK T : made \in Seq(T)
    BY <1>6
  <2> DEFINE n == Len(bulk.queries)
             m == Len(made)
  <2>3. /\ n \in Nat /\ m \in Nat /\ DOMAIN bulk.queries = 1..n /\ DOMAIN made = 1..m
        /\ DOMAIN q.queries = 1..(n + m)
        /\ \A c \in 1..n : q.queries[c] = bulk.queries[c]
        /\ \A c \in (n + 1)..(n + m) : q.queries[c] = made[c - n]
    BY <1>7, <2>1, <2>2
  <2> HIDE DEF n, m
  <2>4. ASSUME NEW c \in DOMAIN q.queries
        PROVE  \/ c \in DOMAIN bulk.queries /\ q.queries[c] = bulk.queries[c]
               \/ \E d \in DOMAIN made : q.queries[c] = made[d]
    <3>1. CASE c \in 1..n
      BY <2>3, <3>1
    <3>2. CASE c \notin 1..n
      <4>1. c - n \in DOMAIN made /\ q.queries[c] = made[c - n]
        BY <2>3, <3>2
      <4> QED BY <4>1
    <3> QED BY <3>1, <3>2
  <2>5. ASSUME NEW d \in DOMAIN made
        PROVE  \E c \in DOMAIN q.queries : q.queries[c] = made[d]
    <3>1. d + n \in DOMAIN q.queries /\ q.queries[d + n] = made[d + n - n] /\ d + n - n = d
      BY <2>3
    <3> QED BY <3>1
  <2> QED BY <2>4, <2>5
<1>11. \A c \in DOMAIN q.queries :
            /\ IsRange(DOMAIN q.queries[c])
            /\ \A r \in DOMAIN q.queries[c] : q.queries[c][r] \in q.built
  BY <1>1, <1>3, <1>5, <1>7, <1>8, <1>10 DEF UpdateTypes, CasesListed
<1>12. ASSUME NEW b \in q.built
       PROVE  ListedKey(b.pk)
  <2>1. CASE b \in bulk.built
    BY <1>1, <2>1 DEF CasesListed
  <2>2. CASE b \notin bulk.built
    <3>1. PICK c \in DOMAIN made : b \in Bulk!ToSet(made[c])
      BY <1>7, <2>2
    <3>2. PICK r \in DOMAIN made[c] : b = made[c][r]
      BY <3>1 DEF Bulk!ToSet
    <3>3. c \in DOMAIN chunks /\ r \in DOMAIN chunks[c] /\ b.pk = objects[chunks[c][r]].pk
      BY <1>5, <3>1, <3>2
    <3>4. PICK p \in DOMAIN bulk.items : chunks[c][r] = bulk.items[p]
      BY <1>3, <3>3
    <3>5. ~bulk.once /\ bulk.items = bulk.given
      BY <1>1, <3>4 DEF UpdateTypes
    <3> QED BY <3>3, <3>4, <3>5 DEF ListedKey
  <2> QED BY <2>1, <2>2
<1>13. ASSUME NEW k, ListedKey(k)
       PROVE  \E c \in DOMAIN q.queries : \E r \in DOMAIN q.queries[c] : q.queries[c][r].pk = k
  <2>0. ~bulk.once /\ bulk.items = bulk.given
    BY <1>1, <1>13 DEF UpdateTypes, ListedKey
  <2>1. PICK p \in DOMAIN bulk.items : objects[bulk.items[p]].pk = k
    BY <1>13, <2>0 DEF ListedKey
  <2>2. PICK d \in DOMAIN chunks : \E r \in DOMAIN chunks[d] : chunks[d][r] = bulk.items[p]
    BY <1>3
  <2>3. \E r \in DOMAIN made[d] : made[d][r].pk = k
    BY <1>5, <2>1, <2>2
  <2>4. PICK c \in DOMAIN q.queries : q.queries[c] = made[d]
    BY <1>5, <1>10
  <2> QED BY <2>3, <2>4
<1> QED BY <1>7, <1>9, <1>11, <1>12, <1>13

LEMMA BulkInit == Bulk!Init => BulkInv
BY DEF Bulk!Init, Bulk!With, Bulk!Row, Bulk!NoQuery, BulkInv

\* Only the program's own instances and rows of others change while a query is there.
LEMMA InstanceMade ==
    ASSUME BulkInv, NEW pk \in OwnKeys \cup {Bulk!None}, Bulk!__init__(pk)
    PROVE  BulkInv'
<1>1. objects' \in Seq(Object)
  <2>1. [pk |-> pk, own |-> pk # Bulk!None, value |-> Bulk!Default] \in Object
    BY DEF Object
  <2> QED BY <2>1 DEF BulkInv, Bulk!__init__
<1>2. bulk' = bulk /\ stored' = stored /\ began' = began /\ bulk.kind = "none"
  BY DEF Bulk!__init__, Bulk!NoQuery
<1> QED BY <1>1, <1>2 DEF BulkInv

\* An assignment leaves every key, and the query does not read what it assigns.
LEMMA ValueAssigned ==
    ASSUME BulkInv, NEW i \in DOMAIN objects, NEW v \in BulkValues, Bulk!Assign(i, v)
    PROVE  BulkInv'
<1>1. /\ objects' \in Seq(Object) /\ DOMAIN objects' = DOMAIN objects
      /\ \A j \in DOMAIN objects : objects'[j].pk = objects[j].pk
  <2>1. /\ objects \in Seq(Object) /\ objects' = [objects EXCEPT ![i].value = v]
    BY DEF BulkInv, Bulk!Assign
  <2>2. objects[i] \in Object
    BY <2>1
  <2>3. [objects[i] EXCEPT !.value = v] \in Object
        /\ [objects[i] EXCEPT !.value = v].pk = objects[i].pk
    BY <2>2 DEF Object
  <2> QED BY <2>1, <2>2, <2>3
<1>2. bulk' = bulk /\ stored' = stored /\ began' = began
  BY DEF Bulk!Assign
<1>3. ASSUME bulk.kind = "update" PROVE UpdateInv'
  <2>1. UpdateTypes /\ CasesListed /\ RowsUpdated
    BY <1>3 DEF BulkInv, UpdateInv
  <2>2. ASSUME NEW k PROVE ListedKey(k)' <=> ListedKey(k)
    <3>1. \A p \in DOMAIN bulk.given : bulk.given[p] \in DOMAIN objects
      BY <2>1 DEF UpdateTypes
    <3> QED BY <1>1, <1>2, <3>1 DEF ListedKey
  <2>3. UpdateTypes'
    BY <1>1, <1>2, <2>1 DEF UpdateTypes
  <2>4. CasesListed'
    BY <1>2, <2>1, <2>2 DEF CasesListed, Covered, InCase
  <2>5. RowsUpdated'
    BY <1>2, <2>1, <2>2 DEF RowsUpdated, Stayed, ValuesOf, Updated, InCase
  <2> QED BY <2>3, <2>4, <2>5 DEF UpdateInv
<1> QED BY <1>1, <1>2, <1>3 DEF BulkInv

\* A row that another task adds or deletes is none that has been there all the time.
LEMMA RowsOfOthers ==
    ASSUME BulkInv, NEW k, Bulk!Another(k)
    PROVE  BulkInv'
<1>1. bulk' = bulk /\ objects' = objects
  BY DEF Bulk!Another
<1>2. ASSUME bulk.kind \in {"none", "update"}
      PROVE  /\ DOMAIN began' \subseteq DOMAIN stored' /\ Stayed' \subseteq Stayed
             /\ \A l \in Stayed' : stored'[l] = stored[l] /\ began'[l] = began[l]
             /\ \A l \in DOMAIN stored' : "value" \in DOMAIN stored'[l]
  <2>1. /\ DOMAIN began \subseteq DOMAIN stored
        /\ \A l \in DOMAIN stored : "value" \in DOMAIN stored[l]
    BY <1>2 DEF BulkInv
  <2>2. CASE k \in DOMAIN stored
    <3>1. /\ stored' = [l \in DOMAIN stored \ {k} |-> stored[l]]
          /\ began' = [l \in DOMAIN began \ {k} |-> began[l]]
      BY <2>2 DEF Bulk!Another
    <3> QED BY <2>1, <3>1 DEF Stayed
  <2>3. CASE k \notin DOMAIN stored
    <3>1. /\ stored' = Bulk!With(stored, k, Bulk!Row(Bulk!Default, Bulk!Nobody))
          /\ began' = began
      BY <2>3 DEF Bulk!Another
    <3>2. /\ DOMAIN stored' = DOMAIN stored \cup {k}
          /\ "value" \in DOMAIN stored'[k] /\ \A l \in DOMAIN stored : stored'[l] = stored[l]
      BY <2>3, <3>1 DEF Bulk!With, Bulk!Row
    <3> QED BY <2>1, <2>3, <3>1, <3>2 DEF Stayed
  <2> QED BY <2>2, <2>3
<1>3. ASSUME bulk.kind = "update" PROVE UpdateInv'
  <2>1. UpdateTypes /\ CasesListed /\ RowsUpdated
    BY <1>3 DEF BulkInv, UpdateInv
  <2>2. UpdateTypes' /\ CasesListed'
    BY <1>1, <2>1 DEF UpdateTypes, CasesListed, Covered, InCase, ListedKey
  <2>3. RowsUpdated'
    BY <1>1, <1>2, <1>3, <2>1 DEF RowsUpdated, ValuesOf, Updated, InCase, ListedKey
  <2> QED BY <2>2, <2>3 DEF UpdateInv
<1> QED BY <1>1, <1>2, <1>3 DEF BulkInv

LEMMA CreateMade ==
    ASSUME BulkInv, NEW items, NEW once, NEW size, NEW ignore, NEW update, NEW on,
           Bulk!bulk_create(items, once, size, ignore, update, on)
    PROVE  BulkInv'
<1>1. objects' = objects
  BY DEF Bulk!bulk_create, Bulk!Made
<1>2. "kind" \in DOMAIN bulk' /\ bulk'.kind \in {"refused", "create"}
  BY Zenon DEF Bulk!bulk_create, Bulk!Made, Bulk!Query, Bulk!Refused
<1> QED BY <1>1, <1>2 DEF BulkInv

\* A query that is made has no statements yet, and the rows are those it finds.
LEMMA UpdateMade ==
    ASSUME BulkInv, NEW filter, NEW items \in BulkLists, NEW once \in BOOLEAN,
           NEW size \in BatchSizes, Bulk!bulk_update(filter, items, once, size)
    PROVE  BulkInv'
<1> DEFINE refused == \E p \in DOMAIN items : objects[items[p]].pk = Bulk!None
<1>1. /\ objects' = objects /\ stored' = stored /\ began' = stored /\ bulk = Bulk!NoQuery
      /\ \A p \in DOMAIN items : Bulk!Is(items[p])
      /\ bulk' = IF refused THEN Bulk!Refused
                 ELSE [Bulk!Query("update", "", filter, items, once, size) EXCEPT
                        !.items = IF once THEN <<>> ELSE @]
  BY DEF Bulk!bulk_update, Bulk!Made
<1>2. objects \in Seq(Object) /\ \A k \in DOMAIN stored : "value" \in DOMAIN stored[k]
  BY <1>1 DEF BulkInv, Bulk!NoQuery
<1>3. CASE refused
  <2>1. bulk' = [kind |-> "refused"]
    BY <1>1, <1>3 DEF Bulk!Refused
  <2>2. "kind" \in DOMAIN bulk' /\ bulk'.kind = "refused"
    BY <2>1
  <2>3. objects' \in Seq(Object)
    BY <1>1, <1>2
  <2> QED BY <2>2, <2>3 DEF BulkInv
<1>4. CASE ~refused
  <2>1. bulk' = [kind |-> "update", mode |-> "", filter |-> filter, given |-> items,
                 items |-> IF once THEN <<>> ELSE items, once |-> once, size |-> size,
                 chunks |-> <<>>, statements |-> <<>>, queries |-> <<>>, built |-> {},
                 at |-> 0, count |-> 0, state |-> "made"]
    BY <1>1, <1>4 DEF Bulk!Query
  <2>2. items \in Seq(DOMAIN objects) /\ size \in Nat
    <3>1. items \in Seq(Nat) /\ size \in Nat
      BY BulkAssumption
    <3>2. \A p \in DOMAIN items : items[p] \in DOMAIN objects
      <4>1. DOMAIN objects = 1..Len(objects)
        BY <1>2
      <4>2. \A p \in DOMAIN items : Bulk!Is(items[p])
        BY <1>1
      <4> QED BY <4>1, <4>2 DEF Bulk!Is
    <3>3. items = [p \in 1..Len(items) |-> items[p]] /\ Len(items) \in Nat
          /\ DOMAIN items = 1..Len(items)
      BY <3>1
    <3>4. items \in [1..Len(items) -> DOMAIN objects]
      BY <3>2, <3>3
    <3> QED BY <3>1, <3>3, <3>4
  <2>3. /\ DOMAIN bulk' = UpdateFields /\ bulk'.kind = "update" /\ bulk'.given = items
        /\ bulk'.once = once /\ bulk'.items = (IF once THEN <<>> ELSE items)
        /\ bulk'.size = size /\ bulk'.queries = <<>> /\ bulk'.built = {} /\ bulk'.at = 0
        /\ bulk'.state = "made"
    BY <2>1 DEF UpdateFields
  <2> HIDE DEF refused
  <2>4. UpdateTypes'
    <3>1. <<>> \in Seq({}) /\ DOMAIN <<>> = {}
      OBVIOUS
    <3>2. bulk'.given \in Seq(DOMAIN objects')
      BY <1>1, <2>2, <2>3
    <3>3. /\ \E S : bulk'.queries \in Seq(S)
          /\ \A c \in DOMAIN bulk'.queries : IsRange(DOMAIN bulk'.queries[c])
      BY <2>3, <3>1
    <3> QED BY <2>2, <2>3, <3>2, <3>3 DEF UpdateTypes
  <2>5. CasesListed'
    BY <2>3 DEF CasesListed
  <2>6. RowsUpdated'
    <3>1. stored' = began'
      BY <1>1
    <3> QED BY <2>3, <3>1 DEF RowsUpdated, Stayed
  <2>7. /\ objects' \in Seq(Object) /\ DOMAIN began' \subseteq DOMAIN stored'
        /\ \A k \in DOMAIN stored' : "value" \in DOMAIN stored'[k]
    BY <1>1, <1>2
  <2>8. "kind" \in DOMAIN bulk' /\ bulk'.kind = "update"
    BY <2>3 DEF UpdateFields
  <2> QED BY <2>4, <2>5, <2>6, <2>7, <2>8 DEF BulkInv, UpdateInv
<1> QED BY <1>3, <1>4

\* What bulk_create() does is none of bulk_update()'s.
LEMMA CreateStep ==
    ASSUME BulkInv,
           Bulk!StartCreate \/ Bulk!NextChunk \/ Bulk!execute_many \/ Bulk!EndCreate
    PROVE  BulkInv'
<1>1. objects' = objects /\ bulk.kind = "create"
  BY DEF Bulk!StartCreate, Bulk!NextChunk, Bulk!execute_many, Bulk!EndCreate
<1>2. "kind" \in DOMAIN bulk
  BY DEF BulkInv
<1>3. "kind" \in DOMAIN bulk' /\ bulk'.kind = "create"
  <2>1. CASE Bulk!StartCreate
    BY <1>1, <1>2, <2>1 DEF Bulk!StartCreate
  <2>2. CASE Bulk!NextChunk
    BY <1>1, <1>2, <2>2 DEF Bulk!NextChunk
  <2>3. CASE Bulk!execute_many
    BY <1>1, <1>2, <2>3 DEF Bulk!execute_many
  <2>4. CASE Bulk!EndCreate
    BY <1>1, <1>2, <2>4 DEF Bulk!EndCreate
  <2> QED BY <2>1, <2>2, <2>3, <2>4
<1> QED BY <1>1, <1>3 DEF BulkInv

\* Statements that are built again leave the rows; what is listed has its cases.
LEMMA BuiltStep ==
    ASSUME BulkInv, bulk.kind = "update", NEW q, q = Bulk!_make_query(bulk),
           DOMAIN bulk' = UpdateFields,
           \A f \in {"kind", "filter", "given", "items", "once", "size"} : bulk'[f] = q[f],
           bulk'.queries = q.queries, bulk'.built = q.built,
           bulk'.at \in Nat, bulk'.state = "running" => bulk'.at # 0,
           UNCHANGED <<objects, stored, began>>
    PROVE  /\ UpdateTypes' /\ CasesListed'
           /\ \A k \in Stayed' : stored'[k].value \in ValuesOf(k)' \cup {began'[k].value}
           /\ \A k : ListedKey(k)' <=> ListedKey(k)
           /\ \A k : Updated(k) => Updated(k)'
<1>1. UpdateTypes /\ CasesListed /\ RowsUpdated
  BY DEF BulkInv, UpdateInv
<1>2. \A f \in {"kind", "filter", "given", "items", "once", "size"} : bulk'[f] = bulk[f]
  BY CasesMade DEF UpdateFields
<1>3. \A k : ListedKey(k)' <=> ListedKey(k)
  BY <1>2 DEF ListedKey
<1>4. UpdateTypes'
  <2>1. /\ \E S : bulk'.queries \in Seq(S)
        /\ \A c \in DOMAIN bulk'.queries : IsRange(DOMAIN bulk'.queries[c])
    BY CasesMade
  <2>2. bulk'.given \in Seq(DOMAIN objects') /\ bulk'.size \in Nat
        /\ bulk'.items = IF bulk'.once THEN <<>> ELSE bulk'.given
    BY <1>1, <1>2 DEF UpdateTypes
  <2> QED BY <2>1, <2>2 DEF UpdateTypes
<1>5. CasesListed'
  <2>1. /\ \A c \in DOMAIN bulk'.queries : \A r \in DOMAIN bulk'.queries[c] :
            bulk'.queries[c][r] \in bulk'.built
        /\ \A b \in bulk'.built : ListedKey(b.pk)
        /\ \A k : ListedKey(k) => Covered(k)'
    BY CasesMade DEF Covered, InCase
  <2> QED BY <1>3, <2>1 DEF CasesListed
<1>6. \A k : ValuesOf(k) \subseteq ValuesOf(k)'
  <2>1. bulk.built \subseteq bulk'.built
    BY CasesMade
  <2> QED BY <2>1 DEF ValuesOf
<1>7. \A k \in Stayed' : stored'[k].value \in ValuesOf(k)' \cup {began'[k].value}
  BY <1>1, <1>6 DEF RowsUpdated, Stayed
<1>8. \A k : Updated(k) => Updated(k)'
  BY <1>2, <1>6 DEF Updated
<1> QED BY <1>3, <1>4, <1>5, <1>7, <1>8

LEMMA SqlStep == BulkInv /\ Bulk!sql => BulkInv'
<1> SUFFICES ASSUME BulkInv, Bulk!sql PROVE BulkInv'
  OBVIOUS
<1> DEFINE q == Bulk!_make_query(bulk)
<1>1. /\ bulk.kind = "update" /\ bulk.state # "running" /\ bulk.queries = <<>> /\ bulk' = q
      /\ objects' = objects /\ stored' = stored /\ began' = began
  BY DEF Bulk!sql, Bulk!Idle
<1> HIDE DEF q
<1>2. /\ DOMAIN bulk' = UpdateFields
      /\ \A f \in UpdateFields \ {"queries", "built"} : bulk'[f] = bulk[f]
  BY <1>1, CasesMade DEF q
<1>3. UpdateTypes /\ CasesListed /\ RowsUpdated
  BY <1>1 DEF BulkInv, UpdateInv
<1>4. /\ bulk'.kind = "update" /\ bulk'.state = bulk.state /\ "kind" \in DOMAIN bulk'
      /\ bulk'.at \in Nat /\ (bulk'.state = "running" => bulk'.at # 0)
  BY <1>1, <1>2, <1>3 DEF UpdateFields, UpdateTypes
<1>5. /\ UpdateTypes' /\ CasesListed'
      /\ \A k \in Stayed' : stored'[k].value \in ValuesOf(k)' \cup {began'[k].value}
      /\ \A k : ListedKey(k)' <=> ListedKey(k)
  BY <1>1, <1>2, <1>4, BuiltStep DEF q
<1>6. bulk.state = "done" => \A k : ~ListedKey(k)
  BY <1>1, <1>3 DEF CasesListed, Covered
<1>7. RowsUpdated'
  BY <1>1, <1>4, <1>5, <1>6 DEF RowsUpdated
<1> QED BY <1>1, <1>4, <1>5, <1>7 DEF BulkInv, UpdateInv

LEMMA UpdateStarted == BulkInv /\ Bulk!StartUpdate => BulkInv'
<1> SUFFICES ASSUME BulkInv, Bulk!StartUpdate PROVE BulkInv'
  OBVIOUS
<1> DEFINE q == Bulk!_make_query(bulk)
<1>1. /\ bulk.kind = "update"
      /\ bulk' = [q EXCEPT !.state = "running", !.at = 1, !.count = 0]
      /\ objects' = objects /\ stored' = stored /\ began' = began
  BY DEF Bulk!StartUpdate
<1> HIDE DEF q
<1>2. DOMAIN q = UpdateFields /\ q.kind = "update"
  <2>1. DOMAIN q = UpdateFields /\ \A f \in UpdateFields \ {"queries", "built"} : q[f] = bulk[f]
    BY <1>1, CasesMade DEF q
  <2> QED BY <1>1, <2>1 DEF UpdateFields
<1>3. /\ DOMAIN bulk' = UpdateFields /\ bulk'.state = "running" /\ bulk'.at = 1
      /\ \A f \in UpdateFields \ {"state", "at", "count"} : bulk'[f] = q[f]
  BY <1>1, <1>2 DEF UpdateFields
<1>4. /\ \A f \in {"kind", "filter", "given", "items", "once", "size"} : bulk'[f] = q[f]
      /\ bulk'.queries = q.queries /\ bulk'.built = q.built /\ bulk'.kind = "update"
  BY <1>2, <1>3 DEF UpdateFields
<1>5. /\ UpdateTypes' /\ CasesListed'
      /\ \A k \in Stayed' : stored'[k].value \in ValuesOf(k)' \cup {began'[k].value}
  BY <1>1, <1>3, <1>4, BuiltStep DEF q
<1>6. DOMAIN bulk'.queries \subseteq Nat \ {0}
  <2>1. PICK S : bulk'.queries \in Seq(S)
    BY <1>5 DEF UpdateTypes
  <2> QED BY <2>1
<1>7. RowsUpdated'
  <2>1. \A c \in DOMAIN bulk'.queries : ~(c < bulk'.at)
    BY <1>3, <1>6
  <2> QED BY <1>3, <1>5, <2>1 DEF RowsUpdated
<1>8. "kind" \in DOMAIN bulk'
  BY <1>3 DEF UpdateFields
<1> QED BY <1>1, <1>4, <1>5, <1>7, <1>8 DEF BulkInv, UpdateInv

\* What a CASE sets of a row that it names
LEMMA ChosenIs ==
    ASSUME NEW case, IsRange(DOMAIN case), NEW k, \E p \in DOMAIN case : case[p].pk = k
    PROVE  \E p \in DOMAIN case : case[p].pk = k /\ Bulk!Chosen(case, k) = case[p].value
<1> DEFINE First(p) == /\ case[p].pk = k
                       /\ \A r \in 1..(p - 1) : case[r].pk # k
<1>1. \E p \in DOMAIN case : First(p)
  <2> DEFINE S == {p \in DOMAIN case : case[p].pk = k}
  <2>1. PICK n \in Nat : DOMAIN case = 1..n
    BY DEF IsRange
  <2>2. S \in SUBSET Nat /\ S # {}
    BY <2>1
  <2>3. PICK p \in S : \A r \in S : p <= r
    <3> HIDE DEF S
    <3> QED BY <2>2, HasLeast
  <2>4. \A r \in 1..(p - 1) : r \in DOMAIN case /\ ~(p <= r)
    BY <2>1, <2>3
  <2> QED BY <2>3, <2>4
<1>2. PICK p \in DOMAIN case : First(p) /\ p = CHOOSE r \in DOMAIN case : First(r)
  BY <1>1
<1> QED BY <1>2 DEF Bulk!Chosen

\* A statement that is sent updates the rows of its CASE that are there.
LEMMA StatementSent == BulkInv /\ Bulk!execute_query => BulkInv'
<1> SUFFICES ASSUME BulkInv, Bulk!execute_query PROVE BulkInv'
  OBVIOUS
<1> DEFINE case == bulk.queries[bulk.at]
           selected == Bulk!Selected(case)
<1>1. /\ bulk.kind = "update" /\ bulk.state = "running" /\ bulk.at <= Len(bulk.queries)
      /\ objects' = objects /\ began' = began
  BY DEF Bulk!execute_query
<1>2. UpdateTypes /\ CasesListed /\ RowsUpdated /\ "kind" \in DOMAIN bulk
  BY <1>1 DEF BulkInv, UpdateInv
<1>3. bulk.at \in DOMAIN bulk.queries /\ bulk.at \in Nat
  <2>1. PICK S : bulk.queries \in Seq(S)
    BY <1>2 DEF UpdateTypes
  <2>2. bulk.at \in Nat /\ bulk.at # 0
    BY <1>1, <1>2 DEF UpdateTypes
  <2> QED BY <1>1, <2>1, <2>2
<1>4. CASE case = <<>>
  <2>1. bulk' = [bulk EXCEPT !.state = "failed"] /\ stored' = stored
    BY <1>4 DEF Bulk!execute_query
  <2>2. /\ DOMAIN bulk' = UpdateFields /\ bulk'.state = "failed"
        /\ \A f \in UpdateFields \ {"state"} : bulk'[f] = bulk[f]
    BY <1>2, <2>1 DEF UpdateTypes, UpdateFields
  <2>3. /\ bulk'.queries = bulk.queries /\ bulk'.built = bulk.built /\ bulk'.at = bulk.at
        /\ bulk'.given = bulk.given /\ bulk'.once = bulk.once /\ bulk'.items = bulk.items
        /\ bulk'.size = bulk.size
    BY <2>2 DEF UpdateFields
  <2>4. UpdateTypes'
    BY <1>1, <1>2, <2>2, <2>3 DEF UpdateTypes
  <2>5. CasesListed'
    BY <1>1, <1>2, <2>2, <2>3 DEF CasesListed, Covered, InCase, ListedKey
  <2>6. RowsUpdated'
    BY <1>1, <1>2, <2>1, <2>2 DEF RowsUpdated, Stayed, ValuesOf, UpdateFields
  <2>7. "kind" \in DOMAIN bulk' /\ bulk'.kind = "update"
    BY <1>1, <2>2 DEF UpdateFields
  <2> QED BY <1>1, <2>1, <2>4, <2>5, <2>6, <2>7 DEF BulkInv, UpdateInv
<1>5. CASE case # <<>>
  <2>1. /\ stored' = [k \in DOMAIN stored |->
                        IF k \in selected
                        THEN [stored[k] EXCEPT !.value = Bulk!Chosen(case, k)] ELSE stored[k]]
        /\ bulk' = [bulk EXCEPT !.at = bulk.at + 1,
                                !.count = bulk.count + Bulk!Cardinality(selected)]
    BY <1>5 DEF Bulk!execute_query
  <2>2. /\ DOMAIN bulk' = UpdateFields /\ bulk'.at = bulk.at + 1
        /\ \A f \in UpdateFields \ {"at", "count"} : bulk'[f] = bulk[f]
    BY <1>2, <2>1 DEF UpdateTypes, UpdateFields
  <2>3. /\ bulk'.kind = "update" /\ bulk'.state = "running" /\ bulk'.queries = bulk.queries
        /\ bulk'.built = bulk.built /\ bulk'.filter = bulk.filter /\ bulk'.given = bulk.given
        /\ bulk'.once = bulk.once /\ bulk'.items = bulk.items /\ bulk'.size = bulk.size
        /\ "kind" \in DOMAIN bulk'
    BY <1>1, <2>2 DEF UpdateFields
  <2>4. UpdateTypes' /\ CasesListed'
    BY <1>1, <1>2, <1>3, <2>2, <2>3 DEF UpdateTypes, CasesListed, Covered, InCase, ListedKey
  <2>5. \A k \in DOMAIN stored : "value" \in DOMAIN stored[k]
    BY <1>1 DEF BulkInv
  <2>6. ASSUME NEW k \in selected
        PROVE  k \in DOMAIN stored /\ Bulk!Chosen(case, k) \in ValuesOf(k)
    <3>1. k \in DOMAIN stored /\ \E p \in DOMAIN case : case[p].pk = k
      BY DEF Bulk!Selected
    <3>2. IsRange(DOMAIN case) /\ \A p \in DOMAIN case : case[p] \in bulk.built
      BY <1>2, <1>3 DEF UpdateTypes, CasesListed
    <3> HIDE DEF case
    <3>3. PICK p \in DOMAIN case : case[p].pk = k /\ Bulk!Chosen(case, k) = case[p].value
      BY <3>1, <3>2, ChosenIs
    <3> QED BY <3>1, <3>2, <3>3 DEF ValuesOf
  <2>7. \A k \in DOMAIN stored \ selected : InCase(bulk.at, k) => stored[k].value \notin bulk.filter
    BY DEF Bulk!Selected, InCase
  <2> HIDE DEF selected, case
  <2>8. /\ DOMAIN stored' = DOMAIN stored
        /\ \A k \in selected : /\ "value" \in DOMAIN stored'[k]
                               /\ stored'[k].value \in ValuesOf(k)
        /\ \A k \in DOMAIN stored \ selected : stored'[k] = stored[k]
    BY <2>1, <2>5, <2>6
  <2>9. \A k : ValuesOf(k)' = ValuesOf(k)
    BY <2>3 DEF ValuesOf
  <2>10. Stayed' = Stayed /\ Stayed \subseteq DOMAIN stored
    BY <1>1, <2>8 DEF Stayed
  <2>11. \A k \in Stayed : Updated(k) \/ InCase(bulk.at, k) => Updated(k)'
    BY <2>3, <2>7, <2>8, <2>9, <2>10 DEF Updated
  <2>12. RowsUpdated'
    <3>1. \A k \in Stayed' : stored'[k].value \in ValuesOf(k)' \cup {began'[k].value}
      BY <1>1, <1>2, <2>8, <2>9, <2>10 DEF RowsUpdated
    <3>2. ASSUME NEW c \in DOMAIN bulk.queries, c < bulk.at + 1, NEW k \in Stayed, InCase(c, k)
          PROVE  Updated(k)'
      <4>1. c \in Nat
        <5>1. PICK S : bulk.queries \in Seq(S)
          BY <1>2 DEF UpdateTypes
        <5> QED BY <5>1
      <4>2. c < bulk.at \/ c = bulk.at
        BY <1>3, <3>2, <4>1
      <4> QED BY <1>1, <1>2, <2>11, <3>2, <4>2 DEF RowsUpdated
    <3>3. \A c, k : InCase(c, k)' <=> InCase(c, k)
      BY <2>3 DEF InCase
    <3> QED BY <2>2, <2>3, <2>10, <3>1, <3>2, <3>3 DEF RowsUpdated
  <2> QED BY <1>1, <2>3, <2>4, <2>5, <2>8, <2>12 DEF BulkInv, UpdateInv
<1> QED BY <1>4, <1>5

LEMMA UpdateEnded == BulkInv /\ Bulk!EndUpdate => BulkInv'
<1> SUFFICES ASSUME BulkInv, Bulk!EndUpdate PROVE BulkInv'
  OBVIOUS
<1>1. /\ bulk.kind = "update" /\ bulk.state = "running" /\ bulk.at > Len(bulk.queries)
      /\ bulk' = [bulk EXCEPT !.state = "done"]
      /\ objects' = objects /\ stored' = stored /\ began' = began
  BY DEF Bulk!EndUpdate
<1>2. UpdateTypes /\ CasesListed /\ RowsUpdated
  BY <1>1 DEF BulkInv, UpdateInv
<1>3. /\ DOMAIN bulk' = UpdateFields /\ bulk'.state = "done"
      /\ \A f \in UpdateFields \ {"state"} : bulk'[f] = bulk[f]
  BY <1>1, <1>2 DEF UpdateTypes, UpdateFields
<1>4. UpdateTypes' /\ CasesListed'
  BY <1>1, <1>2, <1>3 DEF UpdateTypes, CasesListed, Covered, InCase, ListedKey, UpdateFields
<1>5. ASSUME NEW k \in Stayed, ListedKey(k) PROVE Updated(k)
  <2>1. PICK c \in DOMAIN bulk.queries : InCase(c, k)
    BY <1>1, <1>2, <1>5 DEF CasesListed, Covered
  <2>2. c < bulk.at
    <3>1. PICK S : bulk.queries \in Seq(S)
      BY <1>2 DEF UpdateTypes
    <3>2. bulk.at \in Nat
      BY <1>2 DEF UpdateTypes
    <3> QED BY <1>1, <3>1, <3>2
  <2> QED BY <1>1, <1>2, <2>1, <2>2 DEF RowsUpdated
<1>6. \A k : /\ ValuesOf(k)' = ValuesOf(k)
             /\ ListedKey(k)' <=> ListedKey(k)
             /\ Updated(k)' <=> Updated(k)
  BY <1>1, <1>3 DEF ValuesOf, ListedKey, Updated, UpdateFields
<1>7. RowsUpdated'
  BY <1>1, <1>2, <1>3, <1>5, <1>6 DEF RowsUpdated, Stayed
<1>8. "kind" \in DOMAIN bulk' /\ bulk'.kind = "update"
  BY <1>1, <1>3 DEF UpdateFields
<1> QED BY <1>1, <1>4, <1>7, <1>8 DEF BulkInv, UpdateInv

LEMMA BulkStep == BulkInv /\ [Bulk!Next]_(Bulk!vars) => BulkInv'
<1> SUFFICES ASSUME BulkInv, [Bulk!Next]_(Bulk!vars) PROVE BulkInv'
  OBVIOUS
<1>1. CASE \E pk \in OwnKeys \cup {Bulk!None} : Bulk!__init__(pk)
  BY <1>1, InstanceMade
<1>2. CASE \E i \in DOMAIN objects, v \in BulkValues : Bulk!Assign(i, v)
  BY <1>2, ValueAssigned
<1>3. CASE \E k \in OwnKeys : Bulk!Another(k)
  BY <1>3, RowsOfOthers
<1>4. CASE \E items \in BulkLists, once \in BOOLEAN, size \in BatchSizes,
              ignore, update, on \in BOOLEAN :
                Bulk!bulk_create(items, once, size, ignore, update, on)
  BY <1>4, CreateMade
<1>5. CASE \E items \in BulkLists, once \in BOOLEAN, size \in BatchSizes,
              filter \in BulkFilters : Bulk!bulk_update(filter, items, once, size)
  BY <1>5, UpdateMade
<1>6. CASE Bulk!StartCreate \/ Bulk!NextChunk \/ Bulk!execute_many \/ Bulk!EndCreate
  BY <1>6, CreateStep
<1>7. CASE Bulk!sql
  BY <1>7, SqlStep
<1>8. CASE Bulk!StartUpdate
  BY <1>8, UpdateStarted
<1>9. CASE Bulk!execute_query
  BY <1>9, StatementSent
<1>10. CASE Bulk!EndUpdate
  BY <1>10, UpdateEnded
<1>11. CASE UNCHANGED Bulk!vars
  <2>1. objects' = objects /\ bulk' = bulk /\ stored' = stored /\ began' = began
    BY <1>11 DEF Bulk!vars
  <2> QED BY <2>1 DEF BulkInv, UpdateInv, UpdateTypes, CasesListed, RowsUpdated, Covered,
                      InCase, ListedKey, ValuesOf, Updated, Stayed
<1> QED BY <1>1, <1>2, <1>3, <1>4, <1>5, <1>6, <1>7, <1>8, <1>9, <1>10, <1>11 DEF Bulk!Next

(* However many instances a bulk_update() is given, whatever batch size they *)
(* are split by, however often its statements are built and sent, and        *)
(* whatever other tasks write or assign meanwhile: it sets listed rows only, *)
(* to values their instances had, and once it is done it has left out none   *)
(* that its filter lets through (queryset.py:1757).                          *)
THEOREM BulkUpdatesExact == Bulk!Spec => []UpdatesListed
<1>1. BulkInv => UpdatesListed
  BY UpdatesSafe
<1> QED BY <1>1, BulkInit, BulkStep, PTL DEF Bulk!Spec
=============================================================================
