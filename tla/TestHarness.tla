----------------------------- MODULE TestHarness -----------------------------
(***************************************************************************)
(* The test harness applications use (contrib/test/__init__.py): one test  *)
(* database that is made once, and cases that run on it in a transaction   *)
(* (TestCase), on it and empty it afterwards (TruncationTestCase), on a    *)
(* database of their own (IsolatedTestCase), or call Tortoise.init()       *)
(* themselves (SimpleTestCase).  Between two tests Tortoise looks as if it *)
(* had never been initialised.                                             *)
(*                                                                         *)
(* One alias, "models".  The test database is SQLite in memory, as it is   *)
(* by default: closing its client loses it.  The database is external.     *)
(***************************************************************************)
EXTENDS Naturals, FiniteSets

CONSTANT MaxTests

VARIABLES
    phase,      \* "start", "between", "running" or "done"
    kind,       \* of the running test
    test,       \* number of the running or last test
    config,     \* connections._db_config: which dictionary it is
    configs,    \* the dictionaries: whose settings they hold; None when empty
    base,       \* the client registered in the storage; None when there is none
    inited,     \* Tortoise._inited
    rows,       \* of each database: the tests that left a row in it
    tables,     \* the databases that have tables
    trx,        \* the transaction of a TestCase: "none", "open" or "final"
    backup,     \* rows of the test database when it began
    skipped     \* a clean-up did not run to its end, or left links

vars == <<phase, kind, test, config, configs, base, inited, rows, tables, trx, backup, skipped>>

None      == "none"
Kinds     == {"Simple", "Isolated", "Truncation", "Test"}
Databases == {"default", "isolated", "own"}
Trx       == <<trx, backup>>

Init ==
    /\ phase = "start" /\ kind = "Simple" /\ test = 0
    /\ config = "current" /\ configs = [current |-> None, saved |-> None]
    /\ base = None /\ inited = FALSE
    /\ rows = [d \in Databases |-> {}] /\ tables = {}
    /\ trx = "none" /\ backup = {} /\ skipped = FALSE

-----------------------------------------------------------------------------
(* What the harness calls *)

\* initializer(): makes the database, keeps its client and a copy of the
\* configuration, and clears both.
initializer ==
    /\ phase = "start" /\ phase' = "between"
    /\ configs' = [current |-> None, saved |-> "default"]
    /\ tables' = {"default"}
    /\ UNCHANGED <<kind, test, config, base, inited, rows, Trx, skipped>>

\* _restore_default(): the kept client and a copy of the kept configuration
_restore_default ==
    /\ base' = "default" /\ inited' = TRUE
    /\ config' = "current"
    /\ configs' = [configs EXCEPT !.current = configs.saved]

\* _reset_conn_state() and the end of asyncTearDown()
_reset_conn_state ==
    /\ base' = None /\ inited' = FALSE
    /\ configs' = [configs EXCEPT ![config] = None]
    /\ UNCHANGED config

\* close(), of a client whose database is in memory
Closed(d) ==
    /\ tables' = tables \ {d}
    /\ rows' = [e \in Databases |-> IF e = d THEN {} ELSE rows[e]]

\* What is there when the client registered so far is closed, and a client for d is
\* made, on a database of its own
Made == inited \/ base = None
Others(d) == (IF inited THEN Databases \ {base} ELSE Databases) \ (IF Made THEN {d} ELSE {})
Left(d) == [e \in Databases |-> IF e \in Others(d) THEN rows[e] ELSE {}]

\* Tortoise.init() closes and discards what is registered when it ran before; then
\* the storage gets a client of the settings, unless it has one.
InitDb(d) ==
    /\ configs' = [configs EXCEPT ![config] = d]
    /\ base' = IF Made THEN d ELSE base
    /\ rows' = Left(d)
    /\ UNCHANGED config

\* init() followed by generate_schemas(safe=False), which would raise for tables that
\* are there already: those of a client that stays registered
InitAndCreate(d) ==
    /\ Made \/ base \notin tables
    /\ InitDb(d) /\ inited' = TRUE
    /\ tables' = (tables \cap Others(d)) \cup {base'}

-----------------------------------------------------------------------------
(* setUp of the four kinds of test *)

Start(k) ==
    /\ phase = "between" /\ test < MaxTests
    /\ kind' = k /\ test' = test + 1

SetUpSimple ==
    /\ Start("Simple") /\ phase' = "running"
    /\ UNCHANGED <<config, configs, base, inited, rows, tables, Trx, skipped>>

SetUpIsolated ==
    /\ Start("Isolated") /\ phase' = "running"
    /\ InitAndCreate("isolated") /\ UNCHANGED <<Trx, skipped>>

\* Models that do not resolve, after the connections were made: no teardown follows.
FailSetUpIsolated ==
    /\ Start("Isolated") /\ UNCHANGED phase
    /\ InitDb("isolated") /\ tables' = tables \cap Others("isolated")
    /\ UNCHANGED <<inited, Trx, skipped>>

SetUpTruncation ==
    /\ Start("Truncation") /\ phase' = "running"
    /\ _restore_default /\ UNCHANGED <<rows, tables, Trx, skipped>>

\* TestCase.asyncSetUp(): the wrapper is registered in the test's own context.
SetUpTest ==
    /\ Start("Test") /\ phase' = "running"
    /\ _restore_default
    /\ trx' = "open" /\ backup' = rows["default"]
    /\ UNCHANGED <<rows, tables, skipped>>

\* The transaction does not start: no teardown follows.
FailSetUpTest ==
    /\ Start("Test") /\ UNCHANGED phase
    /\ _restore_default
    /\ skipped' = TRUE /\ UNCHANGED <<rows, tables, Trx>>

-----------------------------------------------------------------------------
(* What a test does *)

Running(K) == phase = "running" /\ kind \in K

Write ==
    /\ Running({"Isolated", "Truncation", "Test"}) /\ base \in tables
    /\ rows' = [rows EXCEPT ![base] = @ \cup {test}]
    /\ UNCHANGED <<phase, kind, test, config, configs, base, inited, tables, Trx, skipped>>

\* A block that an error leaves is a nested one in a TestCase: it rolls back and
\* finalises the transaction of the test.
FailBlock ==
    /\ Running({"Test"}) /\ trx = "open"
    /\ trx' = "final" /\ rows' = [rows EXCEPT !["default"] = backup]
    /\ UNCHANGED <<phase, kind, test, config, configs, base, inited, tables, backup, skipped>>

InitOwn ==
    /\ Running({"Simple"}) /\ InitAndCreate("own")
    /\ UNCHANGED <<phase, kind, test, Trx, skipped>>

\* _drop_databases(): close_all(), db_delete() and discard()
_drop_databases == Closed(base) /\ base # None /\ inited

DropOwn ==
    /\ Running({"Simple"}) /\ _drop_databases /\ base' = None
    /\ UNCHANGED <<phase, kind, test, config, configs, inited, Trx, skipped>>

-----------------------------------------------------------------------------
(* tearDown *)

Finish(k) == Running({k}) /\ phase' = "between" /\ UNCHANGED <<kind, test>>

TearDownSimple ==
    /\ Finish("Simple") /\ _reset_conn_state
    /\ UNCHANGED <<rows, tables, Trx, skipped>>

TearDownIsolated ==
    /\ Finish("Isolated") /\ _drop_databases /\ _reset_conn_state
    /\ UNCHANGED <<Trx, skipped>>

\* A bug: the rows stay.
TruncateNothing ==
    Finish("Truncation") /\ _reset_conn_state /\ UNCHANGED <<rows, tables, Trx, skipped>>

\* _restore_default(), a DELETE for every model, and the reset.  Links of a many-to-many
\* relation are of no model: they stay when the database has no constraint for them.
TearDownTruncation ==
    /\ Finish("Truncation") /\ "default" \in tables /\ _reset_conn_state
    /\ \/ rows' = [rows EXCEPT !["default"] = {}] /\ UNCHANGED skipped
       \/ rows["default"] # {} /\ skipped' = TRUE /\ UNCHANGED rows
    /\ UNCHANGED <<tables, Trx>>

\* The database refuses to delete a row that others refer to without a cascade, or was
\* lost: what rows there are stay, and the rest of the teardown is not reached.
FailTruncation ==
    /\ Finish("Truncation") /\ _restore_default
    /\ rows["default"] # {} \/ "default" \notin tables
    /\ skipped' = TRUE
    /\ UNCHANGED <<rows, tables, Trx>>

\* TransactionTestContext.__aexit__() rolls back; of a transaction that is final that
\* raises, and the rest of the teardown is not reached.
TearDownTest ==
    /\ Finish("Test") /\ trx' = "none" /\ backup' = {}
    /\ IF trx = "open"
       THEN /\ rows' = [rows EXCEPT !["default"] = backup]
            /\ _reset_conn_state /\ UNCHANGED skipped
       ELSE skipped' = TRUE /\ UNCHANGED <<rows, config, configs, base, inited>>
    /\ UNCHANGED tables

finalizer ==
    /\ phase = "between" /\ phase' = "done"
    /\ base' = None /\ inited' = TRUE
    /\ config' = "current" /\ configs' = [configs EXCEPT !.current = configs.saved]
    /\ Closed("default")
    /\ UNCHANGED <<kind, test, Trx, skipped>>

Next ==
    \/ initializer \/ finalizer
    \/ SetUpSimple \/ SetUpIsolated \/ SetUpTruncation \/ SetUpTest
    \/ FailSetUpIsolated \/ FailSetUpTest
    \/ Write \/ FailBlock \/ InitOwn \/ DropOwn
    \/ TearDownSimple \/ TearDownIsolated \/ TearDownTruncation \/ FailTruncation \/ TearDownTest

Spec == Init /\ [][Next]_vars

-----------------------------------------------------------------------------
TypeOK ==
    /\ phase \in {"start", "between", "running", "done"} /\ kind \in Kinds
    /\ test \in 0..MaxTests
    /\ config \in {"current", "saved"}
    /\ configs \in [{"current", "saved"} -> Databases \cup {None}]
    /\ base \in Databases \cup {None} /\ inited \in BOOLEAN
    /\ rows \in [Databases -> SUBSET (1..MaxTests)] /\ tables \subseteq Databases
    /\ trx \in {"none", "open", "final"} /\ backup \subseteq 1..MaxTests

(* A test sees no row of an earlier one, whichever kinds of test ran before, *)
(* unless a clean-up was cut short, of a TestCase whose transaction was      *)
(* final already or did not start or of a TruncationTestCase whose rows      *)
(* could not be deleted, or left links; that of an IsolatedTestCase not even *)
(* then: "guarantees a fresh DB".  And without such a clean-up the test      *)
(* database outlives every other one that is made and dropped between        *)
(* initializer() and finalizer(); the tests that use it have its client and  *)
(* its settings in any case, also after a setUp that failed.                 *)
TestsIsolated ==
    /\ phase = "running" /\ base # None /\ (kind = "Isolated" \/ ~skipped) =>
            rows[base] \subseteq {test}
    /\ phase \in {"between", "running"} /\ ~skipped => "default" \in tables
    /\ Running({"Truncation", "Test"}) => base = "default" /\ configs[config] = "default"
=============================================================================
