# A TLA+ verification of Tortoise ORM

The modules here model what Tortoise ORM does between the statements it sends:
the clients that asyncio tasks share and the transactions they open on them, the
methods of `Model` and `QuerySet` that are made of several statements, the
registry that says which client a task talks to, and the objects a program builds,
keeps and uses again (Q expressions, querysets, instances, prefetches, classes,
tests).  Paths below are relative to `src/tortoise/`.

| module | what it is |
| --- | --- |
| `SqliteTransactions` | the SQLite client: one connection, one lock, transaction blocks |
| `AtomicStore` | what that client promises: the abstract specification it implements |
| `SqliteTransactionsProofs` | type correctness, mutual exclusion and the clean idle connection, proved |
| `SqliteAtomicityProofs` | wrapper locks, isolation, atomic blocks and `StoreSpec`, proved |
| `PooledTransactions` | the asyncpg, psycopg and MySQL clients: a pool, blocks side by side |
| `PooledTransactionsProofs` | type correctness and one user per connection, proved |
| `PooledAtomicityProofs` | atomicity of bulk inserts and blocks, and `StoreSpec`, proved |
| `TransactionStore` | what they promise: the abstract specification they implement |
| `ModelWrites` | `get_or_create`, `update_or_create`, `save`, `delete` called concurrently |
| `ModelWritesProofs` | type correctness and every safety property of `ModelWrites`, proved |
| `ConnectionRegistry` | `connections`: contexts of tasks, blocks, `init` and `close_all` |
| `ConnectionRegistryProofs` | type correctness and the properties of `ConnectionRegistry`, proved |
| `Library` | `QuerySets`, `Instances`, `Prefetch`, `TestHarness`, `Fields`, `BulkWrites` |
| `LibraryProofs` | theorems about these but `Fields` |
| `FieldsProofs` | theorems about `Fields` |
| `BulkWrites` | `bulk_create` and `bulk_update`: chunks, generators, conflicts |
| `Instances` | what an instance knows of its row; rows of many-to-many relations |
| `QuerySets` | clones, derived queries, statements built again, slices |
| `QExpressions` | Q objects, the operators of filters and NULL, joins, WHERE and HAVING |
| `Prefetch` | the queries of a prefetch, side by side, and what they leave |
| `Definitions` | relations initialised in any order, the order of tables |
| `Fields` | conversions of values on the way to a SQLite row and back |
| `TestHarness` | the four kinds of test cases and what they leave to the next test |
| `MC...` | the constants, views and compositions of TLC's runs |

## 1. Inventory

### Clients and transactions (modelled)

`backends/base/client.py`, `backends/*/client.py`, `transactions.py`.

*State.* `SqliteClient` has a `_connection`, created by the first task that needs
it, and a `_lock`.  A pooled client has a `_pool`.  Each `in_transaction()` makes
a `TransactionWrapper` with `_finalized`, its own `_lock`, and a `_trxlock`: the
client's lock on SQLite, its own lock elsewhere.  The context of each task
(`connections`, a `ContextVar`) says whether its statements go to the client or
to a wrapper.

*Operations.* `create_connection`, `execute_insert`, `execute_many`,
`execute_query`, `execute_query_dict`, `execute_script`; `__aenter__` and
`__aexit__` of `ConnectionWrapper`, `PoolConnectionWrapper`,
`TransactionContext`, `TransactionContextPooled` and their nested forms; `start`,
`commit` and `rollback` of the wrappers.

*What is hard.* Every `await` lets other tasks run; an exception or a
cancellation may end any of them, and what comes after it is then skipped.  Tasks
spawned inside of a block inherit its wrapper.  Blocks nest in one wrapper.  A
SQLite connection is shared by every task, a pool has an end.

*Correct means.* The rows of a block are all committed or all rolled back; no
row of another task gets into a block; a bulk insert is atomic; a connection or a
lock has one user at a time and comes back; whoever waits is served.

### Writes of `Model` (modelled)

`models.py`, `queryset.py`, `backends/base/executor.py`.  `get_or_create` reads,
and creates in a block of its own; on `IntegrityError` it reads again.
`update_or_create` selects for update in one block and creates in another.
`save` and `delete` work on an instance that was read earlier.  Signal listeners
run before and after each of them, and may raise.  Correct means: one row per
unique value however many tasks ask for it, one of them told that it created it,
no lost update, no trace of a call that raised in its block, and no deadlock.

### Connection registry (`connection.py`, `router.py`; modelled)

A dictionary of clients per alias in a `ContextVar` whose default dictionary is
shared by all contexts.  `get` creates clients lazily in the dictionary of the
current context, `set` copies it, `reset` goes back and carries new clients over,
`discard` and `close_all` empty it.  Hard: the dictionaries of tasks share or
copy entries depending on when the task was spawned.  Correct means: a wrapper is
visible inside of its block only, clients have the settings in force, and no
client is lost while it is open.

### Tortoise (`__init__.py`; its state modelled)

Class attributes `apps`, `_connections`, `_inited`; `init`, `_init_relations`,
`generate_schemas`, `close_connections`, `_drop_databases`, `run_async`.  Hard:
initialisation again while something runs; an error half-way; models that refer
to models of a later call.

### Test harness (`contrib/test`; modelled)

`initializer`, `finalizer`, four classes of test cases.  It saves the global
state and restores it around each test, and wraps `TestCase` in a transaction
that is always rolled back.  Correct means: no test sees what another one left.

### Models and relations (`models.py`, `fields/relational.py`; modelled)

Instances have `_saved_in_db`, `_partial`, `_custom_generated_pk` and caches of
related objects; `ReverseRelation` has `_fetched` and `related_objects`.  Hard:
what an instance believes of its row while rows come and go.  Correct means: a
`save()` writes the row of its instance and nothing else, and an instance makes
one row.

### Querysets and expressions (`queryset.py`, `query_utils.py`, `expressions.py`, `filters.py`; modelled)

A `QuerySet` is immutable by cloning, except for lists that clones share; the
queries made of it (`values`, `count`, `delete`, ...) refer to its lists and keep
what earlier builds left.  A `Q` object resolves to a WHERE part, a HAVING part
and joins.  Correct means: the statement is what the program wrote, whatever was
built before.

### Prefetching (`backends/base/executor.py`; modelled)

`BaseExecutor` prefetches relations side by side and sorts the rows of each to the
instances.  Correct means: each instance has what queries of its own would yield.

### Schema generation (`backends/base/schema_generator.py`; its order modelled)

Which tables a client's schema has, and the order they are created in.

### Fields (`fields/data.py`, `timezone.py`, `validators.py`, `backends/sqlite/executor.py`; modelled)

A value is converted by the constructor, by the read of a row and by each way of
writing it; not every way converts or validates.  Correct means: a row means what
was written.

### ODBC clients, pydantic, web frameworks, tools (not modelled)

See section 9.

`PROJECT.json` lists every component with its status, and the hazards of the code
at their lines.

## 2. SqliteTransactions

A step of a task is the code between two awaits.  `pc[t]` names the await the
task is suspended in, `run` when its own code (the code of the user of the ORM)
decides what is next.  Each group of actions is one method:

| actions | code |
| --- | --- |
| `EnterBlock`, `Connected`, `PragmaNext`, `PragmasDone`, `AcquireBlock`, `AcquireRefused`, `CleanDone`, `BeginDone` | `TransactionContext.__aenter__`, `create_connection`, `TransactionWrapper.start` |
| `EnterNested`, `ExitNested` | `NestedTransactionContext` |
| `Call`, `CallConnect`, `CallSubmit`, `CallRefused`, `CallPragmasDone`, `StmtDone` | the execute methods with `ConnectionWrapper` |
| `BulkBegun`, `BulkInserted`, `BulkFailed`, `BulkEnded` | `SqliteClient.execute_many` |
| `ExitCommit`, `ExitRollback`, `ExitAsIs`, `ExitDone` | `TransactionContext.__aexit__` |
| `UserFinish`, `UserFinishDone` | `commit()`, `rollback()` called inside of a block |
| `Throw`, `Catch`, `Spawn`, `Finish` | the code that uses the ORM |
| `RequestFails`, `ConnectFails`, `Cancel`, `OrphanDone` | failures, `task.cancel()`, a request whose task is gone |

aiosqlite is external: a worker thread that executes requests in the order in
which they were submitted (`queue`).  Executing a request and resuming its task
are one step; asyncio resumes tasks in the order of the answers, and the task
submits nothing in between, so no behaviour of the locks or of the database is
lost.  SQLite is external: `BEGIN` inside a transaction fails, `COMMIT` outside
of one does nothing, other statements outside of one commit by themselves
(`isolation_level=None`), `PRAGMA foreign_keys` inside of one is ignored.

A wrapper has the name of the task whose block made it.  A row is told by who
wrote it, through which client, whether the wrapper was already final (`late`)
and, for a bulk insert of two rows, which one it is.  `final` is `_finalized`
together with the call that set it first.

`Faults` and `Features` choose what may happen in a run; the specification has it
all.  Bounds: one top-level block per task, `MaxDepth` frames, one cancellation
per task.  The PRAGMAs of a connection are any number of others followed by
`foreign_keys`: more than the code sends, in the same order.

### Properties

* `BlockAtomic`: the rows a block wrote before its wrapper was final share the
  fate the wrapper reports.  `TransactionIsolated`: the open transaction of the
  database holds rows of one block only.
* `LockExclusion`, `WrapperLockHeld`: the locks have one user, also when anything
  fails.  That they come back when only statements fail is `WaitersServed`, and
  the deadlock check of `sqlite_core`.
* `IdleConnectionClean`: when the lock is free no transaction is open.  This is
  what makes the `commit()` at the head of `start()` harmless.
* `StoreSpec`: the client implements `AtomicStore` with `active <- dbtx`,
  `staged <- dirty`, `durable <- durable`.  The abstract store begins, writes on
  behalf of the owner, commits or rolls back everything, and commits single
  statements only when no transaction is open.
* `WaitersServed`: a task that waits for the client's lock gets it.

### What is known not to hold

Runs that expect a violation show two of these; the rest was seen while the model
was written and is in the list of hazards.

* `sqlite_nested`: the error of a nested block rolls back the whole wrapper and
  finalises it; when the outer block's code catches the error it goes on in
  autocommit (`BlockErrorRollsBack`).
* `sqlite_cold`: two tasks that open the first blocks of a client; the second
  fails under the lock and never gives it back (`LockHolderAlive`).
* A `start()` that fails keeps the lock and the context: the task's next block is
  a nested one of a transaction that never began.
* A `TransactionManagementError` leaves a block without commit or rollback, and a
  cancelled bulk insert leaves its `BEGIN`: the lock is then free with a
  transaction open, and the next `start()` commits what it holds.
* A task that outlives the block it was spawned in (`Joined` is FALSE) writes
  through the wrapper into whatever transaction is open.
* A client kept from before a block waits in the block for the lock of the block.
* A connection's `PRAGMA foreign_keys` comes without the lock: inside of another
  task's transaction SQLite ignores it, and foreign keys stay unchecked.

So `IdleConnectionClean` and `TransactionIsolated` are checked under failing
statements, and proved under failing connects, BEGINs and statements;
`LockExclusion` and `WrapperLockHeld` hold, and are proved, under every fault.

## 3. PooledTransactions

The same structure with a pool.  A connection has one user, who acquired it, so a
request and its answer are one step.  `db[c]` is what the server and the driver
hold for connection `c`: the status of its transaction, autocommit, the rows.
`Backend` chooses among the three clients; they share the contexts of
`backends/base/client.py` and differ in what a failed statement does to the
transaction (PostgreSQL aborts it), in `start` (psycopg switches autocommit), in
bulk inserts and in whether the wrapper's connection still works after it went
back to the pool (asyncpg's proxy does not).

`Cold` starts without a pool: every task that finds none makes one (`PoolMade`),
and the last one stays in the client.  `release()` to a pool that did not make
the connection raises (`GiveBack`).

* `BlockAllOrNothing`: the rows that a block writes before its wrapper is final are
  all durable or none is.  `BlockErrorRollsBack`: of a block that an error left no row
  is durable, nor any that comes later through its wrapper; it is about blocks that
  neither nest nor are finished by hand.  `BulkAtomic`: a bulk insert outside of blocks
  is written as a whole.
* `ConnectionOwned`: under every fault no two tasks talk on one connection (checked
  for asyncpg, proved for every client when no task is cancelled).
* `StoreSpec`: the clients implement `TransactionStore`, in which every block
  stages rows of its own and ends once.
* `PoolServed`: a task that waits for a connection gets one; so whatever ends
  gives its connection back.

What is known not to hold: an error that leaves a nested block finalises the
wrapper, as on SQLite; when the outer block catches it and goes on, its later rows are
written one by one on asyncpg and MySQL, and stay when an error leaves the outer
block too.  The run `pooled_core` goes there, and asks `BlockAllOrNothing` only of the
rows before.  On psycopg a block left by a
`TransactionManagementError` gives its connection back with autocommit off, and
later statements on it are lost (`pooled_poisoned`); a bulk insert commits the
block it is in, and an `IntegrityError` rolls the block's transaction back and
leaves it open, so psycopg is in no run about atomicity.  A cancellation between
acquiring and the end of a block leaks the connection.  A third nested block
waits for the `_trxlock` its own task holds; runs nest two.  A task that holds a
connection of a full pool and asks, with a client kept from before the block, for
another one waits forever: the run `pooled_faults` goes there (`captured`) and
checks no deadlock.

`Cold` is checked for asyncpg, whose `create_connection` is one await; MySQL's sets
the session up on a connection of the new pool as well, and psycopg's opens it.

A wrapper without a connection (its block was cancelled or failed while it was
entered) raises at every statement; in the code the first one raises and leaves the
wrapper's `_lock` taken (`base/client.py:235`), so that a second one hangs.

Left out: tasks spawned inside of a pooled block (the wrapper's `_lock`, which
serialises them, is not modelled), closing and expiring pools, cancellation on
MySQL (its driver closes the connection), the ODBC clients.  The `BEGIN` of a bulk
insert is one step with acquiring its connection; psycopg's bulk insert on the
client, one statement and one commit, is one step.
`BulkAtomic` is checked on asyncpg and proved for each client; MySQL's
`execute_many` has the same steps.

## 4. ModelWrites

One value of a unique field, and its row.  Each task makes one call.  A task has a
column of its own, which `update_or_create` (its defaults), `save` and `create`
write with every other column as the instance has it: that is how a lost update
shows.  `row` is committed; `draft[t]` is what the open block of `t` has written;
`holder` has locked the row.  `Serialised` is SQLite, where an open block excludes
every other statement; otherwise the database is read committed with row locks,
and an insert of a value that another transaction has inserted waits for it.  That
blocks are transactions of their own is what modules 2 and 3 show.

`Start`, `Get`, `Enter`, `Insert`, `Created`, `Conflicted`, `Reget` are
`get_or_create` and `_create_or_get`; `Select`, `Update`, `Updated`, `Unmatched`
are `update_or_create`; `Save`, `Delete`, `ListenerFails` are the two methods on
an instance; `Fail`, `Failed` are an exception in a block.

* `CreatedOnce`: unless a row was deleted, all calls that return come to one row,
  and at most one of them created it.
* `RaceResolved`: `IntegrityError` reaches the caller of `get_or_create` only when
  the row that was in the way was deleted before it was read.
* `ValueKept`: a value written under the row lock stays, but for a `save()` of an
  instance that was read before.
* `ErrorLeavesNothing`: a call that raised in its block left nothing.
* `CallsEnd`: no circle of waiting tasks, no lock that outlives its block.

What does not hold: `update_or_create` that finds nothing and then loses the race
returns the other task's row, and its own defaults are applied to nothing
(`writes_lost`, `DefaultsApplied`).

Left out: an outer block around the calls (there `_create_or_get` nests, and the
error of its nested block rolls the outer one back), more than one value,
`MultipleObjectsReturned` (the unique index excludes it).  What `save` does by
itself, with `update_fields` and the rest, is in `Instances`.


## 5. ConnectionRegistry

A storage is a dictionary from aliases to clients, a client or a wrapper is an
object: both are on a heap, because what goes wrong here is who shares which
object.  `storages[Base]` is the default of the `ContextVar`; `context[t]` is the
dictionary of a task, which a spawned task shares with its parent until one of
them calls `set`.  `frames[t]` are the open blocks of a task with the token of
each.  `parent` of a client object tells wrappers from clients, `conn` whether the
connection that the object holds is open, or was closed under it (a wrapper shares
its client's).

| actions | code |
| --- | --- |
| `Use` | `connections.get(alias)` and a statement; the client is made when it is not there |
| `Await` | `_choose_db`: the client a queryset kept (`_db`), the router's, or the default |
| `Enter`, `Entered`, `Exit` | `in_transaction`, `__aenter__`, `__aexit__` with `set` and `reset` |
| `Spawn`, `End` | tasks and their contexts |
| `Discard` | `connections.discard` |
| `CloseAll`, `CloseOne`, `CloseDone` | `close_all`, `Tortoise.close_connections`, `_drop_databases` |
| `Initialise` | `Tortoise.init`, `ConnectionHandler._init`, with models that may not resolve |

`Features` chooses what may happen.  The run has `init` again, `discard`, and
querysets that are awaited again (`reuse`).

* `NoEndedWrapper`: nobody gets the wrapper of a block that has ended.
* `BlockGetsItsWrapper`: in its block a task gets the innermost wrapper of the
  alias, whatever clients are made and blocks of other aliases left in between.
* `ClientsMatchConfig`: no client outlives the settings it was made from.
* `LostOnlyToAnother`: a client with an open connection is forgotten only for
  another client of its alias.  (That this can happen is a fact of the code: two
  blocks make the client of the same alias, each in its copy, and `reset` keeps
  one of the two.)

What is known not to hold: with `busy`, `close_all()` and `init()` while blocks are
open discard wrappers, and the block's later statements go to a client; with
`outlive`, a task that outlives the block it was spawned in goes on with the
wrapper; with `fail`, an `init()` that raises has changed the configuration
already.  `_init` updates the configuration and never removes an alias, so
`close_all()` makes clients of aliases of an earlier `init`.  A queryset that is
awaited in a block and again after it goes to the ended wrapper, and one that was
awaited before the block goes past it.

## 6. Library modules

Each is a module about objects that a program builds and keeps.  They have no
liveness: a method of theirs that returns at all returns at once.

### BulkWrites

`bulk_create` (`models.py`, `queryset.py`) and `bulk_update` over a list or a
generator, in chunks; the statement of a chunk happens as a whole or fails, and
between two of them the program changes the instances and another task inserts
rows.  `query` is the queryset, which may be awaited twice and whose `sql()` builds
statements too; a row remembers which object of which await made it.

* `CreatesOnce`: one row per object, under its own key if it has one; a failure
  leaves whole statements; only conflicts that were asked to be ignored leave an
  object out; a generator is written once.
* `UpdatesListed`: a listed row gets a value that one of its objects had when the
  statement was built, or keeps what it had, and no other row changes; an update that
  is done left out no listed row that its filter lets through, in whatever chunks it
  was sent.  It is about the rows of `start`, those that were there when the update
  was made and that nobody deleted since.

Known: the objects of `bulk_create` do not get `_saved_in_db`, so `save()` inserts
them again; chunks before a failure stay; an
object with a key of its own may collide with a generated one; `sql()` followed
by an `await` executes the statements of both builds; a generator that one build
consumed yields nothing to the next.

### Instances

`instances[i]` is what an object knows (`_saved_in_db`, `_custom_generated_pk`,
partial or not, its attributes) and `table` is what there is; a transaction may be
rolled back in between, and other objects of the same row may be saved or deleted.
`ManyToManyRelation.add` is two actions, its select and its insert.

* `InsertedOnce`: an instance makes one row, apart from `force_create`.
* `SaveWritesItsRow`: a `save()` writes its own row or, when that row is gone,
  nothing.

Known: `_saved_in_db` survives a rollback and a `delete()`, so a later `save()`
updates nothing and reports success; a clone given a key of its own never learns
the key of its row; `refresh_from_db()` without arguments skips fields with a
`source_field`; of two tasks that `add()` one pair the second gets an
`IntegrityError`, where the docstring promises to ignore it.

### QuerySets

Query objects and the lists they refer to are on a heap, since `_clone` copies some
and shares others.  `Build` is `sql()`, `Await` an await: both leave joins and
parameters in the object.  `RequiresLimit`, `ForUpdate`, `IndexHint` and
`WriteLimit` are the capabilities of a database, and `JoinedWrites` the writes that it
takes with a join; the run has those of MySQL (`mysql/client.py:73`), which has all of
them and joins tables in an UPDATE without a limit only.  `SetFlag` is a flag, without
what `distinct()` does to the rows of `values()` that leave the key out.

* `ClonesIndependent`: no method changes what another queryset, or its own, yields.
* `ReadsAgree`: `values`, `count`, `exists`, `get` and `first` agree with the rows
  of the queryset.
* `WritesItsRows`: `update` and `delete` write the rows the queryset selects: the first
  ones in its order as its limit says, where the database limits writes, and all that
  satisfy its filters where it does not.

Known, and excluded by name in the properties: `limit(0)` is no limit for `values`
and `count`; `count()` is negative when the offset is beyond the end; `exists()`
ignores the slice; `delete()` and `update()` of a slice write other rows, as no
database's writes take an offset and some no limit; with `limit(0)` they write all.

### QExpressions

`nodes` are `Q` objects, each made of earlier ones by `&`, `|`, `~` and the
constructor.  What one resolves to is a criterion per part of the statement, as
its truth value in SQL's three-valued logic on every row; `Meaning` is what the
program wrote, computed without looking at the code's way of resolving.

* `ResolvesToMeaning`: the rows of the statement are those the expression holds of.
* `JoinsRight`: every table a criterion is about is joined, on one condition.

Known: `~~q` is still negated, since inversion sets a flag; such objects are left
out.

### Prefetch

`querysets` with their relations and `Prefetch` objects, whose lists clones share;
an await makes one query per relation and `Prefetch` (`made`), and these are
answered, or fail, in any order, beside `fetch_related` of the same instances,
assignments to a foreign key and to its column, and `refresh_from_db()`, which
assigns columns.  `behind` is no state of the code: it says that the column was
assigned after the attribute was set.  A map of the run names one relation; the theorem
is about maps of any number of them.

* `PrefetchExact`: what a relation or a `to_attr` of an awaited queryset's instances
  holds is what one of its own queries yields for that instance; instances in use
  have all of their related rows; and a foreign key that is set agrees with its
  column, unless the column was assigned since.

Known: assigning `boss_id`, or `refresh_from_db()`, leaves the object that `boss`
was set to, and `instance.boss` goes on returning it (`models.py:112`); the lists
of `_prefetch_queries` grow with each await, and each query is sent again; a
`Prefetch` whose queryset excludes the row of a foreign key makes its column None;
an assignment during a fetch of the same relation is overwritten by its answer;
`Prefetch` objects nested in the queryset of a many-to-many `Prefetch` are dropped
and its limit and order ignored. `EXECUTOR_CACHE` is keyed by connection, schema
and table and never cleared.

### Definitions

`declared` is any small program of classes and relations; `discover` is
`init_models`, in any order and in several calls; `init_relations` and
`_reset_apps` follow; `generate_schemas` orders the tables of a client.

A class says in its `Meta` which app it is of; `init_models` for an app replaces the
models it had, keeps its place, and skips the classes of others.

* `RelationsPaired`: every relation has its other side, and an error has a reason
  other than the order.
* `TablesOrdered`: a table comes after those it references, and a schema is
  refused only for a circle or for a table of another client.

Known: a foreign key to a table of another client is reported as a cycle; two
many-to-many relations between the same models without `through` share a table;
`db_pk_column` is wrong for a one-to-one primary key.

### Fields

`attr` is the attribute of an instance, `cell` the column of its row, `wrote` what
the last write meant.  `__init__`, `Assign`, `save`, `update`, `get` are the ways a
value takes; SQLite's executor converts some fields instead of the field.  A field
may have a smallest and a largest value, a `CharField` a largest length, and some of
the conversions validate them.

The offset of the time zone changes at any number of instants.  A naive local time is
none of the zone when the clocks were put forward over it, and two when they were put
back: then `make_aware` raises (`timezone.py:97`, `is_dst=None`).  The run has UTC and
a zone with a summer.

* `ReadsBack`: a row means what was written, by whichever way, and so does what is
  read and saved again.  What cannot be read is a decimal that a validator refuses,
  or a naive time that the zone has twice or not at all.

Known: SQLite's executor writes a naive datetime as it is, and one of the hour that
the clocks leave out or repeat makes a row that raises whenever it is read; a
decimal that is not a number is saved and cannot be read; datetimes of mixed
offsets are stored as text and order as text.

### TestHarness

`config` is the dictionary the registry refers to, `configs` what the current and
the saved dictionary hold, `base` the registered client, `rows` which test left a
row in which database.  The four kinds of cases set up, run, fail, call
`Tortoise.init` themselves and tear down.

* `TestsIsolated`: a test sees no rows of an earlier one, unless a clean-up was cut
  short or left links (`skipped`), an `IsolatedTestCase` not even then; without such
  a clean-up the test database stays; and the tests that use it have its client and its
  settings in any case.

Known: a task that a test leaves behind runs into the next one; a `TestCase` whose
clean-up is cut short leaves its rows; a `TruncationTestCase` leaves rows when a row
that others refer to without a cascade cannot be deleted (`FailTruncation`: the rest of
the teardown is not reached), and the links of many-to-many relations, which are rows
of no model.

## 7. Runs

`W` is the number of distinct states.

| run | instance | shows |
| --- | --- | --- |
| `sqlite_core` | a task and its child, depth 2, failing statements, manual commit and rollback (W about 170 000) | `BlockAtomic`, `TransactionIsolated`, `IdleConnectionClean`, `LockExclusion`, `StoreSpec` |
| `sqlite_faults` | a task and its child, depth 2, every fault and feature, cold (1.7 million) | `WrapperLockHeld` |
| `sqlite_nested`, `sqlite_cold` | one task at depth 2; two tasks, cold | violations, section 2 |
| `pooled_core` | asyncpg, two tasks, one connection, depth 2 (370 000; failing statements) | `BlockAllOrNothing`, `StoreSpec` |
| `pooled_faults` | asyncpg, two tasks, two pools of one, depth 2, bulk inserts and captured clients, failures and cancellations at every await, cold (4.4 million) | `ConnectionOwned`, `BulkAtomic` |
| `pooled_poisoned` | psycopg, two tasks, one connection | violation, section 3 |
| `live` | two tasks on SQLite; two tasks on MySQL with one connection, blocks not nested; failing statements and `TransactionManagementError`; fair (23 000) | `WaitersServed`, `PoolServed`, `BlockErrorRollsBack` |
| `writes_race` | three tasks, every method (47 000) | section 4 |
| `writes_lost` | two tasks in `update_or_create`, serialised | violation, section 4 |
| `registry` | two tasks, two aliases, two configurations, depth 2 (300 000) | section 5 |
| `library` | each module of section 6 on an instance of its own (710 000 in all) | section 6 |

`live` and `library` are about several modules: `part` says which one a behaviour
is of, and the variables of the others keep their initial values (`MCTransactions`,
`MCLibrary`; the latter adds to `Library` the modules of which nothing is proved).
The fairness of `live` is that of the two modules, conjunct by
conjunct: a behaviour is of one part, so one strong fairness condition serves a
SQLite action and its MySQL counterpart, and blocks are not nested there.

*Why the bounds are enough.* The locks and connections are the only things tasks
share, and an interference needs one task that holds and one that waits: two
tasks and a pool of one bring every order of holding and waiting about.  Depth 2
has an outer and a nested frame; a third frame repeats the nested one (and blocks,
on pools).  A row per task, client and part tells every transaction a row can be
in apart.  In `writes_race` three tasks are a creator, a loser and a third that
deletes or saves in between.  In `registry` two tasks share or copy a dictionary,
two aliases tell what `reset` carries over from what it restores, and four clients
are two with a wrapper each; objects that nothing refers to are used again, and
the view forgets what they held.  In `library`: four `Q` objects nest two
deep on both sides of an operator; four querysets are one, a clone of it, a clone
of both and the query made of it; two instances are two objects of one row or one
each; two awaits are a second one after the first; four calls of `init`
reset and initialise again; four tests have each kind before each other one.  What is
*computed* (a statement, an order of tables) is compared with its reference
definition on every input of these sizes.

`sqlite_faults` and `pooled_faults` use a `VIEW` that forgets the rows, which no
guard reads, so states that differ in rows only have the same behaviours;
`BulkAtomic` is about rows, and the view keeps those of bulk inserts on the client.
That of `library` leaves out the variables that do not change in a part.
The `SYMMETRY` of `pooled_faults` exchanges its tasks, which nothing tells apart.

Deadlock is checked in the runs with failing statements only.  In `sqlite_faults`
and `pooled_faults` a leaked lock or connection, or a client captured from before
the block, stops the system; `registry` and `library` stop when their bounds are
used up; the runs that expect a violation need no deadlock check.

*Fairness.* The event loop resumes what is ready and the worker thread and the
servers answer (weak fairness of `Progress`, `OrphanDone`).  `asyncio.Lock` and
the pools serve their waiters in order (strong fairness of taking a lock or a
connection).  The code inside a block comes to its end (strong fairness of `End`):
without it, nobody could promise a waiter anything.  `ModelWrites` asks for strong
fairness of `Progress`, the steps of each task without the failures of listeners,
for the same reasons.

## 8. Proofs

`SqliteTransactionsProofs`, for every set of tasks, faults and features:

* `TypeCorrect`: `Spec => []TypeOK`.  `TypeOK` is inductive; it says besides the
  types that a task in an exit is inside of a block, which `depth - 1` needs.
* `MutualExclusion`: `Spec => []LockExclusion`.  The invariant `LockInv` adds that
  a task in a statement on the client itself has no open block: the statement
  took the lock that its block would hold, and when it gives the lock back
  nothing that needs it is left.
* `CleanWhenIdle`: `Orderly => (Spec => []IdleConnectionClean)`, where `Orderly`
  says that no task is cancelled, no commit or rollback fails and no foreign
  `TransactionManagementError` arises.  The invariant has three layers: the queue
  holds at most one request of a task and it is the one the task waits for; a block
  is open exactly as long as its wrapper is the context of its task; and an open
  transaction belongs to a task under the lock.  None of them is optional: the
  database's state is only tied to the lock through the request that is on its
  way.

`PooledTransactionsProofs`, for every set of tasks, pools of every size, the three
clients and every set of faults and features:

* `PooledTypeCorrect`: `Spec => []TypeOK`.  `TypeOK` is not inductive here:
  `Becomes(wconn[t], ...)` has a type only when `wconn[t]` is a connection.  `TInv`
  adds `Placed` (who waits for an answer has the connection that it comes on) and
  `Depths` (who leaves a frame is in one).
* `OneUserPerConnection`: `Sound => (Spec => []ConnectionOwned)`, where `Sound` says
  that the client is asyncpg or that no task is cancelled.  The invariant `OInv` is
  about `Holds(t)`: the block of `t` is open, or it was left without a release and
  the context still gives the wrapper.  As long as that lasts the connection is the
  task's, so what is sent on it later, by a statement, a nested block's rollback or
  a manual commit, is sent by its user.  A cancelled release breaks it, and asyncpg
  repairs it by refusing requests on a connection that went back, which is why the
  hypothesis has the form it has.  `Local` says what a step of a task may do to the
  others, and `OthersOwn` that it leaves them what they hold.

`ModelWritesProofs`, for every set of tasks, with and without `Serialised`:

* `WritesTypeCorrect`, `OneCreation` (`CreatedOnce`), `LostRaceResolved`
  (`RaceResolved`), from one inductive invariant `IInv`: where a task is in its
  call determines what it has locked and drafted, one draft at most inserts, and
  whoever has met the row meets it still unless a `delete()` ran.
* `ErrorsUndone` (`ErrorLeavesNothing`): `SecretInv` says that what a call has
  written is neither in the table nor in what another task has read or drafted
  before the call returns, nor after it raised.
* `UpdatesKept` (`ValueKept`): it is inductive with `HeldInv`, by which a task that
  selected the row for update has every value of it, and `FreshInv`, by which the
  key of a row that is being inserted is nobody's yet: a row that comes later
  cannot be taken for the one that a call returned.

`SqliteAtomicityProofs`, along the invariants of `SqliteTransactionsProofs`:

* `WrapperSerialises`: `Spec => []WrapperLockHeld`, whatever fails.  `Opened` adds
  that a task on its way into a block has not made its wrapper the context yet.
* `NoStrangers` (`TransactionIsolated`) and `RefinesAtomicStore` (`StoreSpec`), for
  `Orderly` clients whose blocks wait for the tasks they spawned (`Joined`).  The
  invariant `Agreed` joins four parts: `Known` (types, lock, queue, blocks),
  `OwnerInv` of the first module (an open transaction has its owner under the lock),
  `AimInv` (a request in the queue goes where its task's call goes) and `UseInv`
  (where a task is in its block determines who owns the lock, the wrapper and the
  transaction it writes to).  Then each step has one of five effects on the database
  (`StoreEffect`), and each is a step of `AtomicStore` or none.
* `AllOrNothing` (`BlockAtomic`), for `Warm` clients besides: the connection is open
  and `BEGIN` does not fail.  `FateInv` says where the rows of a block can be, stage
  by stage: staged while the wrapper is open, durable or gone as it reports.

`PooledAtomicityProofs`, along `TInv` and `OInv` of `PooledTransactionsProofs`:

* `BulkInsertsAtomic`: `Sound => (Spec => []BulkAtomic)`.  `BulkInv` has every
  connection hold whole bulk inserts only, but for one whose insert failed half-way
  and has still to be rolled back; until then it has a transaction open.
* `BlocksAtomic` (`BlockAllOrNothing`) and `ErrorsRollBack` (`BlockErrorRollsBack`):
  for `Atomic` clients, asyncpg and MySQL when no commit fails and no task is
  cancelled; the second for blocks that neither nest nor are finished by hand (`Flat`).
  `StageInv` says where a task is between `start` and `release`, and
  `DataInv` that a connection which no block uses holds nothing staged, that a
  block's rows are staged on the block's connection only, and that what is durable
  was committed by the wrapper.
* `RefinesStore`: `Steady => (Spec => StoreSpec)`, where `Steady` adds to `Atomic` that
  no rollback fails and that the pool is open from the start.

`ConnectionRegistryProofs`, for every set of tasks and aliases, a heap of any size
and blocks of any depth:

* `RegistryTypeOK`: `Spec => []TypeOK`, with every feature.  `Types` adds that
  whatever an entry, a frame or a waiting task refers to was made, and has the alias
  it is used for.
* `BlocksGetTheirWrappers` (`BlockGetsItsWrapper`), unless the application is `busy`.
  `Made(t, i)` is the dictionary that block `i` of `t` made; the invariant `Blocks`
  has the wrapper of a block in its dictionary and in those of all blocks inside of
  it, which is what `reset` needs when it goes back over several of them.
* `EndedWrappersForgotten` (`NoEndedWrapper`), when no task outlives the block it was
  spawned in besides.  That the dictionary of a block reaches nobody outside of the
  block is a statement about who was spawned where, of any depth: `Tree` says it
  without recursion.  A wrapper is in a dictionary only if that dictionary is in
  *every* set of dictionaries that has the one the block made and, with the token of
  a block, the dictionary of that block (`Below`).  `reset` carries an entry from a
  block's dictionary to its token only if the token has none for the alias, and by
  `Below` no block's wrapper is such an entry but its own, for which the token has
  the client it was made from.
* `ClientsFollowConfig` (`ClientsMatchConfig`), when no `init` raises besides.
  `Settled` has the clients of every dictionary made from the settings in force; that
  the dictionaries which are not the caller's are no obstacle is `RootOnly`: where no
  block is open, all tasks have the one dictionary.
* `OpenClientsKept` (`LostOnlyToAnother`, an action property), under the conditions of
  `EndedWrappersForgotten`.  `Registered` adds to `Tree` that an entry has its alias
  (`Named`), that a wrapper has the alias of its client (`Kin`) and that `close_all`
  has registered clients left to close while the others are closed (`LeftOpen`).  A
  client is referred to by itself or through a wrapper of it, so the proof follows
  what a step stops to hold (`ForgottenWith`): at `Exit` the token has the same
  object, or another one of the same alias; elsewhere only closed clients go.

`Library` names the properties of its modules for the run and for the theorems.
`LibraryProofs` has a section for each of them but `Fields`:

* `FreshDatabase` (`TestsIsolated`) and `HarnessTyped`, for any number of tests.
  `HarnessInv` has three parts: `Kept`, that the dictionary in force and the saved one
  come back whatever a test did with `Tortoise.init`; and `Clean`, which says for
  each kind of test, and between tests, which databases hold no rows and which
  client is registered, as long as no clean-up was cut short or left links.  `Alone` is
  the part for the database of an `IsolatedTestCase` that needs no such condition: only
  such a test writes in it, and it gets a new one.
* `OneRowEach` (`InsertedOnce`), `SavesWriteTheirRows` (`SaveWritesItsRow`, an action
  property) and `InstancesTyped`, for a table and a program of any size.
  `InsertedOnce` alone is not inductive: `save()` decides to insert by
  `_saved_in_db`.  `Knows` adds that an instance which made a row has that flag
  set and has its key or was given one of its own.  The key that the database generates is
  the one after the greatest there is; that it exists for every table is `HasLeast`.
* `QueriesIndependent` (`ClonesIndependent`, an action property), for any number of
  querysets and calls.  `SetsInv` has the lists of a queryset on the heap; each
  action is shown to leave the lists that are there as they are, and to append new
  ones for what it changes, so that sharing between clones does no harm.
* `ReadsOfOneQuerysetAgree` (`ReadsAgree`), `WritesOfTheQueryset` (`WritesItsRows`) and
  `QueriesTyped` (`TypeOK` of `QuerySets`), for every finite table.  `SetsInv` says
  besides what a query may look like (`Shape`: only `get()` and `first()` make it
  single, and only `get()` one that raises) and what it has of the queryset it was
  made from (`OfBase`, `Based`): the two can be compared because neither forgets a
  filter, a limit or an offset of the other.  That the rows of a queryset are a
  sequence at all is `Enumerable`: a finite set is enumerated in a linear order by
  the number of members before each one (`Position`), which needs no induction;
  `SortedIs` and `CutIs` say which rows a query then yields.
* `PrefetchesExact` (`PrefetchExact`) and `PrefetchesTyped`, for any relations, rows,
  `Prefetch` objects, clones and overlapping fetches.  The invariant `PrefetchInv` has three parts.
  `Asked`: no list that querysets share is empty, however it was appended to.
  `Called`: the tasks of an await are of its queries, and two awaits of querysets
  have two lists of instances.  `Exact` says of an unfinished await what its
  instances have by then: for a relation of which a query was answered, the result
  of a query for it (`ValueExact`); for the foreign key, whose answers read the
  column and write it, that the column still is the row's or what the one queryset
  left of it, and that the tasks not answered ask for its key (`BossExact`); for a
  `to_attr`, if it is there, the result of a query that names it (`AttrExact`).
  Beside it `BossKept` keeps a foreign key that is set the one of its column, on all
  instances whose column was not assigned since, and `OthersKept` the other relations
  of the instances in use those of their rows.
* `BulkUpdatesExact` (`UpdatesListed`, the half of `BulkWritesExact` that is about
  `bulk_update()`), for any lists, batch sizes and other tasks.  `ChunksCover` says that
  the chunks of a list have what the list has, by dividing positions by the size.
  `CasesListed` has the statements cover what is listed and nothing else, however often
  they were built, and `RowsUpdated` follows the statements that were sent: a row that
  nobody deleted has its own value or one its instances had, and those of the
  statements sent so far have one of these or are not let through by the filter.

`FieldsProofs`, for every value, member of an enumeration and time zone:

* `RowsReadBack` (`ReadsBack`) and `FieldsTypeOK` (`TypeOK` of `Fields`).  `FieldInv` has
  an attribute hold a value of a type its field accepts (`Held`), a column a value of
  the type its field writes (`Cell`), and says that the column is read as what was
  meant (`Reads`).  `AllWritten` is the core: whatever an attribute holds, `to_db_value`
  either raises or writes what `Reads` asks for, class by class of the eight fields.
  A decimal is quantized once and then stays (`QuantizedOnce`); a `timedelta` is made
  of its microseconds again (`Duration`); a datetime that was read has the offset that
  the zone has at its instant (`AtIs`), and a naive one either is once in the zone, and
  then is that instant, or raises (`DatetimeConverts`).  `AllRead` has what is read back be `Held`, so that it can
  be written once more.

The hypotheses are what the code does not defend against, and TLC finds each
property violated without them.

* `Orderly`, `Atomic`: a `commit()` that fails, or a task that is cancelled in one,
  leaves `_finalized` unset although the rows are durable, or the lock free with a
  transaction open.  psycopg's `execute_many` commits the block it is in.
* `Sound`: a task cancelled while it releases keeps the context of a connection
  that is another's by then; only asyncpg's proxy refuses to work on it.
* `Steady`, `Warm`: a `rollback()` that fails leaves the block in an open
  transaction, which its task goes on with; a `BEGIN` that fails, and a cold start,
  leave the lock and the context of a block that never began, whose statements
  commit one by one.
* `Flat`: an error that leaves a nested block, or a wrapper that was finished by hand,
  leaves the outer block writing rows one by one (section 3).
* `Joined`: a task that outlives its block writes into the next one.
* `busy`, `outlive`, `fail` of the registry: see section 5.

Those of the modules of `Library` only say that the constants are what they stand for:
`Sizes`, that there are keys and names; `MaxTests \in Nat`; `Asking`, that the
bounds are numbers, that the model has its foreign key and that the relations and
`Prefetch` objects name fields, rows and attributes of it; `SetsAssumption`, that a
table is finite and has numbers for keys; `FieldsAssumption`, that a value is a number
with a type, that no list is the text that is no JSON and no zone ever has the mark of a naive
time, and that a minute and a day last some time; `BulkAssumption`, that what is
written is a sequence.

The only assumptions are the named ones on the constants, which TLC evaluates in
the runs.

Only model-checked:

* `ResolvesToMeaning` and `JoinsRight`, `RelationsPaired` and `TablesOrdered`, and
  `CreatesOnce`, what `BulkWritesExact` says of `bulk_create()`: `QExpressions`,
  `Definitions` and the insert statements of `BulkWrites` compute by recursion over
  expressions, models and rows, and the properties compare with a reference
  definition; that needs induction over data.
* The liveness properties, as fairness and ENABLED are beyond the prover.

## 9. Not modelled, and the plan

*Not modelled.*  The ODBC clients: they would be a fourth `Backend`, and what a
failed statement leaves is decided by a driver of which the repository says
nothing.  Pydantic models: a recursion over metadata that yields text.  The web
frameworks and the pylint plugin: glue.  `only()`, `group_by()`, `in_bulk()`,
`raw()`, `explain()`, functions and `Case`: they choose columns and terms of SQL.
The text of statements and schemas, the parsing of URLs and configurations, and
the registration of signal listeners.

*Not yet.*  Closing and expiry of pools, tasks spawned inside of pooled blocks, an
outer block around `get_or_create`, foreign keys that stay off after a connection
was opened inside of another task's transaction.

1. The composition of `ModelWrites` with an outer block.
2. Spawned tasks and closing of pools in `PooledTransactions`.
3. `CreatesOnce`, with the table after a number of a statement's rows as a function of
   that number instead of a fold.
