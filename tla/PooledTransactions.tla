------------------------- MODULE PooledTransactions -------------------------
(***************************************************************************)
(* Transactions of the backends with a pool of connections: asyncio tasks  *)
(* that share one AsyncpgDBClient, PsycopgClient or MySQLClient.           *)
(*                                                                         *)
(*   backends/base/client.py      TransactionContextPooled,                *)
(*                                NestedTransactionPooledContext,          *)
(*                                PoolConnectionWrapper                    *)
(*   backends/asyncpg/client.py   AsyncpgDBClient, TransactionWrapper      *)
(*   backends/psycopg/client.py   PsycopgClient, TransactionWrapper        *)
(*   backends/mysql/client.py     MySQLClient, TransactionWrapper          *)
(*                                                                         *)
(* A step of a task is the code between two awaits.  Each connection has   *)
(* one task that uses it, so a request and its answer are one step, taken  *)
(* when the answer arrives.                                                *)
(***************************************************************************)
EXTENDS Naturals, FiniteSets

CONSTANTS
    Tasks,      \* asyncio tasks; the wrapper of a task's own block has its name
    Client,     \* the pooled client itself, as a target of statements
    NoTask,
    Pools,      \* the pools that create_connection() may make, one per call
    NoPool,
    PoolSize,   \* maxsize of a pool
    MaxDepth,   \* bound on the nesting of in_transaction blocks
    Backend,
    Faults,     \* which of AllFaults may happen
    Features,   \* which of AllFeatures the tasks' code uses
    Cold        \* the pool is made by the first task that needs it

AllFaults   == {"connect", "begin", "stmt", "commit", "rollback", "cancel", "tme"}
AllFeatures == {"nested", "manual", "bulk", "captured"}

ASSUME PooledAssumption ==
    /\ Client \notin Tasks
    /\ NoTask \notin Tasks \cup {Client}
    /\ Pools # {} /\ NoPool \notin Pools
    /\ PoolSize \in Nat \ {0}
    /\ MaxDepth \in Nat \ {0}
    /\ Backend \in {"asyncpg", "psycopg", "mysql"}
    /\ Faults \subseteq AllFaults
    /\ Features \subseteq AllFeatures
    /\ Cold \in BOOLEAN

VARIABLES
    pc,         \* the await a task is suspended in, "run" in its own code
    depth,      \* how many in_transaction frames the task is inside of
    exc,        \* the exception propagating through the task
    ctx,        \* the client its context gives: Client or its own wrapper
    call,       \* the statement call in progress: its target, and if bulk
    want,       \* the pool a task acquires from
    cconn,      \* the connection of a statement on the client
    block,      \* the fate of the task's own top-level block
    final,      \* _finalized of a wrapper, and what finalised it
    wconn,      \* _connection of a wrapper
    trx,        \* holder of each wrapper's _trxlock
    pool,       \* the client's _pool
    made,       \* the pools that exist
    user,       \* who acquired a connection and has not given it back
    db,         \* each connection: transaction status, autocommit, its rows
    durable,    \* rows committed
    lost,       \* rows rolled back
    cancelled   \* tasks that were cancelled (once at most: a bound)

poolVars == <<pool, made>>
dbVars   == <<db, durable, lost>>
vars     == <<pc, depth, exc, ctx, call, want, cconn, block, final, wconn, trx,
              poolVars, user, dbVars, cancelled>>

-----------------------------------------------------------------------------
(* Domains *)

Entering == {"pooling", "acquiring", "starting"}
InCall   == {"callpooling", "callacquiring", "stmt",
             "bulkrows", "bulkcommit", "bulkrollback"}
Leaving  == {"committing", "rollingback", "releasing"}
Manual   == {"usercommit", "userrollback"}
PCs      == {"run", "nestlocking", "done"}
              \cup Entering \cup InCall \cup Leaving \cup Manual

Conns    == Pools \X (1..PoolSize)
NoConn   == <<NoPool, 0>>
Home(c)  == c[1]
Targets  == Tasks \cup {Client}
Rows     == [by : Tasks, via : Targets, late : BOOLEAN, part : 0..2]
Calls    == [on : Targets, many : BOOLEAN]
NoCall   == [on |-> Client, many |-> FALSE]
Statuses == {"none", "open", "aborted"}

OuterFrame(t) == block[t] = "open" /\ depth[t] = 1

-----------------------------------------------------------------------------
(* One connection of the database (external: PostgreSQL, MySQL and drivers) *)

State(c) == [status |-> db[c].status, auto |-> db[c].auto, rows |-> db[c].rows,
             durable |-> durable, lost |-> lost]

Becomes(c, s) ==
    /\ db' = [db EXCEPT ![c] = [status |-> s.status, auto |-> s.auto, rows |-> s.rows]]
    /\ durable' = s.durable
    /\ lost' = s.lost

\* With autocommit off, a statement opens a transaction.
Wrote(s, rows) ==
    IF s.status = "none" /\ s.auto
      THEN [s EXCEPT !.durable = @ \cup rows]
      ELSE [s EXCEPT !.status = "open", !.rows = @ \cup rows]

RolledBack(s) ==
    [s EXCEPT !.status = "none", !.rows = {}, !.lost = @ \cup s.rows]

\* PostgreSQL answers COMMIT in an aborted transaction with a rollback.
Committed(s) ==
    IF s.status = "aborted"
      THEN RolledBack(s)
      ELSE [s EXCEPT !.status = "none", !.rows = {}, !.durable = @ \cup s.rows]

\* A failed statement aborts a PostgreSQL transaction, MySQL undoes it alone.
Aborted(s) ==
    IF Backend = "mysql" \/ (s.status = "none" /\ s.auto)
      THEN s ELSE [s EXCEPT !.status = "aborted"]

\* A pool resets or closes a connection that comes back inside a transaction.
Returned(s) == IF s.status = "none" THEN s ELSE RolledBack(s)

\* TransactionWrapper.start(), commit(), rollback(); psycopg switches autocommit.
StartedTx(s) ==
    IF Backend = "psycopg" THEN [s EXCEPT !.auto = FALSE] ELSE [s EXCEPT !.status = "open"]
CommittedTx(s)  == [Committed(s) EXCEPT !.auto = TRUE]
RolledBackTx(s) == [RolledBack(s) EXCEPT !.auto = TRUE]

-----------------------------------------------------------------------------
(* Small steps of the code that several actions share *)

Goto(t, p)  == pc' = [pc EXCEPT ![t] = p]
Raise(t, e) == exc' = [exc EXCEPT ![t] = e]

Free(p) == {c \in Conns : Home(c) = p /\ user[c] = NoTask}

\* The connection of a wrapper still takes requests: asyncpg's proxy knows that
\* it went back to the pool.
Attached(t) ==
    wconn[t] # NoConn /\ (Backend = "asyncpg" => user[wconn[t]] = t)

\* asyncpg's Transaction object refuses commit and rollback before its start.
CanFinish(t) ==
    Attached(t) /\ (Backend = "asyncpg" => block[t] = "open")

ConnOf(t) == IF call[t].on = Client THEN cconn[t] ELSE wconn[t]

RowsOf(t, parts) ==
    {[by |-> t, via |-> call[t].on, part |-> n,
      late |-> call[t].on # Client /\ final[t] # "open"] : n \in parts}

\* psycopg's TransactionWrapper inherits execute_many, with its commit.
Sent(t) ==
    LET s == Wrote(State(ConnOf(t)), RowsOf(t, IF call[t].many THEN {1, 2} ELSE {0}))
    IN IF Backend = "psycopg" /\ call[t].many THEN Committed(s) ELSE s

\* A bug: wrappers acquire like the client, and release after each statement.
EndCallReleases(t, s) ==
    /\ Becomes(ConnOf(t), s)
    /\ user' = [user EXCEPT ![ConnOf(t)] = NoTask]
    /\ Goto(t, "run")
    /\ call' = [call EXCEPT ![t] = NoCall]
    /\ cconn' = [cconn EXCEPT ![t] = NoConn]

\* The call ends with its connection in state s; PoolConnectionWrapper gives
\* the connection back to the pool it came from.
EndCall(t, s) ==
    /\ IF call[t].on = Client
         THEN /\ Becomes(ConnOf(t), Returned(s))
              /\ user' = [user EXCEPT ![cconn[t]] = NoTask]
         ELSE /\ Becomes(ConnOf(t), s)
              /\ UNCHANGED user
    /\ Goto(t, "run")
    /\ call' = [call EXCEPT ![t] = NoCall]
    /\ cconn' = [cconn EXCEPT ![t] = NoConn]

\* A bug: __aexit__ forgets the pool.
GiveBackNot(t, s) ==
    /\ Becomes(wconn[t], s)
    /\ Goto(t, "releasing")
    /\ UNCHANGED <<user, exc, block, depth>>

\* pool.release() of the client's current pool, with the connection in state s;
\* it raises when another pool made the connection.
GiveBack(t, s) ==
    IF Home(wconn[t]) = pool
      THEN /\ Becomes(wconn[t], Returned(s))
           /\ user' = [user EXCEPT ![wconn[t]] = NoTask]
           /\ Goto(t, "releasing")
           /\ UNCHANGED <<exc, block, depth>>
      ELSE /\ Becomes(wconn[t], s)
           /\ Goto(t, "run") /\ Raise(t, "err")
           /\ block' = [block EXCEPT ![t] = "failed"]
           /\ depth' = [depth EXCEPT ![t] = 0]
           /\ UNCHANGED user

\* A bug: commit() and rollback() leave _finalized as it is.
FinaliseNot(t, how) == UNCHANGED final

\* self._finalized = True, remembering which call came first.
Finalise(t, how) ==
    final' = [final EXCEPT ![t] = IF final[t] = "open" THEN how ELSE final[t]]

-----------------------------------------------------------------------------
(* async with in_transaction() *)

\* The context is set before the pool is asked for a connection.
AcquireFor(t, p) ==
    /\ ctx' = [ctx EXCEPT ![t] = t]
    /\ want' = [want EXCEPT ![t] = p]
    /\ Goto(t, "acquiring")

EnterBlock(t) ==
    /\ pc[t] = "run" /\ exc[t] = "none"
    /\ ctx[t] = Client /\ block[t] = "none"
    /\ block' = [block EXCEPT ![t] = "entering"]
    /\ depth' = [depth EXCEPT ![t] = 1]
    /\ IF pool = NoPool THEN Goto(t, "pooling") /\ UNCHANGED <<ctx, want>>
                        ELSE AcquireFor(t, pool)
    /\ UNCHANGED <<exc, call, cconn, final, wconn, trx, poolVars, user, dbVars, cancelled>>

\* create_connection() returns: the pool it made replaces the client's pool.
PoolMade(t) ==
    /\ pc[t] \in {"pooling", "callpooling"}
    /\ \E p \in Pools \ made :
          /\ made' = made \cup {p}
          /\ pool' = p
          /\ \/ pc[t] = "pooling" /\ AcquireFor(t, p)
             \/ /\ pc[t] = "callpooling"
                /\ Goto(t, "callacquiring")
                /\ want' = [want EXCEPT ![t] = p]
                /\ UNCHANGED ctx
    /\ UNCHANGED <<depth, exc, call, cconn, block, final, wconn, trx, user, dbVars, cancelled>>

TakeConn(t) ==
    /\ pc[t] = "acquiring"
    /\ \E c \in Free(want[t]) :
          /\ user' = [user EXCEPT ![c] = t]
          /\ wconn' = [wconn EXCEPT ![t] = c]
    /\ Goto(t, "starting")
    /\ UNCHANGED <<depth, exc, ctx, call, want, cconn, block, final, trx, poolVars,
                   dbVars, cancelled>>

\* A bug: start() does not begin a transaction.
StartedNot(t) ==
    /\ pc[t] = "starting"
    /\ Goto(t, "run")
    /\ block' = [block EXCEPT ![t] = "open"]
    /\ UNCHANGED <<depth, exc, ctx, call, want, cconn, final, wconn, trx, poolVars, user,
                   dbVars, cancelled>>

Started(t) ==
    /\ pc[t] = "starting"
    /\ Becomes(wconn[t], StartedTx(State(wconn[t])))
    /\ Goto(t, "run")
    /\ block' = [block EXCEPT ![t] = "open"]
    /\ UNCHANGED <<depth, exc, ctx, call, want, cconn, final, wconn, trx, poolVars, user,
                   cancelled>>

EnterNested(t) ==
    /\ "nested" \in Features
    /\ pc[t] = "run" /\ exc[t] = "none"
    /\ ctx[t] # Client /\ depth[t] < MaxDepth
    /\ Goto(t, "nestlocking")
    /\ UNCHANGED <<depth, exc, ctx, call, want, cconn, block, final, wconn, trx, poolVars,
                   user, dbVars, cancelled>>

\* NestedTransactionPooledContext.__aenter__ takes the wrapper's _trxlock.
NestLocked(t) ==
    /\ pc[t] = "nestlocking" /\ trx[t] = NoTask
    /\ trx' = [trx EXCEPT ![t] = t]
    /\ depth' = [depth EXCEPT ![t] = @ + 1]
    /\ Goto(t, "run")
    /\ UNCHANGED <<exc, ctx, call, want, cconn, block, final, wconn, poolVars, user,
                   dbVars, cancelled>>

-----------------------------------------------------------------------------
(* Statements: async with self.acquire_connection() *)

\* On the client a connection of the pool, on a wrapper its own; a wrapper that
\* has none raises, as it has no create_connection() that works.  (The wrapper's own
\* _lock is left out: README.md.)
Call(t) ==
    /\ pc[t] = "run" /\ exc[t] = "none"
    /\ \E on \in {ctx[t]} \cup (IF "captured" \in Features THEN {Client} ELSE {}),
          many \in {FALSE} \cup (IF "bulk" \in Features THEN {TRUE} ELSE {}) :
          \/ /\ on = Client
             /\ call' = [call EXCEPT ![t] = [on |-> on, many |-> many]]
             /\ IF pool = NoPool
                  THEN Goto(t, "callpooling") /\ UNCHANGED want
                  ELSE Goto(t, "callacquiring") /\ want' = [want EXCEPT ![t] = pool]
             /\ UNCHANGED exc
          \/ /\ on # Client /\ Attached(t)
             /\ call' = [call EXCEPT ![t] = [on |-> on, many |-> many]]
             /\ Goto(t, "stmt")
             /\ UNCHANGED <<exc, want>>
          \/ /\ on # Client /\ ~Attached(t)
             /\ Raise(t, "err")
             /\ UNCHANGED <<pc, call, want>>
    /\ UNCHANGED <<depth, ctx, cconn, block, final, wconn, trx, poolVars, user, dbVars,
                   cancelled>>

\* asyncpg and MySQL wrap a bulk insert on the client in a transaction.
CallTakeConn(t) ==
    /\ pc[t] = "callacquiring"
    /\ \E c \in Free(want[t]) :
          /\ user' = [user EXCEPT ![c] = t]
          /\ cconn' = [cconn EXCEPT ![t] = c]
          /\ IF call[t].many /\ Backend # "psycopg"
               THEN Goto(t, "bulkrows") /\ Becomes(c, [State(c) EXCEPT !.status = "open"])
               ELSE Goto(t, "stmt") /\ UNCHANGED dbVars
    /\ UNCHANGED <<depth, exc, ctx, call, want, block, final, wconn, trx, poolVars, cancelled>>

StmtDone(t) ==
    /\ pc[t] = "stmt"
    /\ State(ConnOf(t)).status # "aborted"
    /\ EndCall(t, Sent(t))
    /\ UNCHANGED <<depth, exc, ctx, want, block, final, wconn, trx, poolVars, cancelled>>

\* What a failed statement leaves: psycopg's client calls connection.rollback()
\* when a bulk insert fails and on IntegrityError.
AfterFailure(t) ==
    LET s == State(ConnOf(t))
    IN IF Backend = "psycopg"
         THEN {RolledBack(s)} \cup (IF call[t].many THEN {} ELSE {Aborted(s)})
         ELSE {Aborted(s)}

StmtFails(t) ==
    /\ pc[t] = "stmt"
    /\ \/ /\ State(ConnOf(t)).status = "aborted"    \* TransactionManagementError
          /\ Raise(t, "tme")
          /\ EndCall(t, IF Backend = "psycopg" /\ call[t].many
                          THEN RolledBack(State(ConnOf(t))) ELSE State(ConnOf(t)))
       \/ /\ State(ConnOf(t)).status # "aborted" /\ "stmt" \in Faults
          /\ Raise(t, "err")
          /\ \E s \in AfterFailure(t) : EndCall(t, s)
    /\ UNCHANGED <<depth, ctx, want, block, final, wconn, trx, poolVars, cancelled>>

BulkInserted(t) ==
    /\ pc[t] = "bulkrows"
    /\ Becomes(cconn[t], Wrote(State(cconn[t]), RowsOf(t, {1, 2})))
    /\ Goto(t, "bulkcommit")
    /\ UNCHANGED <<depth, exc, ctx, call, want, cconn, block, final, wconn, trx, poolVars,
                   user, cancelled>>

\* A bug: the commit in a finally clause.
BulkFailedCommits(t) ==
    /\ pc[t] = "bulkrows" /\ "stmt" \in Faults
    /\ Becomes(cconn[t], Wrote(State(cconn[t]), RowsOf(t, {1})))
    /\ Goto(t, "bulkcommit")
    /\ UNCHANGED <<depth, exc, ctx, call, want, cconn, block, final, wconn, trx, poolVars,
                   user, cancelled>>

\* The insert fails after its first row: except Exception: rollback; raise.
BulkFailed(t) ==
    /\ pc[t] = "bulkrows" /\ "stmt" \in Faults
    /\ Becomes(cconn[t], Aborted(Wrote(State(cconn[t]), RowsOf(t, {1}))))
    /\ Goto(t, "bulkrollback")
    /\ UNCHANGED <<depth, exc, ctx, call, want, cconn, block, final, wconn, trx, poolVars,
                   user, cancelled>>

BulkEnded(t) ==
    /\ \/ pc[t] = "bulkcommit" /\ EndCall(t, Committed(State(cconn[t]))) /\ UNCHANGED exc
       \/ pc[t] = "bulkrollback" /\ EndCall(t, RolledBack(State(cconn[t]))) /\ Raise(t, "err")
    /\ UNCHANGED <<depth, ctx, want, block, final, wconn, trx, poolVars, cancelled>>

-----------------------------------------------------------------------------
(* The end of a block: __aexit__ *)

\* A bug: an __aexit__ whose __aenter__ did not run.
InFrameUnentered(t) == pc[t] = "run"

InFrame(t) == pc[t] = "run" /\ depth[t] > 0

\* NestedTransactionPooledContext.__aexit__: the lock first, then the rollback.
ExitNested(t) ==
    /\ InFrame(t) /\ ~OuterFrame(t)
    /\ trx' = [trx EXCEPT ![t] = NoTask]
    /\ IF exc[t] = "err" /\ final[t] = "open" /\ CanFinish(t)
         THEN Goto(t, "rollingback") /\ UNCHANGED depth
         ELSE depth' = [depth EXCEPT ![t] = @ - 1] /\ UNCHANGED pc
    /\ UNCHANGED <<exc, ctx, call, want, cconn, block, final, wconn, poolVars, user,
                   dbVars, cancelled>>

ExitBlock(t) ==
    /\ InFrame(t) /\ OuterFrame(t) /\ final[t] = "open"
    /\ \/ exc[t] = "none" /\ Goto(t, "committing")
       \/ exc[t] = "err" /\ Goto(t, "rollingback")
    /\ UNCHANGED <<depth, exc, ctx, call, want, cconn, block, final, wconn, trx, poolVars,
                   user, dbVars, cancelled>>

\* The wrapper is final, or a TransactionManagementError leaves the block.
ExitAsIs(t) ==
    /\ InFrame(t) /\ OuterFrame(t)
    /\ exc[t] = "tme" \/ final[t] # "open"
    /\ GiveBack(t, State(wconn[t]))
    /\ UNCHANGED <<ctx, call, want, cconn, final, wconn, trx, poolVars, cancelled>>

ExitDone(t) ==
    /\ pc[t] \in {"committing", "rollingback"}
    /\ LET committing == pc[t] = "committing"
           s == IF committing THEN CommittedTx(State(wconn[t]))
                              ELSE RolledBackTx(State(wconn[t]))
       IN /\ Finalise(t, IF committing THEN "committed" ELSE "rolledback")
          /\ \/ OuterFrame(t) /\ GiveBack(t, s)
             \/ /\ ~OuterFrame(t)
                /\ Becomes(wconn[t], s)
                /\ Goto(t, "run")
                /\ depth' = [depth EXCEPT ![t] = @ - 1]
                /\ UNCHANGED <<exc, block, user>>
    /\ UNCHANGED <<ctx, call, want, cconn, wconn, trx, poolVars, cancelled>>

\* connections.reset(self.token)
Released(t) ==
    /\ pc[t] = "releasing"
    /\ Goto(t, "run")
    /\ ctx' = [ctx EXCEPT ![t] = Client]
    /\ depth' = [depth EXCEPT ![t] = 0]
    /\ block' = [block EXCEPT ![t] = IF exc[t] = "none" THEN "ok" ELSE "error"]
    /\ UNCHANGED <<exc, call, want, cconn, final, wconn, trx, poolVars, user, dbVars, cancelled>>

\* connection.commit() or rollback() called by the code in the block.
UserFinish(t) ==
    /\ "manual" \in Features
    /\ pc[t] = "run" /\ exc[t] = "none" /\ ctx[t] # Client
    /\ \/ /\ final[t] # "open"              \* Transaction already finalised
          /\ Raise(t, "tme") /\ UNCHANGED pc
       \/ /\ final[t] = "open" /\ ~CanFinish(t)
          /\ Raise(t, "err") /\ UNCHANGED pc
       \/ /\ final[t] = "open" /\ CanFinish(t)
          /\ \E p \in Manual : Goto(t, p)
          /\ UNCHANGED exc
    /\ UNCHANGED <<depth, ctx, call, want, cconn, block, final, wconn, trx, poolVars, user,
                   dbVars, cancelled>>

UserFinishDone(t) ==
    /\ \/ /\ pc[t] = "usercommit"
          /\ Becomes(wconn[t], CommittedTx(State(wconn[t])))
          /\ Finalise(t, "committed")
       \/ /\ pc[t] = "userrollback"
          /\ Becomes(wconn[t], RolledBackTx(State(wconn[t])))
          /\ Finalise(t, "rolledback")
    /\ Goto(t, "run")
    /\ UNCHANGED <<depth, exc, ctx, call, want, cconn, block, wconn, trx, poolVars, user,
                   cancelled>>

-----------------------------------------------------------------------------
(* The code that uses the ORM (external) *)

Throw(t) ==
    /\ InFrame(t) /\ exc[t] = "none"
    /\ \/ Raise(t, "err")
       \/ "tme" \in Faults /\ Raise(t, "tme")
    /\ UNCHANGED <<pc, depth, ctx, call, want, cconn, block, final, wconn, trx, poolVars,
                   user, dbVars, cancelled>>

Catch(t) ==
    /\ pc[t] = "run" /\ exc[t] # "none"
    /\ Raise(t, "none")
    /\ UNCHANGED <<pc, depth, ctx, call, want, cconn, block, final, wconn, trx, poolVars,
                   user, dbVars, cancelled>>

Finish(t) ==
    /\ pc[t] = "run" /\ depth[t] = 0
    /\ Goto(t, "done")
    /\ UNCHANGED <<depth, exc, ctx, call, want, cconn, block, final, wconn, trx, poolVars,
                   user, dbVars, cancelled>>

-----------------------------------------------------------------------------
(* Faults *)

\* Exception e ends the await that t is suspended in.  Out of __aenter__ or of
\* the outer __aexit__ it skips pool.release() and connections.reset().
Abort(t, e) ==
    LET broken == pc[t] \in Entering \/ (pc[t] \in Leaving /\ OuterFrame(t))
    IN /\ Goto(t, "run") /\ Raise(t, e)
       /\ block' = IF broken THEN [block EXCEPT ![t] = "failed"] ELSE block
       /\ depth' = [depth EXCEPT ![t] =
                      IF broken THEN 0 ELSE IF pc[t] \in Leaving THEN @ - 1 ELSE @]
       /\ UNCHANGED <<ctx, want, final, wconn, trx, poolVars>>

\* create_pool() fails.
PoolFails(t) ==
    /\ "connect" \in Faults
    /\ pc[t] \in {"pooling", "callpooling"}
    /\ Abort(t, "err")
    /\ call' = [call EXCEPT ![t] = NoCall]
    /\ UNCHANGED <<cconn, user, dbVars, cancelled>>

StartFails(t) ==
    /\ "begin" \in Faults
    /\ pc[t] = "starting"
    /\ Abort(t, "err")
    /\ UNCHANGED <<call, cconn, user, dbVars, cancelled>>

\* A commit that fails rolls the transaction back; a rollback that fails leaves it.
FinishFails(t) ==
    /\ \/ /\ "commit" \in Faults /\ pc[t] \in {"committing", "usercommit"}
          /\ Becomes(wconn[t], RolledBack(State(wconn[t])))
       \/ /\ "rollback" \in Faults /\ pc[t] \in {"rollingback", "userrollback"}
          /\ UNCHANGED dbVars
    /\ Abort(t, "err")
    /\ UNCHANGED <<call, cconn, user, cancelled>>

\* The states in which a cancelled request may leave its connection: it was
\* executed, it was not, or PostgreSQL aborted the transaction it was part of.
Outcomes(t, s) ==
    CASE pc[t] = "starting" -> {s, StartedTx(s)}
      [] pc[t] = "stmt" -> {s, Aborted(s)} \cup
                             (IF s.status = "aborted" THEN {} ELSE {Sent(t)})
      [] pc[t] \in {"bulkrows", "bulkrollback"} -> {s}
      [] pc[t] = "bulkcommit" -> {s, Committed(s)}
      [] pc[t] \in {"committing", "usercommit"} -> {s, CommittedTx(s)}
      [] pc[t] \in {"rollingback", "userrollback"} -> {s, RolledBackTx(s)}

\* task.cancel() of a suspended task.  A pool release that has begun goes on.
Cancel(t) ==
    /\ "cancel" \in Faults
    /\ t \notin cancelled /\ pc[t] \notin {"run", "done"}
    /\ cancelled' = cancelled \cup {t}
    /\ Abort(t, "err")
    /\ \/ /\ pc[t] \in {"pooling", "acquiring", "nestlocking", "releasing",
                        "callpooling", "callacquiring"}
          /\ call' = [call EXCEPT ![t] = NoCall]
          /\ UNCHANGED <<cconn, user, dbVars>>
       \/ /\ pc[t] \in {"stmt", "bulkrows", "bulkcommit", "bulkrollback"}
          /\ \E s \in Outcomes(t, State(ConnOf(t))) : EndCall(t, s)
       \/ /\ pc[t] \in {"starting", "committing", "rollingback"} \cup Manual
          /\ \E s \in Outcomes(t, State(wconn[t])) : Becomes(wconn[t], s)
          /\ UNCHANGED <<call, cconn, user>>

-----------------------------------------------------------------------------

FirstPool == CHOOSE p \in Pools : TRUE

Init ==
    /\ pc = [t \in Tasks |-> "run"]
    /\ depth = [t \in Tasks |-> 0]
    /\ exc = [t \in Tasks |-> "none"]
    /\ ctx = [t \in Tasks |-> Client]
    /\ call = [t \in Tasks |-> NoCall]
    /\ want = [t \in Tasks |-> NoPool]
    /\ cconn = [t \in Tasks |-> NoConn]
    /\ block = [t \in Tasks |-> "none"]
    /\ final = [t \in Tasks |-> "open"]
    /\ wconn = [t \in Tasks |-> NoConn]
    /\ trx = [t \in Tasks |-> NoTask]
    /\ pool = IF Cold THEN NoPool ELSE FirstPool
    /\ made = IF Cold THEN {} ELSE {FirstPool}
    /\ user = [c \in Conns |-> NoTask]
    /\ db = [c \in Conns |-> [status |-> "none", auto |-> TRUE, rows |-> {}]]
    /\ durable = {} /\ lost = {}
    /\ cancelled = {}

Enter(t) == EnterBlock(t) \/ PoolMade(t) \/ TakeConn(t) \/ Started(t)
              \/ EnterNested(t) \/ NestLocked(t)

Statement(t) == Call(t) \/ CallTakeConn(t) \/ StmtDone(t) \/ StmtFails(t)
                  \/ BulkInserted(t) \/ BulkFailed(t) \/ BulkEnded(t)

Exit(t) == ExitNested(t) \/ ExitBlock(t) \/ ExitAsIs(t) \/ ExitDone(t) \/ Released(t)
             \/ UserFinish(t) \/ UserFinishDone(t)

User(t) == Throw(t) \/ Catch(t) \/ Finish(t)

Fault(t) == PoolFails(t) \/ StartFails(t) \/ FinishFails(t) \/ Cancel(t)

Terminating ==
    /\ \A t \in Tasks : pc[t] = "done"
    /\ UNCHANGED vars

Next == \/ \E t \in Tasks : Enter(t) \/ Statement(t) \/ Exit(t) \/ User(t) \/ Fault(t)
        \/ Terminating

Spec == Init /\ [][Next]_vars

\* The steps of t that the event loop and the database bring about.
Progress(t) == pc[t] # "run" /\ (Enter(t) \/ Statement(t) \/ Exit(t))

\* The code of t leaves its block, or returns.
End(t) == ExitBlock(t) \/ ExitAsIs(t) \/ Finish(t)

\* The event loop and the database go on; a pool serves its waiters in order; the
\* code in a block comes to its end.
Fairness ==
    \A t \in Tasks :
        /\ WF_vars(Progress(t))
        /\ SF_vars(TakeConn(t)) /\ SF_vars(CallTakeConn(t))
        /\ SF_vars(ExitNested(t)) /\ SF_vars(End(t))

FairSpec == Spec /\ Fairness

-----------------------------------------------------------------------------
(* Properties *)

TaskTypes ==
    /\ pc \in [Tasks -> PCs]
    /\ depth \in [Tasks -> 0..MaxDepth]
    /\ exc \in [Tasks -> {"none", "err", "tme"}]
    /\ \A t \in Tasks : ctx[t] \in {Client, t}
    /\ call \in [Tasks -> Calls]
    /\ want \in [Tasks -> Pools \cup {NoPool}]
    /\ cconn \in [Tasks -> Conns \cup {NoConn}]
    /\ block \in [Tasks -> {"none", "entering", "open", "ok", "error", "failed"}]
    /\ final \in [Tasks -> {"open", "committed", "rolledback"}]
    /\ wconn \in [Tasks -> Conns \cup {NoConn}]
    /\ trx \in [Tasks -> Tasks \cup {NoTask}]
    /\ cancelled \subseteq Tasks

StoreTypes ==
    /\ pool \in made \cup {NoPool} /\ made \subseteq Pools
    /\ user \in [Conns -> Tasks \cup {NoTask}]
    /\ db \in [Conns -> [status : Statuses, auto : BOOLEAN, rows : SUBSET Rows]]
    /\ durable \subseteq Rows /\ lost \subseteq Rows

\* The type invariant.
TypeOK == TaskTypes /\ StoreTypes

\* The connection that a task has sent a request on.
RequestConn(t) ==
    IF pc[t] \in {"stmt", "bulkrows", "bulkcommit", "bulkrollback"} THEN ConnOf(t)
    ELSE IF pc[t] \in {"starting", "committing", "rollingback"} \cup Manual THEN wconn[t]
    ELSE NoConn

\* A block owns the connection of its wrapper until it gives it back, and whatever
\* failed or was cancelled before, a request goes to a connection of its task's
\* own: no two tasks talk on one connection.
ConnectionOwned ==
    \A t \in Tasks :
        /\ block[t] = "open" /\ pc[t] # "releasing" => user[wconn[t]] = t
        /\ RequestConn(t) # NoConn => user[RequestConn(t)] = t

Early(t, rows) == {row \in rows : row.via = t /\ ~row.late}
Pending == UNION {db[c].rows : c \in Conns}

\* The rows a block wrote before its wrapper was final share one fate, and they are
\* durable only when commit() was done, by __aexit__ or by hand, or when the block
\* never began (start() failed) and each statement committed by itself.  A commit()
\* that was done need not have kept them: PostgreSQL rolls an aborted transaction back.
BlockAllOrNothing ==
    \A t \in Tasks :
        Early(t, durable) # {} =>
            /\ Early(t, lost \cup Pending) = {}
            /\ final[t] = "committed" \/ block[t] = "failed"

\* in_transaction runs the block "into one transaction": when an error leaves it, and
\* nobody called commit(), no row written through its wrapper is durable, the rows
\* included that were written when the wrapper was final already.  Blocks keep it that
\* neither nest nor call rollback() by hand; see README.md for those that do.
BlockErrorRollsBack ==
    \A t \in Tasks :
        block[t] = "error" /\ final[t] # "committed" => \A row \in durable : row.via # t

\* A statement on the client that raised nothing is durable: it is in no
\* transaction that could be rolled back.
AutocommitDurable ==
    \A row \in lost : row.via = Client => row.part # 0

\* A bulk insert on the client leaves all of its rows or none.
BulkAtomic ==
    \A t \in Tasks :
        LET bulk(n) == [by |-> t, via |-> Client, late |-> FALSE, part |-> n]
        IN bulk(1) \in durable <=> bulk(2) \in durable

\* A task that asks a pool for a connection gets one.
PoolServed ==
    \A t \in Tasks :
        /\ pc[t] = "acquiring" ~> pc[t] # "acquiring"
        /\ pc[t] = "callacquiring" ~> pc[t] # "callacquiring"

\* The client as a store of blocks that run side by side.
Over(t) == final[t] # "open" \/ block[t] \in {"ok", "error", "failed"} \/ pc[t] = "releasing"
RowOf(row, t) == row.via = t
Store == INSTANCE TransactionStore WITH
    Blocks <- Tasks, Row <- Rows, Belongs <- RowOf,
    staged <- [t \in Tasks |-> Early(t, Pending)],
    ended <- {t \in Tasks : Over(t)}
StoreSpec == Store!Spec

=============================================================================
