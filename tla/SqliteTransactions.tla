------------------------- MODULE SqliteTransactions -------------------------
(***************************************************************************)
(* Transactions of the SQLite backend: asyncio tasks that share one        *)
(* SqliteClient, its asyncio.Lock and its single aiosqlite connection.     *)
(*                                                                         *)
(*   backends/base/client.py    ConnectionWrapper, TransactionContext,     *)
(*                              NestedTransactionContext                   *)
(*   backends/sqlite/client.py  SqliteClient, TransactionWrapper           *)
(*   transactions.py            in_transaction, atomic                     *)
(*                                                                         *)
(* A step of a task is the code between two awaits.  aiosqlite (external)  *)
(* runs the requests of all tasks in the order they were submitted, on one *)
(* worker thread: "queue".  Executing the head of the queue and resuming   *)
(* the task that awaits it are one step; the task touches no state of      *)
(* another task's next request in between, so the two orders commute.      *)
(***************************************************************************)
EXTENDS Naturals, Sequences, FiniteSets

CONSTANTS
    Tasks,      \* asyncio tasks; the wrapper of a task's own block has its name
    Roots,      \* the tasks that run from the start, the others are spawned
    Client,     \* the SqliteClient itself, as a target of statements
    NoTask,
    MaxDepth,   \* bound on the nesting of in_transaction blocks
    Faults,     \* which of AllFaults may happen
    Features,   \* which of AllFeatures the tasks' code uses
    Cold,       \* the connection is opened by the first task that needs it
    Joined      \* a block waits for the tasks it spawned before it ends

AllFaults   == {"connect", "begin", "stmt", "commit", "rollback", "cancel", "tme"}
AllFeatures == {"nested", "manual", "bulk", "captured", "spawn"}

ASSUME SqliteAssumption ==
    /\ Roots \subseteq Tasks
    /\ Client \notin Tasks
    /\ NoTask \notin Tasks \cup {Client}
    /\ MaxDepth \in Nat \ {0}
    /\ Faults \subseteq AllFaults
    /\ Features \subseteq AllFeatures
    /\ Cold \in BOOLEAN
    /\ Joined \in BOOLEAN

VARIABLES
    pc,         \* the await a task is suspended in, "run" in its own code
    depth,      \* how many in_transaction frames the task is inside of
    exc,        \* the exception propagating through the task
    ctx,        \* the client its context gives: Client or a wrapper
    call,       \* the statement call in progress: its target, and if bulk
    block,      \* the fate of the task's own top-level block
    final,      \* _finalized of a wrapper, and what finalised it
    lock,       \* holder of SqliteClient._lock (the wrappers' _trxlock)
    wlock,      \* holder of each TransactionWrapper._lock
    conn,       \* SqliteClient._connection
    queue,      \* requests submitted to the aiosqlite worker thread
    dbtx,       \* the task whose BEGIN is open in the database
    dirty,      \* rows written inside the open database transaction
    durable,    \* rows committed
    lost,       \* rows rolled back
    cancelled   \* tasks that were cancelled (once at most: a bound)

taskVars == <<pc, depth, exc, ctx, call, block, cancelled>>
lockVars == <<lock, wlock>>
dbVars   == <<dbtx, dirty, durable, lost>>
vars     == <<pc, depth, exc, ctx, call, block, final, lock, wlock, conn,
              queue, dbtx, dirty, durable, lost, cancelled>>

-----------------------------------------------------------------------------
(* Domains *)

Entering == {"connecting", "pragmas", "locking", "cleaning", "beginning"}
InCall   == {"callconnect", "callpragmas", "stmt",
             "bulkbegin", "bulkrows", "bulkcommit", "bulkrollback"}
Leaving  == {"committing", "rollingback"}
Manual   == {"usercommit", "userrollback"}
PCs      == {"idle", "run", "waiting", "done"}
              \cup Entering \cup InCall \cup Leaving \cup Manual

Targets  == Tasks \cup {Client}
Ops      == {"setup", "foreignkeys", "stmt", "many", "begin", "commit", "rollback"}
Requests == [by : Tasks, on : Targets, op : Ops, live : BOOLEAN]
Rows     == [by : Tasks, via : Targets, late : BOOLEAN, part : 0..2]
Calls    == [on : Targets, many : BOOLEAN]
NoCall   == [on |-> Client, many |-> FALSE]

\* aiosqlite accepts requests: its _connect() has returned.
Usable == conn \in {"up", "ready"}

\* Task t is in the body, or the end, of its own top-level block, at the
\* frame that opened it.
OuterFrame(t) == block[t] = "open" /\ depth[t] = 1

-----------------------------------------------------------------------------
(* The worker thread and the database (external: aiosqlite and SQLite) *)

Request(t, on, op) == [by |-> t, on |-> on, op |-> op, live |-> TRUE]

Submit(t, on, op) == queue' = Append(queue, Request(t, on, op))

\* Consume the head of the queue and submit the task's next request.
SubmitNext(t, on, op) == queue' = Append(Tail(queue), Request(t, on, op))

\* The head of the queue is what task t, suspended in p, is waiting for.
Answered(t, p) ==
    /\ pc[t] = p
    /\ queue # <<>>
    /\ Head(queue).by = t
    /\ Head(queue).live

\* The rows a write request leaves, marked late when its wrapper was final.
RowsOf(r, parts) ==
    {[by |-> r.by, via |-> r.on, part |-> n,
      late |-> r.on # Client /\ final[r.on] # "open"] : n \in parts}

\* Outside of BEGIN the connection is in autocommit (isolation_level=None).
Store(rows) ==
    IF dbtx = NoTask THEN durable' = durable \cup rows /\ UNCHANGED dirty
                     ELSE dirty' = dirty \cup rows /\ UNCHANGED durable

\* Request r is executed without an error.
Perform(r) ==
    \/ /\ r.op = "setup"
       /\ UNCHANGED <<conn, dbVars>>
    \/ /\ r.op = "foreignkeys"    \* ignored by SQLite inside a transaction
       /\ conn' = IF dbtx = NoTask THEN "ready" ELSE conn
       /\ UNCHANGED dbVars
    \/ /\ r.op \in {"stmt", "many"}
       /\ Store(RowsOf(r, IF r.op = "many" THEN {1, 2} ELSE {0}))
       /\ UNCHANGED <<conn, dbtx, lost>>
    \/ /\ r.op = "begin"
       /\ dbtx = NoTask
       /\ dbtx' = r.by
       /\ UNCHANGED <<conn, dirty, durable, lost>>
    \/ /\ r.op = "commit"
       /\ durable' = durable \cup dirty
       /\ dirty' = {}
       /\ dbtx' = NoTask
       /\ UNCHANGED <<conn, lost>>
    \/ /\ r.op = "rollback"
       /\ lost' = lost \cup dirty
       /\ dirty' = {}
       /\ dbtx' = NoTask
       /\ UNCHANGED <<conn, durable>>

\* Request r raises: an injected fault, or BEGIN inside a transaction.  A bulk
\* insert fails after its first row; any other request changes nothing.
Fail(r) ==
    /\ \/ r.op \in {"setup", "foreignkeys"} /\ "connect" \in Faults
       \/ r.op \in {"stmt", "many"} /\ "stmt" \in Faults
       \/ r.op \in Faults
       \/ r.op = "begin" /\ dbtx # NoTask
    /\ IF r.op = "many" THEN Store(RowsOf(r, {1})) ELSE UNCHANGED <<dirty, durable>>
    /\ UNCHANGED <<conn, dbtx, lost>>

-----------------------------------------------------------------------------
(* Small steps of the code that several actions share *)

Goto(t, p)  == pc' = [pc EXCEPT ![t] = p]
Raise(t, e) == exc' = [exc EXCEPT ![t] = e]

\* A bug: the wrapper of a block shares the client's lock.
FreeTargetOfClient(t) == lock' = NoTask /\ UNCHANGED wlock

\* self.lock.release() of ConnectionWrapper.__aexit__.
FreeTarget(t) ==
    IF call[t].on = Client
      THEN lock' = NoTask /\ UNCHANGED wlock
      ELSE wlock' = [wlock EXCEPT ![call[t].on] = NoTask] /\ UNCHANGED lock

EndCall(t) ==
    /\ Goto(t, "run")
    /\ call' = [call EXCEPT ![t] = NoCall]

\* A bug: __aexit__ forgets self.lock.release().
LeaveBlockHolding(t) ==
    /\ Goto(t, "run")
    /\ ctx' = [ctx EXCEPT ![t] = Client]
    /\ lock' = lock
    /\ depth' = [depth EXCEPT ![t] = 0]
    /\ block' = [block EXCEPT ![t] = IF exc[t] = "none" THEN "ok" ELSE "error"]

\* connections.reset(self.token); self.lock.release().
LeaveBlock(t) ==
    /\ Goto(t, "run")
    /\ ctx' = [ctx EXCEPT ![t] = Client]
    /\ lock' = NoTask
    /\ depth' = [depth EXCEPT ![t] = 0]
    /\ block' = [block EXCEPT ![t] = IF exc[t] = "none" THEN "ok" ELSE "error"]

\* self._finalized = True, remembering which call came first.
Finalise(w, how) ==
    final' = [final EXCEPT ![w] = IF final[w] = "open" THEN how ELSE final[w]]

-----------------------------------------------------------------------------
(* async with in_transaction(): TransactionContext.__aenter__ *)

\* A new TransactionWrapper, and ensure_connection(), before the lock.
EnterBlock(t) ==
    /\ pc[t] = "run" /\ exc[t] = "none"
    /\ ctx[t] = Client /\ block[t] = "none"
    /\ block' = [block EXCEPT ![t] = "entering"]
    /\ depth' = [depth EXCEPT ![t] = 1]
    /\ IF conn = "none" THEN Goto(t, "connecting") /\ conn' = "opening"
                        ELSE Goto(t, "locking") /\ UNCHANGED conn
    /\ UNCHANGED <<exc, ctx, call, final, lockVars, queue, dbVars, cancelled>>

\* The context's client is a wrapper: NestedTransactionContext awaits nothing.
EnterNested(t) ==
    /\ "nested" \in Features
    /\ pc[t] = "run" /\ exc[t] = "none"
    /\ ctx[t] # Client /\ depth[t] < MaxDepth
    /\ depth' = [depth EXCEPT ![t] = @ + 1]
    /\ UNCHANGED <<pc, exc, ctx, call, block, final, lockVars, conn, queue,
                   dbVars, cancelled>>

\* create_connection(): _connect() returns, the PRAGMAs follow as requests.
Connected(t) ==
    /\ pc[t] \in {"connecting", "callconnect"}
    /\ conn' = "up"
    /\ Goto(t, IF pc[t] = "connecting" THEN "pragmas" ELSE "callpragmas")
    /\ Submit(t, Client, "setup")
    /\ UNCHANGED <<depth, exc, ctx, call, block, final, lockVars, dbVars, cancelled>>

\* for pragma, val in self.pragmas.items(): an execute and a close for each, and
\* foreign_keys last unless the user names it.
PragmaNext(t) ==
    /\ Answered(t, "pragmas") \/ Answered(t, "callpragmas")
    /\ Head(queue).op = "setup"
    /\ Perform(Head(queue))
    /\ \E op \in {"setup", "foreignkeys"} : SubmitNext(t, Client, op)
    /\ UNCHANGED <<pc, depth, exc, ctx, call, block, final, lockVars, cancelled>>

PragmasDone(t) ==
    /\ Answered(t, "pragmas") /\ Head(queue).op = "foreignkeys"
    /\ Perform(Head(queue))
    /\ Goto(t, "locking")
    /\ queue' = Tail(queue)
    /\ UNCHANGED <<depth, exc, ctx, call, block, final, lockVars, cancelled>>

\* A bug: each block has a lock of its own.
AcquireBlockAlone(t) ==
    /\ pc[t] = "locking" /\ Usable
    /\ lock' = t
    /\ ctx' = [ctx EXCEPT ![t] = t]
    /\ Goto(t, "cleaning")
    /\ Submit(t, t, "commit")
    /\ UNCHANGED <<depth, exc, call, block, final, wlock, conn, dbVars, cancelled>>

\* lock.acquire(), connections.set(), then start(): its first commit().
AcquireBlock(t) ==
    /\ pc[t] = "locking" /\ lock = NoTask /\ Usable
    /\ lock' = t
    /\ ctx' = [ctx EXCEPT ![t] = t]
    /\ Goto(t, "cleaning")
    /\ Submit(t, t, "commit")
    /\ UNCHANGED <<depth, exc, call, block, final, wlock, conn, dbVars, cancelled>>

\* The same on a connection that is not open: start() raises ValueError, which
\* no __aexit__ sees: the lock and the context stay.
AcquireRefused(t) ==
    /\ pc[t] = "locking" /\ lock = NoTask /\ ~Usable
    /\ lock' = t
    /\ ctx' = [ctx EXCEPT ![t] = t]
    /\ Goto(t, "run") /\ Raise(t, "err")
    /\ block' = [block EXCEPT ![t] = "failed"]
    /\ depth' = [depth EXCEPT ![t] = 0]
    /\ UNCHANGED <<call, final, wlock, conn, queue, dbVars, cancelled>>

CleanDone(t) ==
    /\ Answered(t, "cleaning")
    /\ Perform(Head(queue))
    /\ Goto(t, "beginning")
    /\ SubmitNext(t, t, "begin")
    /\ UNCHANGED <<depth, exc, ctx, call, block, final, lockVars, cancelled>>

BeginDone(t) ==
    /\ Answered(t, "beginning")
    /\ Perform(Head(queue))
    /\ Goto(t, "run")
    /\ queue' = Tail(queue)
    /\ block' = [block EXCEPT ![t] = "open"]
    /\ UNCHANGED <<depth, exc, ctx, call, final, lockVars, cancelled>>

-----------------------------------------------------------------------------
(* Statements: async with self.acquire_connection() *)

\* A bug: the client's own statements do not wait for its lock.
TargetFreeUnlessWrapper(t) ==
    IF call[t].on = Client THEN TRUE ELSE wlock[call[t].on] = NoTask

TargetFree(t) ==
    IF call[t].on = Client THEN lock = NoTask ELSE wlock[call[t].on] = NoTask

TakeTarget(t) ==
    IF call[t].on = Client
      THEN lock' = t /\ UNCHANGED wlock
      ELSE wlock' = [wlock EXCEPT ![call[t].on] = t] /\ UNCHANGED lock

\* SqliteClient.execute_many opens a transaction of its own.
BulkAlone(t) == call[t].many /\ call[t].on = Client
FirstPc(t) == IF BulkAlone(t) THEN "bulkbegin" ELSE "stmt"
FirstOp(t) == IF BulkAlone(t) THEN "begin"
              ELSE IF call[t].many THEN "many" ELSE "stmt"

\* A statement on the context's client, or on a client captured earlier.
Call(t) ==
    /\ pc[t] = "run" /\ exc[t] = "none"
    /\ \E on \in {ctx[t]} \cup (IF "captured" \in Features THEN {Client} ELSE {}),
          many \in {FALSE} \cup (IF "bulk" \in Features THEN {TRUE} ELSE {}) :
          call' = [call EXCEPT ![t] = [on |-> on, many |-> many]]
    /\ Goto(t, "waiting")
    /\ UNCHANGED <<depth, exc, ctx, block, final, lockVars, conn, queue, dbVars,
                   cancelled>>

CallSubmit(t) ==
    /\ pc[t] = "waiting" /\ TargetFree(t) /\ Usable
    /\ TakeTarget(t)
    /\ Goto(t, FirstPc(t))
    /\ Submit(t, call[t].on, FirstOp(t))
    /\ UNCHANGED <<depth, exc, ctx, call, block, final, conn, dbVars, cancelled>>

\* ConnectionWrapper.ensure_connection(), under the lock.
CallConnect(t) ==
    /\ pc[t] = "waiting" /\ TargetFree(t) /\ conn = "none"
    /\ TakeTarget(t)
    /\ conn' = "opening"
    /\ Goto(t, "callconnect")
    /\ UNCHANGED <<depth, exc, ctx, call, block, final, queue, dbVars, cancelled>>

\* The connection exists and is not open: the request raises ValueError, and
\* __aexit__ gives the lock back.
CallRefused(t) ==
    /\ pc[t] = "waiting" /\ TargetFree(t) /\ conn \in {"opening", "dead"}
    /\ EndCall(t)
    /\ Raise(t, "err")
    /\ UNCHANGED <<depth, ctx, block, final, lockVars, conn, queue, dbVars, cancelled>>

CallPragmasDone(t) ==
    /\ Answered(t, "callpragmas") /\ Head(queue).op = "foreignkeys"
    /\ Perform(Head(queue))
    /\ Goto(t, FirstPc(t))
    /\ SubmitNext(t, call[t].on, FirstOp(t))
    /\ UNCHANGED <<depth, exc, ctx, call, block, final, lockVars, cancelled>>

StmtDone(t) ==
    /\ Answered(t, "stmt")
    /\ Perform(Head(queue))
    /\ queue' = Tail(queue)
    /\ FreeTarget(t) /\ EndCall(t)
    /\ UNCHANGED <<depth, exc, ctx, block, final, cancelled>>

BulkBegun(t) ==
    /\ Answered(t, "bulkbegin")
    /\ Perform(Head(queue))
    /\ Goto(t, "bulkrows")
    /\ SubmitNext(t, Client, "many")
    /\ UNCHANGED <<depth, exc, ctx, call, block, final, lockVars, cancelled>>

BulkInserted(t) ==
    /\ Answered(t, "bulkrows")
    /\ Perform(Head(queue))
    /\ Goto(t, "bulkcommit")
    /\ SubmitNext(t, Client, "commit")
    /\ UNCHANGED <<depth, exc, ctx, call, block, final, lockVars, cancelled>>

\* except Exception: await connection.rollback(); raise
BulkFailed(t) ==
    /\ Answered(t, "bulkrows")
    /\ Fail(Head(queue))
    /\ Goto(t, "bulkrollback")
    /\ SubmitNext(t, Client, "rollback")
    /\ UNCHANGED <<depth, exc, ctx, call, block, final, lockVars, cancelled>>

BulkEnded(t) ==
    /\ Answered(t, "bulkcommit") \/ Answered(t, "bulkrollback")
    /\ Perform(Head(queue))
    /\ queue' = Tail(queue)
    /\ FreeTarget(t) /\ EndCall(t)
    /\ IF pc[t] = "bulkrollback" THEN Raise(t, "err") ELSE UNCHANGED exc
    /\ UNCHANGED <<depth, ctx, block, final, cancelled>>

-----------------------------------------------------------------------------
(* The end of a block: __aexit__ *)

\* A bug: an __aexit__ whose __aenter__ did not run.
InFrameUnentered(t) == pc[t] = "run"

InFrame(t) == pc[t] = "run" /\ depth[t] > 0

\* The tasks that inherited the wrapper of t are over (asyncio.gather with no
\* exception, or an await of each).
ChildrenJoined(t) ==
    Joined => \A c \in Tasks \ {t} : ctx[c] = t => pc[c] = "done"

\* NestedTransactionContext.__aexit__ with nothing to do.
ExitNested(t) ==
    /\ InFrame(t) /\ ~OuterFrame(t)
    /\ exc[t] # "err" \/ final[ctx[t]] # "open"
    /\ depth' = [depth EXCEPT ![t] = @ - 1]
    /\ UNCHANGED <<pc, exc, ctx, call, block, final, lockVars, conn, queue,
                   dbVars, cancelled>>

\* Both contexts roll the wrapper back on any exception but
\* TransactionManagementError.
ExitRollback(t) ==
    /\ InFrame(t)
    /\ OuterFrame(t) => ChildrenJoined(t)
    /\ exc[t] = "err" /\ final[ctx[t]] = "open"
    /\ Goto(t, "rollingback")
    /\ Submit(t, ctx[t], "rollback")
    /\ UNCHANGED <<depth, exc, ctx, call, block, final, lockVars, conn, dbVars,
                   cancelled>>

ExitCommit(t) ==
    /\ InFrame(t) /\ OuterFrame(t) /\ ChildrenJoined(t)
    /\ exc[t] = "none" /\ final[ctx[t]] = "open"
    /\ Goto(t, "committing")
    /\ Submit(t, ctx[t], "commit")
    /\ UNCHANGED <<depth, exc, ctx, call, block, final, lockVars, conn, dbVars,
                   cancelled>>

\* A bug: no exception rolls back.
ExitAsIsOnError(t) ==
    /\ InFrame(t) /\ OuterFrame(t) /\ ChildrenJoined(t)
    /\ exc[t] # "none" \/ final[ctx[t]] # "open"
    /\ LeaveBlock(t)
    /\ UNCHANGED <<exc, call, final, wlock, conn, queue, dbVars, cancelled>>

\* The wrapper is final, or a TransactionManagementError leaves the block.
ExitAsIs(t) ==
    /\ InFrame(t) /\ OuterFrame(t) /\ ChildrenJoined(t)
    /\ exc[t] = "tme" \/ final[ctx[t]] # "open"
    /\ LeaveBlock(t)
    /\ UNCHANGED <<exc, call, final, wlock, conn, queue, dbVars, cancelled>>

ExitDone(t) ==
    /\ \/ Answered(t, "committing") /\ Finalise(ctx[t], "committed")
       \/ Answered(t, "rollingback") /\ Finalise(ctx[t], "rolledback")
    /\ Perform(Head(queue))
    /\ queue' = Tail(queue)
    /\ IF OuterFrame(t)
         THEN LeaveBlock(t)
         ELSE /\ Goto(t, "run")
              /\ depth' = [depth EXCEPT ![t] = @ - 1]
              /\ UNCHANGED <<ctx, block, lock>>
    /\ UNCHANGED <<exc, call, wlock, cancelled>>

\* connection.commit() or rollback() called by the code in the block.
UserFinish(t) ==
    /\ "manual" \in Features
    /\ pc[t] = "run" /\ exc[t] = "none" /\ ctx[t] # Client
    /\ \/ /\ final[ctx[t]] = "open"
          /\ \/ Goto(t, "usercommit") /\ Submit(t, ctx[t], "commit")
             \/ Goto(t, "userrollback") /\ Submit(t, ctx[t], "rollback")
          /\ UNCHANGED exc
       \/ /\ final[ctx[t]] # "open"    \* Transaction already finalised
          /\ Raise(t, "tme")
          /\ UNCHANGED <<pc, queue>>
    /\ UNCHANGED <<depth, ctx, call, block, final, lockVars, conn, dbVars, cancelled>>

UserFinishDone(t) ==
    /\ \/ Answered(t, "usercommit") /\ Finalise(ctx[t], "committed")
       \/ Answered(t, "userrollback") /\ Finalise(ctx[t], "rolledback")
    /\ Perform(Head(queue))
    /\ queue' = Tail(queue)
    /\ Goto(t, "run")
    /\ UNCHANGED <<depth, exc, ctx, call, block, lockVars, cancelled>>

-----------------------------------------------------------------------------
(* The code that uses the ORM (external) *)

\* An exception is raised in a block: the code's own, or one that a
\* transaction on another connection raised.
Throw(t) ==
    /\ InFrame(t) /\ exc[t] = "none"
    /\ \/ Raise(t, "err")
       \/ "tme" \in Faults /\ Raise(t, "tme")
    /\ UNCHANGED <<pc, depth, ctx, call, block, final, lockVars, conn, queue,
                   dbVars, cancelled>>

Catch(t) ==
    /\ pc[t] = "run" /\ exc[t] # "none"
    /\ Raise(t, "none")
    /\ UNCHANGED <<pc, depth, ctx, call, block, final, lockVars, conn, queue,
                   dbVars, cancelled>>

\* asyncio.create_task: the child runs in a copy of the context.
Spawn(t, c) ==
    /\ "spawn" \in Features
    /\ pc[t] = "run" /\ exc[t] = "none"
    /\ pc[c] = "idle"
    /\ Goto(c, "run")
    /\ ctx' = [ctx EXCEPT ![c] = ctx[t]]
    /\ UNCHANGED <<depth, exc, call, block, final, lockVars, conn, queue, dbVars,
                   cancelled>>

Finish(t) ==
    /\ pc[t] = "run" /\ depth[t] = 0
    /\ Goto(t, "done")
    /\ UNCHANGED <<depth, exc, ctx, call, block, final, lockVars, conn, queue,
                   dbVars, cancelled>>

-----------------------------------------------------------------------------
(* Faults *)

\* Exception e ends the await that t is suspended in.  Statement locks are
\* given back; an exception in __aenter__, or in the commit or rollback of the
\* outer __aexit__, skips connections.reset() and lock.release().
Abort(t, e) ==
    LET broken == pc[t] \in Entering \/ (pc[t] \in Leaving /\ OuterFrame(t))
    IN /\ Goto(t, "run") /\ Raise(t, e)
       /\ call' = [call EXCEPT ![t] = NoCall]
       /\ block' = IF broken THEN [block EXCEPT ![t] = "failed"] ELSE block
       /\ depth' = [depth EXCEPT ![t] =
                      IF broken THEN 0 ELSE IF pc[t] \in Leaving THEN @ - 1 ELSE @]
       /\ IF pc[t] \in InCall \ {"callconnect", "callpragmas"}
            THEN FreeTarget(t) ELSE UNCHANGED lockVars
       /\ UNCHANGED <<ctx, final>>

\* A request of t fails; start() turns the error into
\* TransactionManagementError.
RequestFails(t) ==
    /\ Answered(t, pc[t]) /\ pc[t] # "bulkrows"
    /\ Fail(Head(queue))
    /\ queue' = Tail(queue)
    /\ Abort(t, IF pc[t] \in {"cleaning", "beginning"} THEN "tme" ELSE "err")
    /\ UNCHANGED cancelled

\* _connect() fails: _connection keeps an object whose thread has stopped.
ConnectFails(t) ==
    /\ "connect" \in Faults
    /\ pc[t] \in {"connecting", "callconnect"}
    /\ conn' = "dead"
    /\ Abort(t, "err")
    /\ UNCHANGED <<queue, dbVars, cancelled>>

\* task.cancel() while it is suspended.  Its request stays in the queue.
Cancel(t) ==
    /\ "cancel" \in Faults
    /\ t \notin cancelled /\ pc[t] \notin {"idle", "run", "done"}
    /\ cancelled' = cancelled \cup {t}
    /\ queue' = [i \in DOMAIN queue |->
                   IF queue[i].by = t THEN [queue[i] EXCEPT !.live = FALSE]
                                      ELSE queue[i]]
    /\ conn' = IF pc[t] \in {"connecting", "callconnect"} THEN "dead" ELSE conn
    /\ Abort(t, "err")
    /\ UNCHANGED dbVars

\* The worker executes a request whose task no longer waits.
OrphanDone ==
    /\ queue # <<>> /\ ~Head(queue).live
    /\ queue' = Tail(queue)
    /\ \/ Perform(Head(queue))
       \/ Fail(Head(queue))
    /\ UNCHANGED <<taskVars, final, lockVars>>

-----------------------------------------------------------------------------

Init ==
    /\ pc = [t \in Tasks |-> IF t \in Roots THEN "run" ELSE "idle"]
    /\ depth = [t \in Tasks |-> 0]
    /\ exc = [t \in Tasks |-> "none"]
    /\ ctx = [t \in Tasks |-> Client]
    /\ call = [t \in Tasks |-> NoCall]
    /\ block = [t \in Tasks |-> "none"]
    /\ final = [t \in Tasks |-> "open"]
    /\ lock = NoTask
    /\ wlock = [t \in Tasks |-> NoTask]
    /\ conn = IF Cold THEN "none" ELSE "ready"
    /\ queue = <<>>
    /\ dbtx = NoTask
    /\ dirty = {} /\ durable = {} /\ lost = {}
    /\ cancelled = {}

Enter(t) == EnterBlock(t) \/ EnterNested(t) \/ Connected(t) \/ PragmaNext(t)
              \/ PragmasDone(t) \/ AcquireBlock(t) \/ AcquireRefused(t) \/ CleanDone(t) \/ BeginDone(t)

Statement(t) == Call(t) \/ CallSubmit(t) \/ CallConnect(t) \/ CallRefused(t)
                  \/ CallPragmasDone(t) \/ StmtDone(t) \/ BulkBegun(t)
                  \/ BulkInserted(t) \/ BulkFailed(t) \/ BulkEnded(t)

Exit(t) == ExitNested(t) \/ ExitRollback(t) \/ ExitCommit(t) \/ ExitAsIs(t)
             \/ ExitDone(t) \/ UserFinish(t) \/ UserFinishDone(t)

User(t) == Throw(t) \/ Catch(t) \/ Finish(t) \/ \E c \in Tasks : Spawn(t, c)

Fault(t) == RequestFails(t) \/ ConnectFails(t) \/ Cancel(t)

Terminating ==
    /\ \A t \in Tasks : pc[t] \in {"idle", "done"}
    /\ queue = <<>>
    /\ UNCHANGED vars

Next == \/ \E t \in Tasks : Enter(t) \/ Statement(t) \/ Exit(t) \/ User(t) \/ Fault(t)
        \/ OrphanDone
        \/ Terminating

Spec == Init /\ [][Next]_vars

\* The steps of t that the event loop or the worker thread bring about.
Progress(t) == pc[t] # "run" /\ (Enter(t) \/ Statement(t) \/ ExitDone(t) \/ UserFinishDone(t))

\* The code of t leaves the frame it is in, or returns.
End(t) == ExitNested(t) \/ ExitRollback(t) \/ ExitCommit(t) \/ ExitAsIs(t) \/ Finish(t)

\* The event loop and the worker thread go on; asyncio.Lock serves its waiters
\* in order; the code in a block comes to its end.
Fairness ==
    /\ WF_vars(OrphanDone)
    /\ \A t \in Tasks :
         /\ WF_vars(Progress(t))
         /\ SF_vars(AcquireBlock(t)) /\ SF_vars(CallSubmit(t))
         /\ SF_vars(End(t))

FairSpec == Spec /\ Fairness

-----------------------------------------------------------------------------
(* Properties *)

TaskTypes ==
    /\ pc \in [Tasks -> PCs]
    /\ depth \in [Tasks -> 0..MaxDepth]
    /\ exc \in [Tasks -> {"none", "err", "tme"}]
    /\ ctx \in [Tasks -> Targets]
    /\ call \in [Tasks -> Calls]
    /\ block \in [Tasks -> {"none", "entering", "open", "ok", "error", "failed"}]
    /\ final \in [Tasks -> {"open", "committed", "rolledback"}]
    /\ cancelled \subseteq Tasks

LockTypes ==
    /\ lock \in Tasks \cup {NoTask}
    /\ wlock \in [Tasks -> Tasks \cup {NoTask}]

StoreTypes ==
    /\ conn \in {"none", "opening", "dead", "up", "ready"}
    /\ dbtx \in Tasks \cup {NoTask}
    /\ dirty \subseteq Rows /\ durable \subseteq Rows /\ lost \subseteq Rows

\* The type invariant; a task in the exit of a block is inside of one.
TypeOK ==
    /\ TaskTypes
    /\ LockTypes
    /\ StoreTypes
    /\ queue \in Seq(Requests)
    /\ \A t \in Tasks : pc[t] \in Leaving => depth[t] > 0

\* What the code does under SqliteClient._lock.
UnderLock(t) ==
    \/ block[t] = "open"
    \/ pc[t] \in {"cleaning", "beginning"}
    \/ pc[t] \in InCall /\ call[t].on = Client

\* The tasks that start a transaction, are inside of one, or run a statement on
\* the client itself exclude each other, whatever fails or is cancelled.
LockExclusion ==
    \A t \in Tasks : UnderLock(t) => lock = t

\* A wrapper's own lock serialises the statements of the tasks that share the
\* wrapper, and whatever fails or is cancelled, the statement that took it gives
\* it back.
WrapperLockHeld ==
    \A t, w \in Tasks :
        pc[t] \in InCall /\ call[t].on = w  <=>  wlock[w] = t

\* The lock is free only when no transaction is open in the database: the
\* commit() in start() never commits what somebody else left behind.
IdleConnectionClean ==
    lock = NoTask => dbtx = NoTask /\ dirty = {}

\* Whose transaction a row belongs to: the wrapper's, or the one that
\* SqliteClient.execute_many opened.
RowOf(row, t) == row.via = t \/ (row.via = Client /\ row.by = t)

\* The open database transaction holds only rows of the task that began it.
TransactionIsolated ==
    \A row \in dirty : RowOf(row, dbtx)

\* Rows a block wrote before its wrapper was final.
Early(w, rows) == {row \in rows : row.via = w /\ ~row.late}

\* A block's rows share one fate, the one its wrapper reports: all durable when
\* commit() finalised it, none when rollback() did.
BlockAtomic ==
    \A w \in Tasks :
        /\ final[w] = "committed"  => Early(w, dirty \cup lost) = {}
        /\ final[w] = "rolledback" => Early(w, dirty \cup durable) = {}
        /\ final[w] = "open" => Early(w, durable) = {}

\* A task that asked for a transaction gets the lock, and a statement is served.
WaitersServed ==
    \A t \in Tasks :
        /\ pc[t] = "locking" ~> lock = t
        /\ pc[t] = "waiting" ~> pc[t] # "waiting"

\* in_transaction runs the block "into one transaction": when an error leaves it
\* and nobody called commit(), no row of it is durable.
BlockErrorRollsBack ==
    \A w \in Tasks :
        block[w] = "error" /\ final[w] # "committed" =>
            \A row \in durable : row.via # w

\* "Safe concurrent access": the client's lock is not left to a task that is over.
LockHolderAlive ==
    lock # NoTask => pc[lock] # "done"

\* The client as a store of atomic transactions.
Store1 == INSTANCE AtomicStore WITH
    Owners <- Tasks, Nobody <- NoTask, Row <- Rows, Belongs <- RowOf,
    active <- dbtx, staged <- dirty
StoreSpec == Store1!Spec

=============================================================================
