------------------------- MODULE SqliteAtomicityProofs -------------------------
(***************************************************************************)
(* Theorems about the wrappers of SqliteTransactions and about what it     *)
(* leaves in the database: the wrappers' own locks, whose rows a           *)
(* transaction holds, blocks that are all or nothing, and the refinement   *)
(* of AtomicStore; for every set of tasks.                                 *)
(***************************************************************************)
EXTENDS SqliteTransactionsProofs

Step(t) == Enter(t) \/ Statement(t) \/ Exit(t) \/ User(t) \/ Fault(t)

-----------------------------------------------------------------------------
(* The locks of the wrappers *)

\* t runs a statement on wrapper w.
On(t, w) == pc[t] \in InCall /\ call[t].on = w

\* Only a statement on the client opens the connection: who has a wrapper opened it
\* before, so that no exception of create_connection() finds a wrapper's lock taken.
Opened ==
    /\ \A t \in Tasks : pc[t] \in {"callconnect", "callpragmas"} => call[t].on = Client
    /\ conn = "none" =>
          \A t \in Tasks : pc[t] \notin Entering /\ ctx[t] = Client /\ call[t].on = Client

WrapperInv == WrapperLockHeld /\ Opened

\* What an action of task t has to show about the wrappers' locks.
LEMMA WrapperStep ==
    ASSUME TypeOK, WrapperInv, NEW t \in Tasks,
           \A u \in Tasks \ {t} : pc'[u] = pc[u] /\ ctx'[u] = ctx[u] /\ call'[u] = call[u],
           pc'[t] \in {"callconnect", "callpragmas"} => call'[t].on = Client,
           conn' = "none" => /\ conn = "none" /\ pc'[t] \notin Entering
                             /\ ctx'[t] = Client /\ call'[t].on = Client,
           \/ UNCHANGED wlock /\ \A w \in Tasks : On(t, w)' <=> On(t, w)
           \/ /\ pc[t] \notin InCall /\ pc'[t] \in InCall /\ call'[t].on \in Tasks
              /\ wlock[call'[t].on] = NoTask
              /\ wlock' = [wlock EXCEPT ![call'[t].on] = t]
           \/ /\ pc[t] \in InCall /\ pc'[t] \notin InCall /\ call[t].on \in Tasks
              /\ wlock' = [wlock EXCEPT ![call[t].on] = NoTask]
    PROVE  WrapperInv'
<1> USE SqliteAssumption DEF WrapperInv, TypeOK, LockTypes
<1>1. Opened'
  BY DEF Opened
<1>2. ASSUME NEW u \in Tasks \ {t}, NEW w \in Tasks
      PROVE  On(u, w)' <=> wlock'[w] = u
  BY DEF WrapperLockHeld, On
<1>3. ASSUME NEW w \in Tasks
      PROVE  On(t, w)' <=> wlock'[w] = t
  BY DEF WrapperLockHeld, On
<1> QED BY <1>1, <1>2, <1>3 DEF WrapperLockHeld, On

\* A request closes no connection.
LEMMA PerformConn ==
    ASSUME NEW r, Perform(r) \/ Fail(r)
    PROVE  conn' \in {conn, "ready"}
BY DEF Perform, Fail, dbVars

LEMMA WrapperEnter ==
    ASSUME TypeOK, WrapperInv, NEW t \in Tasks, Enter(t)
    PROVE  WrapperInv'
<1> USE WrapperStep DEF Goto, Raise, EndCall, Entering, InCall, On, WrapperInv, Opened,
        TypeOK, TaskTypes, StoreTypes, lockVars
<1>1. CASE EnterBlock(t)
  BY <1>1 DEF EnterBlock
<1>2. CASE EnterNested(t)
  BY <1>2 DEF EnterNested
<1>3. CASE Connected(t)
  BY <1>3 DEF Connected
<1>4. CASE PragmaNext(t)
  BY <1>4, PerformConn DEF PragmaNext
<1>5. CASE PragmasDone(t)
  BY <1>5, PerformConn DEF PragmasDone, Answered
<1>6. CASE AcquireBlock(t)
  BY <1>6 DEF AcquireBlock
<1>7. CASE CleanDone(t)
  BY <1>7, PerformConn DEF CleanDone, Answered
<1>8. CASE BeginDone(t)
  BY <1>8, PerformConn DEF BeginDone, Answered
<1>9. CASE AcquireRefused(t)
  BY <1>9 DEF AcquireRefused
<1> QED BY <1>1, <1>2, <1>3, <1>4, <1>5, <1>6, <1>7, <1>8, <1>9 DEF Enter

\* A step of t that neither starts nor ends a statement of its own.
LEMMA WrapperQuiet ==
    ASSUME TypeOK, WrapperInv, NEW t \in Tasks, UNCHANGED <<call, wlock>>,
           NEW p, pc' = pc \/ pc' = [pc EXCEPT ![t] = p], pc[t] \in InCall <=> p \in InCall,
           p \notin Entering \cup {"callconnect", "callpragmas"},
           ctx' = ctx \/ ctx' = [ctx EXCEPT ![t] = Client], conn' \in {conn, "ready"}
    PROVE  WrapperInv'
<1>1. /\ \A u \in Tasks \ {t} : pc'[u] = pc[u] /\ ctx'[u] = ctx[u]
      /\ pc'[t] \in {p, pc[t]} /\ ctx'[t] \in {ctx[t], Client}
  BY DEF TypeOK, TaskTypes
<1> QED BY <1>1, WrapperStep DEF On, WrapperInv, Opened

\* A statement gives the lock of its target back.
LEMMA WrapperEnd ==
    ASSUME TypeOK, WrapperInv, NEW t \in Tasks, pc[t] \in InCall, FreeTarget(t), EndCall(t),
           UNCHANGED ctx, conn' \in {conn, "ready"}
    PROVE  WrapperInv'
<1>1. /\ \A u \in Tasks \ {t} : pc'[u] = pc[u] /\ call'[u] = call[u]
      /\ pc'[t] = "run" /\ call'[t].on = Client /\ call[t].on \in Targets
  BY DEF TypeOK, TaskTypes, EndCall, Goto, NoCall, Calls
<1>2. CASE call[t].on = Client
  BY <1>1, <1>2, SqliteAssumption, WrapperStep
     DEF FreeTarget, On, WrapperInv, Opened, Entering, InCall
<1>3. CASE call[t].on # Client
  BY <1>1, <1>3, WrapperStep
     DEF FreeTarget, On, WrapperInv, Opened, Entering, InCall, Targets
<1> QED BY <1>2, <1>3

\* A statement takes the lock of its target, and gives it back.
LEMMA WrapperStatement ==
    ASSUME TypeOK, WrapperInv, NEW t \in Tasks, Statement(t)
    PROVE  WrapperInv'
<1> USE SqliteAssumption, PerformConn DEF Goto, Entering, InCall, TypeOK, TaskTypes
<1>1. CASE Call(t)
  <2>1. PICK on \in {ctx[t], Client}, many \in BOOLEAN :
               call' = [call EXCEPT ![t] = [on |-> on, many |-> many]]
    BY <1>1 DEF Call
  <2> QED BY <1>1, <2>1, WrapperStep DEF Call, On, WrapperInv, Opened, lockVars
<1>2. CASE CallSubmit(t) \/ CallConnect(t)
  <2>1. /\ pc[t] = "waiting" /\ TargetFree(t) /\ TakeTarget(t) /\ UNCHANGED <<call, ctx>>
        /\ \A u \in Tasks \ {t} : pc'[u] = pc[u]
        /\ pc'[t] \in {"stmt", "bulkbegin", "callconnect"} /\ call[t].on \in Targets
        /\ pc'[t] = "callconnect" => conn = "none"
        /\ conn' # "none"
    BY <1>2 DEF CallSubmit, CallConnect, FirstPc, Usable, Calls
  <2>2. CASE call[t].on = Client
    BY <2>1, <2>2, WrapperStep DEF TakeTarget, On, WrapperInv, Opened
  <2>3. CASE call[t].on # Client
    BY <2>1, <2>3, WrapperStep
       DEF TakeTarget, TargetFree, On, WrapperInv, Opened, Targets
  <2> QED BY <2>2, <2>3
<1>3. CASE CallRefused(t)
  BY <1>3, WrapperStep
     DEF CallRefused, EndCall, NoCall, On, WrapperInv, Opened, lockVars
<1>4. CASE CallPragmasDone(t) \/ BulkBegun(t) \/ BulkInserted(t) \/ BulkFailed(t)
  <2>1. /\ pc[t] \in InCall
        /\ \E p \in {"stmt", "bulkbegin", "bulkrows", "bulkcommit", "bulkrollback"} :
              pc' = [pc EXCEPT ![t] = p]
        /\ UNCHANGED <<ctx, call, wlock>> /\ conn' \in {conn, "ready"}
    BY <1>4 DEF CallPragmasDone, BulkBegun, BulkInserted, BulkFailed, Answered, FirstPc, lockVars
  <2> QED BY <2>1, WrapperQuiet
<1>5. CASE StmtDone(t) \/ BulkEnded(t)
  <2>1. /\ pc[t] \in InCall /\ FreeTarget(t) /\ EndCall(t)
        /\ UNCHANGED ctx /\ conn' \in {conn, "ready"}
    BY <1>5 DEF StmtDone, BulkEnded, Answered
  <2> QED BY <2>1, WrapperEnd
<1> QED BY <1>1, <1>2, <1>3, <1>4, <1>5 DEF Statement

\* The end of a block leaves the wrappers' locks alone.
LEMMA WrapperExit ==
    ASSUME TypeOK, WrapperInv, NEW t \in Tasks, Exit(t)
    PROVE  WrapperInv'
<1>1. /\ pc[t] \notin InCall /\ UNCHANGED <<call, wlock>>
      /\ pc' = pc \/ \E p \in Leaving \cup Manual \cup {"run"} : pc' = [pc EXCEPT ![t] = p]
      /\ ctx' = ctx \/ ctx' = [ctx EXCEPT ![t] = Client]
      /\ conn' \in {conn, "ready"}
  <2> USE PerformConn DEF Goto, InFrame, LeaveBlock, lockVars, Answered, InCall, Leaving, Manual
  <2>1. CASE ExitNested(t) \/ ExitRollback(t) \/ ExitCommit(t)
    BY <2>1 DEF ExitNested, ExitRollback, ExitCommit
  <2>2. CASE ExitAsIs(t)
    BY <2>2 DEF ExitAsIs
  <2>3. CASE ExitDone(t)
    BY <2>3 DEF ExitDone
  <2>4. CASE UserFinish(t)
    BY <2>4 DEF UserFinish
  <2>5. CASE UserFinishDone(t)
    BY <2>5 DEF UserFinishDone
  <2> QED BY <2>1, <2>2, <2>3, <2>4, <2>5 DEF Exit
<1>2. CASE pc' = pc
  BY <1>1, <1>2, WrapperQuiet DEF InCall, Entering
<1>3. CASE \E p \in Leaving \cup Manual \cup {"run"} : pc' = [pc EXCEPT ![t] = p]
  BY <1>1, <1>3, WrapperQuiet DEF InCall, Entering, Leaving, Manual
<1> QED BY <1>1, <1>2, <1>3

LEMMA WrapperUser ==
    ASSUME TypeOK, WrapperInv, NEW t \in Tasks, User(t)
    PROVE  WrapperInv'
<1> USE WrapperStep
        DEF Goto, Raise, Entering, InCall, On, WrapperInv, Opened,
            TypeOK, TaskTypes, StoreTypes, lockVars
<1>1. CASE Throw(t)
  BY <1>1 DEF Throw, InFrame
<1>2. CASE Catch(t)
  BY <1>2 DEF Catch
<1>3. CASE Finish(t)
  BY <1>3 DEF Finish
<1>4. ASSUME NEW c \in Tasks, Spawn(t, c)
      PROVE  WrapperInv'
  BY <1>4 DEF Spawn
<1> QED BY <1>1, <1>2, <1>3, <1>4 DEF User

\* Whatever ends a statement gives the lock back.
LEMMA WrapperFault ==
    ASSUME TypeOK, WrapperInv, NEW t \in Tasks, Fault(t)
    PROVE  WrapperInv'
<1> USE SqliteAssumption, PerformConn
        DEF Goto, NoCall, Entering, InCall, On, WrapperInv, Opened,
            TypeOK, TaskTypes, StoreTypes, LockTypes, lockVars, Targets, Calls
<1>1. PICK e : Abort(t, e)
  BY DEF Fault, RequestFails, ConnectFails, Cancel
<1>2. conn' = "none" => conn = "none"
  BY DEF Fault, RequestFails, ConnectFails, Cancel
<1>3. \/ UNCHANGED wlock /\ \A w \in Tasks : On(t, w)' <=> On(t, w)
      \/ /\ pc[t] \in InCall /\ pc'[t] \notin InCall /\ call[t].on \in Tasks
         /\ wlock' = [wlock EXCEPT ![call[t].on] = NoTask]
  BY <1>1 DEF Abort, FreeTarget
<1> QED BY <1>1, <1>2, <1>3, WrapperStep DEF Abort

\* WrapperLockHeld: whatever fails or is cancelled, the tasks that share a wrapper run
\* one statement at a time on it, and the statement that took the wrapper's lock gives
\* it back.
THEOREM WrapperSerialises == Spec => []WrapperLockHeld
<1>1. Init => WrapperInv
  BY SqliteAssumption
     DEF Init, WrapperInv, WrapperLockHeld, Opened, Entering, InCall, NoCall
<1>2. TypeOK /\ WrapperInv /\ [Next]_vars => WrapperInv'
  <2> SUFFICES ASSUME TypeOK, WrapperInv, [Next]_vars
               PROVE  WrapperInv'
    OBVIOUS
  <2>1. ASSUME NEW t \in Tasks, Step(t)
        PROVE  WrapperInv'
    BY <2>1, WrapperEnter, WrapperStatement, WrapperExit, WrapperUser, WrapperFault DEF Step
  <2>2. CASE OrphanDone
    BY <2>2, PerformConn
       DEF OrphanDone, taskVars, lockVars, WrapperInv, WrapperLockHeld, Opened
  <2>3. CASE Terminating \/ UNCHANGED vars
    BY <2>3 DEF Terminating, vars, WrapperInv, WrapperLockHeld, Opened
  <2> QED BY <2>1, <2>2, <2>3 DEF Next, Step
<1>3. WrapperInv => WrapperLockHeld
  BY DEF WrapperInv
<1> QED BY <1>1, <1>2, <1>3, TypeCorrect, PTL DEF Spec

-----------------------------------------------------------------------------
(* Where the requests of a statement go *)

\* The rows of a statement are written on behalf of its target.
Aimed(r) == pc[r.by] \in {"stmt", "bulkrows"} => r.on = call[r.by].on

AimInv == \A i \in 1..Len(queue) : Aimed(queue[i])

\* The four things a step of task t does to the queue.
Queues(t, on, op) ==
    \/ pc[t] \in NoRequest /\ queue' = queue
    \/ pc[t] \in NoRequest /\ Submit(t, on, op)
    \/ Answered(t, pc[t]) /\ queue' = Tail(queue)
    \/ Answered(t, pc[t]) /\ SubmitNext(t, on, op)

LEMMA AimStep ==
    ASSUME TypeOK, QueueInv, AimInv, NEW t \in Tasks,
           \A u \in Tasks \ {t} : pc'[u] = pc[u] /\ call'[u] = call[u],
           NEW on \in Targets, NEW op \in Ops, Queues(t, on, op),
           pc'[t] \in {"stmt", "bulkrows"} => on = call'[t].on
    PROVE  AimInv'
<1>1. \A i \in 1..Len(queue) : queue[i].by \in Tasks
  BY RequestOwners DEF TypeOK
<1>2. \A i \in 1..Len(queue) :
         queue[i].by # t /\ pc'[queue[i].by] \in {"stmt", "bulkrows"} =>
             queue[i].on = call'[queue[i].by].on
  BY <1>1 DEF AimInv, Aimed
<1>3. Request(t, on, op).by = t /\ Request(t, on, op).on = on
  BY DEF Request
<1>4. \A i \in 1..Len(queue') :
         \/ queue'[i] = Request(t, on, op)
         \/ \E j \in 1..Len(queue) : queue'[i] = queue[j] /\ queue[j].by # t
  <2>1. Len(queue) \in Nat /\ Request(t, on, op) \in Requests
    BY DEF TypeOK, Request, Requests
  <2>2. CASE pc[t] \in NoRequest
    <3>1. \A i \in 1..Len(queue) : queue[i].by # t
      BY <2>2 DEF QueueInv, Awaits, NoRequest
    <3>2. CASE queue' = queue
      BY <3>1, <3>2
    <3>3. CASE Submit(t, on, op)
      <4>1. /\ \A i \in 1..Len(queue) : queue'[i] = queue[i]
            /\ queue'[Len(queue) + 1] = Request(t, on, op)
            /\ Len(queue') = Len(queue) + 1
        BY <2>1, <3>3 DEF Submit, TypeOK
      <4>2. \A i \in 1..Len(queue') : i \in 1..Len(queue) \/ i = Len(queue) + 1
        BY <2>1, <4>1
      <4> QED BY <3>1, <4>1, <4>2
    <3>4. \A p : Answered(t, p) => p = pc[t] /\ Awaits(p, Head(queue).op)
      BY HeadAwaited DEF Answered
    <3> QED BY <2>2, <3>2, <3>3, <3>4 DEF Queues, Awaits, NoRequest
  <2>3. CASE Answered(t, pc[t])
    <3>1. Len(queue) \in Nat \ {0} /\ Head(queue) = queue[1]
      BY <2>3 DEF TypeOK, Answered
    <3>2. \A i \in 2..Len(queue) : queue[i].by # t
      BY <2>3, <3>1 DEF QueueInv, Answered
    <3>3. Tail(queue) \in Seq(Requests)
      BY <2>3, HeadIsRequest DEF TypeOK, Answered
    <3>4. /\ Len(Tail(queue)) = Len(queue) - 1
          /\ \A i \in 1..(Len(queue) - 1) :
                Tail(queue)[i] = queue[i + 1] /\ i + 1 \in 2..Len(queue)
      BY <3>1 DEF TypeOK
    <3>5. CASE queue' = Tail(queue)
      BY <3>1, <3>2, <3>4, <3>5
    <3>6. CASE SubmitNext(t, on, op)
      <4>1. /\ \A i \in 1..(Len(queue) - 1) : queue'[i] = queue[i + 1] /\ i + 1 \in 2..Len(queue)
            /\ queue'[Len(queue)] = Request(t, on, op)
            /\ Len(queue') = Len(queue)
        BY <2>1, <3>1, <3>3, <3>4, <3>6 DEF SubmitNext
      <4>2. \A i \in 1..Len(queue') : i \in 1..(Len(queue) - 1) \/ i = Len(queue)
        BY <3>1, <4>1
      <4> QED BY <3>1, <3>2, <4>1, <4>2
    <3>7. pc[t] \notin NoRequest
      BY <2>3, HeadAwaited DEF Awaits, NoRequest
    <3> QED BY <3>5, <3>6, <3>7 DEF Queues
  <2> QED BY <2>2, <2>3 DEF Queues
<1> QED BY <1>2, <1>3, <1>4 DEF AimInv, Aimed

LEMMA AimSteps ==
    ASSUME TypeOK, QueueInv, BlockInv, AimInv, Orderly, NEW t \in Tasks, Step(t)
    PROVE  AimInv'
<1> USE DEF Goto, EndCall, TypeOK, TaskTypes, Targets, Ops, NoRequest, Queues, Answered
\* A step that submits nothing, or nothing that writes
<1>1. ASSUME \A u \in Tasks \ {t} : pc'[u] = pc[u] /\ call'[u] = call[u],
             \E on \in Targets, op \in Ops : Queues(t, on, op),
             pc'[t] \notin {"stmt", "bulkrows"}
      PROVE  AimInv'
  BY <1>1, AimStep
<1>2. CASE Enter(t)
  <2>1. CASE EnterBlock(t) \/ EnterNested(t) \/ AcquireRefused(t)
    BY <1>1, <2>1 DEF EnterBlock, EnterNested, AcquireRefused
  <2>2. CASE Connected(t) \/ AcquireBlock(t)
    BY <1>1, <2>2 DEF Connected, AcquireBlock
  <2>3. CASE PragmaNext(t) \/ CleanDone(t)
    BY <1>1, <2>3 DEF PragmaNext, CleanDone
  <2>4. CASE PragmasDone(t) \/ BeginDone(t)
    BY <1>1, <2>4 DEF PragmasDone, BeginDone
  <2> QED BY <1>2, <2>1, <2>2, <2>3, <2>4 DEF Enter
<1>3. CASE Statement(t)
  <2>1. CASE Call(t) \/ CallConnect(t) \/ CallRefused(t)
    BY <1>1, <2>1 DEF Call, CallConnect, CallRefused
  <2>2. CASE CallSubmit(t)
    BY <2>2, AimStep DEF CallSubmit, FirstOp, Calls
  <2>3. CASE CallPragmasDone(t)
    BY <2>3, AimStep DEF CallPragmasDone, FirstOp, Calls
  <2>4. CASE StmtDone(t) \/ BulkEnded(t)
    BY <1>1, <2>4 DEF StmtDone, BulkEnded
  <2>5. CASE BulkBegun(t)
    BY <2>5, AimStep DEF BulkBegun, BlockInv, BlockOf, BulkPcs
  <2>6. CASE BulkInserted(t) \/ BulkFailed(t)
    BY <1>1, <2>6 DEF BulkInserted, BulkFailed
  <2> QED BY <1>3, <2>1, <2>2, <2>3, <2>4, <2>5, <2>6 DEF Statement
<1>4. CASE Exit(t)
  <2>1. CASE ExitNested(t) \/ ExitAsIs(t)
    BY <1>1, <2>1 DEF ExitNested, ExitAsIs, InFrame, LeaveBlock
  <2>2. CASE ExitRollback(t) \/ ExitCommit(t)
    BY <1>1, <2>2 DEF ExitRollback, ExitCommit, InFrame
  <2>3. CASE ExitDone(t) \/ UserFinishDone(t)
    BY <1>1, <2>3 DEF ExitDone, UserFinishDone, LeaveBlock
  <2>4. CASE UserFinish(t)
    BY <1>1, <2>4 DEF UserFinish
  <2> QED BY <1>4, <2>1, <2>2, <2>3, <2>4 DEF Exit
<1>5. CASE User(t)
  <2>1. CASE Throw(t) \/ Catch(t) \/ Finish(t)
    BY <1>1, <2>1 DEF Throw, Catch, Finish, InFrame
  <2>2. ASSUME NEW c \in Tasks, Spawn(t, c)
        PROVE  AimInv'
    BY <2>2, AimStep DEF Spawn
  <2> QED BY <1>5, <2>1, <2>2 DEF User
<1>6. CASE Fault(t)
  <2>1. ~Cancel(t)
    BY DEF Cancel, Orderly
  <2>2. CASE RequestFails(t)
    BY <1>1, <2>2 DEF RequestFails, Abort
  <2>3. CASE ConnectFails(t)
    BY <1>1, <2>3 DEF ConnectFails, Abort
  <2> QED BY <1>6, <2>1, <2>2, <2>3 DEF Fault
<1> QED BY <1>2, <1>3, <1>4, <1>5, <1>6 DEF Step

-----------------------------------------------------------------------------
(* Who may use a wrapper *)

\* A task uses the client or its context's wrapper.  While a task that has a wrapper
\* for its context still runs, the wrapper's block is not over: its lock is held, and
\* the block's own task runs no statement on the client.
UseOf(t) ==
    /\ call[t].on \in {Client, ctx[t]}
    /\ pc[t] \notin {"waiting"} \cup InCall => call[t].on = Client
    /\ ctx[t] # Client /\ pc[t] # "done" =>
         /\ lock = ctx[t]
         /\ ~ClientCall(ctx[t])
         /\ \/ block[ctx[t]] \in {"open", "failed"}
            \/ ctx[t] = t /\ pc[t] \in {"cleaning", "beginning"}
    /\ pc[t] \in Leaving /\ OuterFrame(t) =>
         \A c \in Tasks \ {t} : ctx[c] = t => pc[c] = "done"
    /\ depth[t] > 0 => ctx[t] # Client \/ pc[t] \in Entering
    /\ pc[t] \in Leaving \cup Manual => ctx[t] # Client
    /\ pc[t] = "idle" => ctx[t] = Client

UseInv == \A t \in Tasks : UseOf(t)

\* What an action of task t has to show: it disturbs no task that uses its wrapper.
LEMMA UseStep ==
    ASSUME TypeOK, UseInv, NEW t \in Tasks, pc[t] # "done",
           \A u \in Tasks \ {t} :
               /\ pc'[u] = pc[u] /\ ctx'[u] = ctx[u] /\ call'[u] = call[u]
               /\ block'[u] = block[u] /\ depth'[u] = depth[u],
           \/ ctx'[t] \in {ctx[t], Client, t}
           \/ \E v \in Tasks \ {t} : pc[v] = "run" /\ ctx'[t] = ctx[v],
           \/ lock' = lock
           \/ lock = NoTask
           \/ lock = t /\ (ClientCall(t) \/ \A u \in Tasks \ {t} : ctx[u] = t => pc[u] = "done"),
           \/ block[t] \in {"open", "failed"} => block'[t] \in {"open", "failed"}
           \/ \A u \in Tasks \ {t} : ctx[u] = t => pc[u] = "done",
           ClientCall(t)' => ClientCall(t) \/ lock = NoTask,
           UseOf(t)'
    PROVE  UseInv'
<1> SUFFICES ASSUME NEW u \in Tasks \ {t}
             PROVE  UseOf(u)'
  BY DEF UseInv
<1> USE SqliteAssumption
<1>1. UseOf(u) /\ UseOf(t)
  BY DEF UseInv
<1>2. ctx[u] # Client /\ pc[u] # "done" =>
        /\ lock' = ctx[u]
        /\ ~ClientCall(ctx[u])'
        /\ \/ block'[ctx[u]] \in {"open", "failed"}
           \/ ctx[u] = u /\ pc[u] \in {"cleaning", "beginning"}
  <2> SUFFICES ASSUME ctx[u] # Client, pc[u] # "done"
               PROVE  /\ lock' = ctx[u]
                      /\ ~ClientCall(ctx[u])'
                      /\ \/ block'[ctx[u]] \in {"open", "failed"}
                         \/ ctx[u] = u /\ pc[u] \in {"cleaning", "beginning"}
    OBVIOUS
  <2>1. ctx[u] \in Tasks
    BY DEF TypeOK, TaskTypes, Targets
  <2>2. lock = ctx[u] /\ ~ClientCall(ctx[u])
    BY <1>1 DEF UseOf
  <2>3. lock # NoTask
    BY <2>1, <2>2
  <2>4. CASE ctx[u] = t
    BY <1>1, <2>2, <2>3, <2>4 DEF UseOf
  <2>5. CASE ctx[u] # t
    <3>1. ClientCall(ctx[u])' <=> ClientCall(ctx[u])
      BY <2>1, <2>5 DEF ClientCall
    <3>2. lock' = lock /\ block'[ctx[u]] = block[ctx[u]]
      BY <2>1, <2>2, <2>3, <2>5
    <3> QED BY <1>1, <2>2, <3>1, <3>2 DEF UseOf
  <2> QED BY <2>4, <2>5
<1>3. pc[u] \in Leaving /\ OuterFrame(u) =>
        \A c \in Tasks \ {u} : ctx'[c] = u => pc'[c] = "done"
  <2> SUFFICES ASSUME pc[u] \in Leaving, OuterFrame(u),
                      NEW c \in Tasks \ {u}, ctx'[c] = u
               PROVE  pc'[c] = "done"
    OBVIOUS
  <2>1. \A d \in Tasks \ {u} : ctx[d] = u => pc[d] = "done"
    BY <1>1 DEF UseOf
  <2>2. pc[u] # "run" /\ u # Client
    BY DEF Leaving
  <2>3. c # t
    BY <2>1, <2>2
  <2> QED BY <2>1, <2>3
<1> QED BY <1>1, <1>2, <1>3 DEF UseOf, OuterFrame, ClientCall

\* What the other proofs have established of a state.
Known == TypeOK /\ LockInv /\ QueueInv /\ BlockInv

LEMMA UseEnter ==
    ASSUME Known, UseInv, NEW t \in Tasks, Enter(t)
    PROVE  UseInv'
<1> USE SqliteAssumption, UseStep
        DEF Goto, Raise, Known, TypeOK, TaskTypes, UseOf, ClientCall, OuterFrame, Entering,
            InCall, Leaving, Manual, lockVars
<1>1. UseOf(t) /\ BlockOf(t)
  BY DEF UseInv, Known, BlockInv
<1>2. CASE EnterBlock(t)
  <2>1. /\ pc[t] = "run" /\ ctx[t] = Client /\ block[t] = "none"
        /\ \/ pc' = [pc EXCEPT ![t] = "connecting"]
           \/ pc' = [pc EXCEPT ![t] = "locking"]
        /\ block' = [block EXCEPT ![t] = "entering"]
        /\ depth' = [depth EXCEPT ![t] = 1] /\ UNCHANGED <<ctx, call, lock>>
    BY <1>2 DEF EnterBlock
  <2>2. pc'[t] \in {"connecting", "locking"} /\ ctx'[t] = Client /\ call'[t] = call[t]
    BY <2>1
  <2>3. call[t].on = Client
    BY <1>1, <2>1
  <2>4. UseOf(t)' /\ ~ClientCall(t)'
    BY <2>2, <2>3
  <2>5. ctx'[t] = ctx[t] /\ lock' = lock /\ block[t] \notin {"open", "failed"}
    BY <2>1
  <2>6. \A u \in Tasks \ {t} : /\ pc'[u] = pc[u] /\ ctx'[u] = ctx[u] /\ call'[u] = call[u]
                               /\ block'[u] = block[u] /\ depth'[u] = depth[u]
    BY <2>1
  <2> HIDE DEF UseOf, ClientCall
  <2> QED BY <2>1, <2>4, <2>5, <2>6
<1>3. CASE EnterNested(t)
  BY <1>1, <1>3 DEF EnterNested
<1>4. CASE Connected(t)
  BY <1>1, <1>4 DEF Connected
<1>5. CASE PragmaNext(t)
  BY <1>1, <1>5 DEF PragmaNext, Answered
<1>6. CASE PragmasDone(t)
  BY <1>1, <1>6 DEF PragmasDone, Answered
<1>7. CASE AcquireBlock(t) \/ AcquireRefused(t)
  <2>1. /\ pc[t] = "locking" /\ lock = NoTask /\ lock' = t
        /\ ctx' = [ctx EXCEPT ![t] = t] /\ UNCHANGED call
        /\ \/ pc' = [pc EXCEPT ![t] = "cleaning"] /\ UNCHANGED <<block, depth>>
           \/ /\ pc' = [pc EXCEPT ![t] = "run"] /\ block' = [block EXCEPT ![t] = "failed"]
              /\ depth' = [depth EXCEPT ![t] = 0]
    BY <1>7 DEF AcquireBlock, AcquireRefused
  <2>2. UseOf(t)' /\ ~ClientCall(t)'
    BY <1>1, <2>1
  <2>3. block[t] \in {"open", "failed"} => block'[t] \in {"open", "failed"}
    BY <2>1
  <2> HIDE DEF UseOf, ClientCall
  <2> QED BY <2>1, <2>2, <2>3
<1>8. CASE CleanDone(t)
  BY <1>1, <1>8 DEF CleanDone, Answered
<1>9. CASE BeginDone(t)
  BY <1>1, <1>9 DEF BeginDone, Answered, BlockOf
<1> QED BY <1>2, <1>3, <1>4, <1>5, <1>6, <1>7, <1>8, <1>9 DEF Enter

LEMMA UseStatement ==
    ASSUME Known, UseInv, NEW t \in Tasks, Statement(t)
    PROVE  UseInv'
<1> USE SqliteAssumption, UseStep
        DEF Goto, Raise, Known, TypeOK, TaskTypes, UseOf, ClientCall, OuterFrame, Entering,
            InCall, Leaving, Manual, lockVars, NoCall, EndCall
<1>1. UseOf(t) /\ BlockOf(t)
  BY DEF UseInv, Known, BlockInv
<1>2. CASE Call(t)
  BY <1>1, <1>2 DEF Call
<1>3. CASE CallSubmit(t) \/ CallConnect(t)
  <2>1. /\ pc[t] = "waiting" /\ UNCHANGED <<ctx, call, block, depth>>
        /\ \E p \in {"stmt", "bulkbegin", "callconnect"} : pc' = [pc EXCEPT ![t] = p]
        /\ \/ call[t].on = Client /\ lock = NoTask
           \/ call[t].on # Client /\ lock' = lock
    BY <1>3 DEF CallSubmit, CallConnect, FirstPc, TakeTarget, TargetFree
  <2>2. ctx[t] \in Tasks => lock # NoTask
    BY <1>1, <2>1
  <2>3. CASE call[t].on = Client
    <3>1. ctx[t] = Client /\ lock = NoTask
      BY <2>1, <2>2, <2>3 DEF Targets
    <3>2. UseOf(t)'
      BY <1>1, <2>1, <3>1
    <3> QED BY <2>1, <3>1, <3>2
  <2>4. CASE call[t].on # Client
    <3>1. ~ClientCall(t)' /\ \A u \in Tasks : ClientCall(u)' => ClientCall(u)
      BY <2>1, <2>4
    <3>2. UseOf(t)'
      <4> HIDE DEF ClientCall
      <4> QED BY <1>1, <2>1, <2>4, <3>1 DEF Targets
    <3> HIDE DEF UseOf, ClientCall
    <3> QED BY <2>1, <2>4, <3>1, <3>2
  <2> QED BY <2>3, <2>4
<1>4. CASE CallRefused(t)
  BY <1>1, <1>4 DEF CallRefused
<1>5. CASE CallPragmasDone(t)
  BY <1>1, <1>5 DEF CallPragmasDone, Answered, FirstPc
<1>6. CASE StmtDone(t) \/ BulkEnded(t)
  <2>1. /\ pc[t] \in InCall /\ UNCHANGED <<ctx, block, depth>>
        /\ pc' = [pc EXCEPT ![t] = "run"] /\ call' = [call EXCEPT ![t] = NoCall]
        /\ lock' = lock \/ ClientCall(t)
    BY <1>6 DEF StmtDone, BulkEnded, Answered, FreeTarget
  <2>2. ClientCall(t) => lock = t
    BY DEF LockInv, LockExclusion, UnderLock
  <2>3. ClientCall(t) => ctx[t] = Client
    BY <1>1, <2>1, <2>2
  <2>4. UseOf(t)'
    BY <1>1, <2>1, <2>3
  <2> QED BY <2>1, <2>2, <2>4
<1>7. CASE BulkBegun(t) \/ BulkInserted(t) \/ BulkFailed(t)
  <2>1. /\ pc[t] \in InCall /\ UNCHANGED <<ctx, call, block, depth, lock>>
        /\ \E p \in {"bulkrows", "bulkcommit", "bulkrollback"} : pc' = [pc EXCEPT ![t] = p]
    BY <1>7 DEF BulkBegun, BulkInserted, BulkFailed, Answered
  <2>2. UseOf(t)'
    BY <1>1, <2>1
  <2> QED BY <2>1, <2>2
<1> QED BY <1>2, <1>3, <1>4, <1>5, <1>6, <1>7 DEF Statement

\* A task leaves its block: nobody uses the wrapper any more.
LEMMA Left ==
    ASSUME Known, UseInv, NEW t \in Tasks, LeaveBlock(t), OuterFrame(t), UNCHANGED call,
           pc[t] \in Leaving \cup {"run"},
           \A u \in Tasks \ {t} : ctx[u] = t => pc[u] = "done"
    PROVE  UseInv'
<1>1. UseOf(t) /\ lock = t
  BY DEF UseInv, Known, LockInv, LockExclusion, UnderLock, OuterFrame
<1>2. /\ pc' = [pc EXCEPT ![t] = "run"] /\ ctx' = [ctx EXCEPT ![t] = Client]
      /\ depth' = [depth EXCEPT ![t] = 0]
      /\ \E b \in {"ok", "error"} : block' = [block EXCEPT ![t] = b]
  BY DEF LeaveBlock, Goto
<1>3. UseOf(t)'
  BY <1>1, <1>2
     DEF Known, TypeOK, TaskTypes, UseOf, ClientCall, InCall, Entering, Leaving, Manual
<1>4. ~ClientCall(t)'
  BY <1>2 DEF ClientCall, InCall, Known, TypeOK, TaskTypes
<1> QED BY <1>1, <1>2, <1>3, <1>4, UseStep DEF Known, TypeOK, TaskTypes, Leaving

LEMMA UseExit ==
    ASSUME Known, UseInv, Joined, NEW t \in Tasks, Exit(t)
    PROVE  UseInv'
<1> USE SqliteAssumption, UseStep
        DEF Goto, Raise, Known, TypeOK, TaskTypes, UseOf, ClientCall, OuterFrame, Entering,
            InCall, Leaving, Manual, lockVars, InFrame, ChildrenJoined, LeaveBlock
<1>1. UseOf(t) /\ BlockOf(t) /\ (OuterFrame(t) => lock = t)
  BY DEF UseInv, BlockInv, LockInv, LockExclusion, UnderLock
<1>2. CASE ExitNested(t)
  BY <1>1, <1>2 DEF ExitNested
<1>3. CASE ExitRollback(t)
  BY <1>1, <1>3 DEF ExitRollback
<1>4. CASE ExitCommit(t)
  BY <1>1, <1>4 DEF ExitCommit
<1>5. CASE ExitAsIs(t)
  <2>1. OuterFrame(t) /\ pc[t] = "run" /\ \A u \in Tasks \ {t} : ctx[u] = t => pc[u] = "done"
    BY <1>5 DEF ExitAsIs
  <2> QED BY <2>1, <1>5, Left DEF ExitAsIs
<1>6. CASE ExitDone(t)
  <2>1. pc[t] \in Leaving /\ UNCHANGED call
    BY <1>6 DEF ExitDone, Answered
  <2>2. CASE OuterFrame(t)
    <3>1. LeaveBlock(t)
      BY <1>6, <2>2 DEF ExitDone
    <3> QED BY <1>1, <2>1, <2>2, <3>1, Left
  <2>3. CASE ~OuterFrame(t)
    <3>1. /\ pc' = [pc EXCEPT ![t] = "run"] /\ UNCHANGED <<ctx, block, lock>>
          /\ depth' = [depth EXCEPT ![t] = @ - 1]
      BY <1>6, <2>3 DEF ExitDone
    <3>2. UseOf(t)'
      BY <1>1, <2>1, <3>1
    <3> QED BY <2>1, <3>1, <3>2
  <2> QED BY <2>2, <2>3
<1>7. CASE UserFinish(t)
  <2>1. /\ pc[t] = "run" /\ ctx[t] # Client /\ UNCHANGED <<ctx, call, block, depth, lock>>
        /\ pc' = pc \/ \E p \in Manual : pc' = [pc EXCEPT ![t] = p]
    BY <1>7 DEF UserFinish
  <2>2. \A u \in Tasks : ClientCall(u)' => ClientCall(u)
    BY <2>1
  <2>3. UseOf(t)'
    <3> HIDE DEF ClientCall
    <3> QED BY <1>1, <2>1, <2>2 DEF Targets
  <2> HIDE DEF UseOf, ClientCall
  <2> QED BY <2>1, <2>2, <2>3
<1>8. CASE UserFinishDone(t)
  BY <1>1, <1>8 DEF UserFinishDone, Answered
<1> QED BY <1>2, <1>3, <1>4, <1>5, <1>6, <1>7, <1>8 DEF Exit

LEMMA UseUser ==
    ASSUME Known, UseInv, NEW t \in Tasks, User(t)
    PROVE  UseInv'
<1> USE SqliteAssumption, UseStep
        DEF Goto, Raise, Known, TypeOK, TaskTypes, UseOf, ClientCall, OuterFrame, Entering,
            InCall, Leaving, Manual, lockVars, InFrame
<1>1. UseOf(t)
  BY DEF UseInv
<1>2. CASE Throw(t) \/ Catch(t) \/ Finish(t)
  <2>1. CASE Throw(t)
    BY <1>1, <2>1 DEF Throw
  <2>2. CASE Catch(t)
    BY <1>1, <2>2 DEF Catch
  <2>3. CASE Finish(t)
    BY <1>1, <2>3 DEF Finish
  <2> QED BY <1>2, <2>1, <2>2, <2>3
<1>3. ASSUME NEW c \in Tasks, Spawn(t, c)
      PROVE  UseInv'
  <2>1. UseOf(c) /\ BlockOf(c)
    BY DEF UseInv, BlockInv
  <2>2. /\ pc[t] = "run" /\ pc[c] = "idle" /\ pc' = [pc EXCEPT ![c] = "run"]
        /\ ctx' = [ctx EXCEPT ![c] = ctx[t]]
        /\ UNCHANGED <<depth, call, block, lock>>
    BY <1>3 DEF Spawn
  <2>3. UseOf(c)'
    BY <1>1, <2>1, <2>2 DEF BlockOf
  <2> QED BY <2>2, <2>3
<1> QED BY <1>2, <1>3 DEF User

LEMMA UseFault ==
    ASSUME Known, UseInv, Orderly, NEW t \in Tasks, Fault(t)
    PROVE  UseInv'
<1> USE SqliteAssumption DEF Known
<1>1. PICK e : Abort(t, e)
  BY DEF Fault, RequestFails, ConnectFails, Cancel
<1>2. pc[t] \notin {"idle", "run", "done"} \cup Leaving
  <2>1. ~Cancel(t)
    BY DEF Cancel, Orderly
  <2>2. RequestFails(t) => Awaits(pc[t], Head(queue).op) /\ Fail(Head(queue))
    BY HeadAwaited DEF RequestFails
  <2> QED BY <2>1, <2>2 DEF Fault, ConnectFails, Awaits, Fail, Orderly, Leaving
<1>3. UseOf(t) /\ BlockOf(t) /\ (ClientCall(t) => lock = t)
  BY DEF UseInv, BlockInv, LockInv, LockExclusion, UnderLock, ClientCall
<1>4. /\ pc' = [pc EXCEPT ![t] = "run"]
      /\ call' = [call EXCEPT ![t] = NoCall]
      /\ ctx' = ctx
      /\ \/ block' = [block EXCEPT ![t] = "failed"] /\ depth' = [depth EXCEPT ![t] = 0]
         \/ pc[t] \notin Entering /\ UNCHANGED <<block, depth>>
      /\ lock' = lock \/ (lock' = NoTask /\ ClientCall(t))
  BY <1>1, <1>2 DEF Abort, Goto, FreeTarget, lockVars, ClientCall, TypeOK, TaskTypes
<1>5. ClientCall(t) => ctx[t] = Client
  BY <1>2, <1>3 DEF UseOf, TypeOK, TaskTypes
<1>6. pc'[t] = "run" /\ call'[t] = NoCall /\ ctx'[t] = ctx[t]
  BY <1>4 DEF TypeOK, TaskTypes
<1>7. ~ClientCall(t)'
  BY <1>6 DEF ClientCall, InCall
<1>8. block[t] \in {"open", "failed"} => block'[t] \in {"open", "failed"}
  BY <1>4 DEF TypeOK, TaskTypes
<1>9. UseOf(t)'
  <2>1. ctx[t] # Client =>
          /\ lock' = ctx[t] /\ ~ClientCall(ctx[t])'
          /\ block'[ctx[t]] \in {"open", "failed"}
    <3> SUFFICES ASSUME ctx[t] # Client
                 PROVE  /\ lock' = ctx[t] /\ ~ClientCall(ctx[t])'
                        /\ block'[ctx[t]] \in {"open", "failed"}
      OBVIOUS
    <3>1. /\ lock = ctx[t] /\ ~ClientCall(ctx[t]) /\ ctx[t] \in Tasks
          /\ block[ctx[t]] \in {"open", "failed"} \/ (ctx[t] = t /\ pc[t] \in Entering)
      BY <1>2, <1>3 DEF UseOf, TypeOK, TaskTypes, Targets, Entering
    <3>2. CASE ctx[t] = t
      BY <3>1, <3>2, <1>4, <1>5, <1>7 DEF TypeOK, TaskTypes
    <3>3. CASE ctx[t] # t
      BY <3>1, <3>3, <1>3, <1>4, <1>5 DEF ClientCall, TypeOK, TaskTypes, BlockOf, Entering
    <3> QED BY <3>2, <3>3
  <2>2. depth'[t] > 0 => ctx[t] # Client
    BY <1>3, <1>4 DEF UseOf, TypeOK, TaskTypes
  <2> QED BY <1>6, <2>1, <2>2 DEF UseOf, NoCall, InCall, Leaving, Manual
<1> QED BY <1>2, <1>3, <1>4, <1>7, <1>8, <1>9, UseStep DEF TypeOK, TaskTypes

-----------------------------------------------------------------------------
(* What a step does to the rows *)

\* The rows that the statement of t leaves.
Written(t, parts) ==
    {[by |-> t, via |-> call[t].on, part |-> n,
      late |-> call[t].on # Client /\ final[call[t].on] # "open"] : n \in parts}

Quiet == UNCHANGED <<final, dbVars>>

Writes(t) ==
    /\ pc[t] \in {"stmt", "bulkrows"}
    /\ \E parts \in SUBSET (0..2) : Store(Written(t, parts))
    /\ UNCHANGED <<final, dbtx, lost>>

Begins(t) ==
    /\ pc[t] \in {"beginning", "bulkbegin"}
    /\ dbtx = NoTask /\ dbtx' = t
    /\ UNCHANGED <<final, dirty, durable, lost>>

Commits(t) ==
    /\ durable' = durable \cup dirty /\ dirty' = {} /\ dbtx' = NoTask /\ UNCHANGED lost
    /\ \/ pc[t] \in {"cleaning", "bulkcommit"} /\ UNCHANGED final
       \/ pc[t] \in {"committing", "usercommit"} /\ Finalise(ctx[t], "committed")

Rollbacks(t) ==
    /\ lost' = lost \cup dirty /\ dirty' = {} /\ dbtx' = NoTask /\ UNCHANGED durable
    /\ \/ pc[t] = "bulkrollback" /\ UNCHANGED final
       \/ pc[t] \in {"rollingback", "userrollback"} /\ Finalise(ctx[t], "rolledback")

Effect(t) == Quiet \/ Writes(t) \/ Begins(t) \/ Commits(t) \/ Rollbacks(t)

\* The request that t has waited for is its own.
LEMMA OwnRequest ==
    ASSUME Known, AimInv, NEW t \in Tasks, NEW p, Answered(t, p)
    PROVE  LET r == Head(queue)
           IN  /\ r.by = t /\ pc[t] = p /\ Awaits(p, r.op)
               /\ p \in {"stmt", "bulkrows"} => r.on = call[t].on
<1>1. Len(queue) \in Nat \ {0} /\ Head(queue) = queue[1]
  BY DEF Known, TypeOK, Answered
<1>2. Awaits(p, Head(queue).op)
  BY HeadAwaited DEF Known
<1> QED BY <1>1, <1>2 DEF Answered, AimInv, Aimed

\* A request that is executed while no wrapper becomes final.
LEMMA Performed ==
    ASSUME Known, AimInv, NEW t \in Tasks, NEW p, Answered(t, p), Perform(Head(queue)),
           UNCHANGED final,
           p \notin {"committing", "usercommit", "rollingback", "userrollback"}
    PROVE  Effect(t)
<1> DEFINE r == Head(queue)
<1>1. /\ r.by = t /\ pc[t] = p /\ Awaits(p, r.op) /\ Perform(r)
      /\ p \in {"stmt", "bulkrows"} => r.on = call[t].on
  BY OwnRequest
<1> HIDE DEF r
<1>2. CASE r.op \in {"setup", "foreignkeys"}
  BY <1>2, <1>1 DEF Perform, Effect, Quiet, dbVars
<1>3. CASE r.op \in {"stmt", "many"}
  <2>1. PICK parts \in SUBSET (0..2) : Store(RowsOf(r, parts))
    BY <1>1, <1>3 DEF Perform
  <2>2. RowsOf(r, parts) = Written(t, parts)
    BY <1>1, <1>3 DEF RowsOf, Written, Awaits
  <2> QED BY <1>1, <1>3, <2>1, <2>2 DEF Perform, Effect, Writes, Awaits, dbVars
<1>4. CASE r.op = "begin"
  BY <1>4, <1>1 DEF Perform, Effect, Begins, Awaits
<1>5. CASE r.op = "commit"
  BY <1>5, <1>1 DEF Perform, Effect, Commits, Awaits
<1>6. CASE r.op = "rollback"
  BY <1>6, <1>1 DEF Perform, Effect, Rollbacks, Awaits
<1> QED BY <1>1, <1>2, <1>3, <1>4, <1>5, <1>6 DEF Awaits

\* A request that raises leaves at most a row of a bulk insert.
LEMMA Failed ==
    ASSUME Known, AimInv, NEW t \in Tasks, NEW p, Answered(t, p), Fail(Head(queue)),
           UNCHANGED final
    PROVE  Effect(t)
<1> DEFINE r == Head(queue)
<1>1. /\ r.by = t /\ pc[t] = p /\ Awaits(p, r.op) /\ Fail(r)
      /\ p \in {"stmt", "bulkrows"} => r.on = call[t].on
  BY OwnRequest
<1> HIDE DEF r
<1>2. CASE r.op = "many"
  <2>1. RowsOf(r, {1}) = Written(t, {1}) /\ {1} \in SUBSET (0..2)
    BY <1>1, <1>2 DEF RowsOf, Written, Awaits
  <2> QED BY <1>1, <1>2, <2>1 DEF Fail, Effect, Writes, Awaits
<1>3. CASE r.op # "many"
  BY <1>1, <1>3 DEF Fail, Effect, Quiet, dbVars
<1> QED BY <1>2, <1>3

LEMMA StoreEffect ==
    ASSUME Known, AimInv, Orderly, NEW t \in Tasks, Step(t)
    PROVE  Effect(t)
<1>1. CASE Enter(t)
  <2>1. CASE EnterBlock(t) \/ EnterNested(t) \/ Connected(t) \/ AcquireBlock(t) \/ AcquireRefused(t)
    BY <2>1 DEF EnterBlock, EnterNested, Connected, AcquireBlock, AcquireRefused, Effect, Quiet
  <2>2. CASE PragmaNext(t) \/ PragmasDone(t) \/ CleanDone(t) \/ BeginDone(t)
    BY <2>2, Performed DEF PragmaNext, PragmasDone, CleanDone, BeginDone
  <2> QED BY <1>1, <2>1, <2>2 DEF Enter
<1>2. CASE Statement(t)
  <2>1. CASE Call(t) \/ CallSubmit(t) \/ CallConnect(t) \/ CallRefused(t)
    BY <2>1 DEF Call, CallSubmit, CallConnect, CallRefused, Effect, Quiet
  <2>2. CASE CallPragmasDone(t) \/ StmtDone(t) \/ BulkBegun(t) \/ BulkInserted(t) \/ BulkEnded(t)
    BY <2>2, Performed DEF CallPragmasDone, StmtDone, BulkBegun, BulkInserted, BulkEnded
  <2>3. CASE BulkFailed(t)
    BY <2>3, Failed DEF BulkFailed
  <2> QED BY <1>2, <2>1, <2>2, <2>3 DEF Statement
<1>3. CASE Exit(t)
  <2>1. CASE ExitNested(t) \/ ExitRollback(t) \/ ExitCommit(t) \/ ExitAsIs(t) \/ UserFinish(t)
    BY <2>1 DEF ExitNested, ExitRollback, ExitCommit, ExitAsIs, UserFinish, Effect, Quiet
  <2>2. CASE ExitDone(t) \/ UserFinishDone(t)
    <3>1. PICK p \in {"committing", "usercommit", "rollingback", "userrollback"} :
              /\ Answered(t, p) /\ Perform(Head(queue))
              /\ p \in {"committing", "usercommit"} => Finalise(ctx[t], "committed")
              /\ p \in {"rollingback", "userrollback"} => Finalise(ctx[t], "rolledback")
      BY <2>2 DEF ExitDone, UserFinishDone
    <3>2. pc[t] = p /\ Awaits(p, Head(queue).op)
      BY <3>1, OwnRequest
    <3> QED BY <3>1, <3>2 DEF Perform, Effect, Commits, Rollbacks, Awaits
  <2> QED BY <1>3, <2>1, <2>2 DEF Exit
<1>4. CASE User(t)
  BY <1>4 DEF User, Throw, Catch, Finish, Spawn, Effect, Quiet
<1>5. CASE Fault(t)
  <2>1. ~Cancel(t)
    BY DEF Cancel, Orderly
  <2>2. CASE ConnectFails(t)
    BY <2>2 DEF ConnectFails, Abort, Effect, Quiet
  <2>3. CASE RequestFails(t)
    BY <2>3, Failed DEF RequestFails, Abort
  <2> QED BY <1>5, <2>1, <2>2, <2>3 DEF Fault
<1> QED BY <1>1, <1>2, <1>3, <1>4, <1>5 DEF Step

-----------------------------------------------------------------------------
(* A transaction is its owner's *)

\* The inductive invariant of the rest of the module.
Agreed == Known /\ OwnerInv /\ AimInv /\ UseInv

LEMMA NoOrphans ==
    ASSUME TypeOK, QueueInv
    PROVE  ~OrphanDone
<1>1. queue # <<>> => Len(queue) \in Nat \ {0} /\ Head(queue) = queue[1]
  BY DEF TypeOK
<1> QED BY <1>1 DEF OrphanDone, QueueInv

LEMMA StepsAgree ==
    ASSUME Agreed, Orderly, Joined, NEW t \in Tasks, Step(t), TypeOK'
    PROVE  Agreed'
<1>1. LockInv'
  BY EnterKeepsLock, StatementKeepsLock, ExitKeepsLock, UserKeepsLock, FaultKeepsLock
     DEF Agreed, Known, Step
<1>2. QueueInv'
  BY QueueSteps DEF Agreed, Known, Step
<1>3. BlockInv'
  BY BlockEnter, BlockStatement, BlockExit, BlockUser, BlockFault DEF Agreed, Known, Step
<1>4. OwnerInv'
  BY OwnerEnter, OwnerStatement, OwnerExit, OwnerUser, OwnerFault DEF Agreed, Known, TxInv, Step
<1>5. AimInv'
  BY AimSteps DEF Agreed, Known
<1>6. UseInv'
  BY UseEnter, UseStatement, UseExit, UseUser, UseFault DEF Agreed, Step
<1> QED BY <1>1, <1>2, <1>3, <1>4, <1>5, <1>6 DEF Agreed, Known

\* A step of the specification is a task's, or changes nothing.
LEMMA StepOrStutter ==
    ASSUME TypeOK, QueueInv, [Next]_vars
    PROVE  UNCHANGED vars \/ \E t \in Tasks : Step(t)
BY NoOrphans DEF Next, Terminating, Step

LEMMA InitAgreed ==
    ASSUME Init, TypeOK
    PROVE  Agreed
<1>1. LockInv
  BY DEF Init, LockInv, LockExclusion, UnderLock, ClientCall, InCall, NoCall
<1>2. QueueInv /\ AimInv
  BY DEF Init, QueueInv, AimInv
<1>3. BlockInv
  BY SqliteAssumption DEF Init, BlockInv, BlockOf, Entering, BulkPcs
<1>4. UseInv
  BY DEF Init, UseInv, UseOf, NoCall, InCall, Leaving, Manual
<1> QED BY <1>1, <1>2, <1>3, <1>4 DEF Init, Agreed, Known, OwnerInv

LEMMA AlwaysAgreed ==
    ASSUME Orderly, Joined
    PROVE  Spec => []Agreed
<1>1. Agreed /\ [Next]_vars /\ TypeOK' => Agreed'
  <2> SUFFICES ASSUME Agreed, [Next]_vars, TypeOK'
               PROVE  Agreed'
    OBVIOUS
  <2>1. CASE UNCHANGED vars
    BY <2>1 DEF vars, Agreed, Known, LockInv, LockExclusion, UnderLock, ClientCall, QueueInv,
       BlockInv, BlockOf, OwnerInv, OwnerOf, AimInv, Aimed, UseInv, UseOf, OuterFrame
  <2> QED BY <2>1, StepOrStutter, StepsAgree DEF Agreed, Known
<1>2. Init /\ TypeOK => Agreed
  BY InitAgreed
<1> QED BY <1>1, <1>2, TypeCorrect, PTL DEF Spec

\* A transaction is open under the client's lock.
LEMMA OwnerHoldsLock ==
    ASSUME Agreed, dbtx # NoTask
    PROVE  dbtx \in Tasks /\ lock = dbtx
<1>1. dbtx \in Tasks /\ OwnerOf(dbtx) /\ BlockOf(dbtx)
  BY DEF Agreed, Known, OwnerInv, BlockInv, TypeOK, StoreTypes
<1>2. UnderLock(dbtx)
  BY <1>1 DEF OwnerOf, BlockOf, BulkPcs, InCall, UnderLock
<1> QED BY <1>1, <1>2 DEF Agreed, Known, LockInv, LockExclusion

\* A statement that finds a transaction open is its owner's.
LEMMA WriterOwns ==
    ASSUME Agreed, NEW t \in Tasks, pc[t] \in {"stmt", "bulkrows"}, dbtx # NoTask,
           NEW parts, NEW row \in Written(t, parts)
    PROVE  RowOf(row, dbtx)
<1>1. dbtx \in Tasks /\ lock = dbtx
  BY OwnerHoldsLock
<1>2. call[t].on \in {Client, ctx[t]} /\ row.via = call[t].on /\ row.by = t
  BY DEF Agreed, UseInv, UseOf, Written
<1>3. CASE call[t].on = Client
  <2>1. lock = t
    BY <1>3 DEF Agreed, Known, LockInv, LockExclusion, UnderLock, InCall
  <2> QED BY <1>1, <1>2, <1>3, <2>1 DEF RowOf
<1>4. CASE call[t].on # Client
  <2>1. lock = ctx[t]
    BY <1>2, <1>4 DEF Agreed, UseInv, UseOf
  <2> QED BY <1>1, <1>2, <1>4, <2>1 DEF RowOf
<1> QED BY <1>3, <1>4

LEMMA IsolatedStep ==
    ASSUME Agreed, TransactionIsolated, NEW t \in Tasks, Effect(t)
    PROVE  TransactionIsolated'
<1> USE DEF TransactionIsolated, RowOf
<1>1. CASE Quiet
  BY <1>1 DEF Quiet, dbVars
<1>2. CASE Writes(t)
  <2>1. PICK parts \in SUBSET (0..2) : Store(Written(t, parts))
    BY <1>2 DEF Writes
  <2>2. dbtx # NoTask => \A row \in Written(t, parts) : RowOf(row, dbtx)
    BY <1>2, WriterOwns DEF Writes
  <2>3. dbtx' = dbtx
    BY <1>2 DEF Writes
  <2> QED BY <2>1, <2>2, <2>3 DEF Store
<1>3. CASE Begins(t)
  BY <1>3 DEF Begins, Agreed, OwnerInv
<1>4. CASE Commits(t) \/ Rollbacks(t)
  BY <1>4 DEF Commits, Rollbacks
<1> QED BY <1>1, <1>2, <1>3, <1>4 DEF Effect

\* TransactionIsolated: a block waits for the tasks it spawned, and its commit() and
\* rollback() do not fail: then a transaction holds its owner's rows only, and no task
\* that runs beside it writes into it.
THEOREM NoStrangers ==
    ASSUME Orderly, Joined
    PROVE  Spec => []TransactionIsolated
<1>1. Init => TransactionIsolated
  BY DEF Init, TransactionIsolated
<1>2. Agreed /\ TransactionIsolated /\ [Next]_vars => TransactionIsolated'
  <2> SUFFICES ASSUME Agreed, TransactionIsolated, [Next]_vars
               PROVE  TransactionIsolated'
    OBVIOUS
  <2>1. CASE UNCHANGED vars
    BY <2>1 DEF vars, TransactionIsolated, RowOf
  <2> QED BY <2>1, StepOrStutter, StoreEffect, IsolatedStep DEF Agreed, Known
<1> QED BY <1>1, <1>2, AlwaysAgreed, PTL DEF Spec

LEMMA StoreStep ==
    ASSUME Agreed, TypeOK', NEW t \in Tasks, Effect(t)
    PROVE  Store1!Next \/ UNCHANGED <<dbtx, dirty, durable>>
<1>1. CASE Quiet
  BY <1>1 DEF Quiet, dbVars
<1>2. CASE Writes(t)
  <2>1. PICK parts \in SUBSET (0..2) : Store(Written(t, parts))
    BY <1>2 DEF Writes
  <2>2. dbtx # NoTask => \A row \in Written(t, parts) : RowOf(row, dbtx)
    BY <1>2, WriterOwns DEF Writes
  <2>3. dirty' \subseteq Rows /\ durable' \subseteq Rows /\ dbtx' = dbtx
    BY <1>2 DEF Writes, TypeOK, StoreTypes
  <2>4. CASE dbtx = NoTask
    <3>1. Store1!AutoCommit
      BY <2>1, <2>3, <2>4 DEF Store, Store1!AutoCommit
    <3> QED BY <3>1 DEF Store1!Next
  <2>5. CASE dbtx # NoTask
    <3>1. Store1!Write
      BY <2>1, <2>2, <2>3, <2>5 DEF Store, Store1!Write
    <3> QED BY <3>1 DEF Store1!Next
  <2> QED BY <2>4, <2>5
<1>3. CASE Begins(t)
  BY <1>3 DEF Begins, Store1!Next, Store1!Begin
<1>4. dbtx = NoTask => dirty = {}
  BY DEF Agreed, OwnerInv
<1>5. CASE Commits(t)
  BY <1>4, <1>5 DEF Commits, Store1!Next, Store1!Commit
<1>6. CASE Rollbacks(t)
  BY <1>4, <1>6 DEF Rollbacks, Store1!Next, Store1!Rollback
<1> QED BY <1>1, <1>2, <1>3, <1>5, <1>6 DEF Effect

\* StoreSpec: under the same conditions the client, its lock, the wrappers and the one
\* connection are a store of atomic transactions.
THEOREM RefinesAtomicStore ==
    ASSUME Orderly, Joined
    PROVE  Spec => StoreSpec
<1>1. Init => Store1!Init
  BY DEF Init, Store1!Init
<1>2. Agreed /\ TypeOK' /\ [Next]_vars => [Store1!Next]_<<dbtx, dirty, durable>>
  <2> SUFFICES ASSUME Agreed, TypeOK', [Next]_vars
               PROVE  Store1!Next \/ UNCHANGED <<dbtx, dirty, durable>>
    OBVIOUS
  <2>1. CASE UNCHANGED vars
    BY <2>1 DEF vars
  <2> QED BY <2>1, StepOrStutter, StoreEffect, StoreStep DEF Agreed, Known
<1> QED BY <1>1, <1>2, AlwaysAgreed, TypeCorrect, PTL DEF Spec, StoreSpec, Store1!Spec

-----------------------------------------------------------------------------
(* A block is all or nothing *)

\* No BEGIN fails, and the connection was opened before the tasks started.  A block whose
\* start() raised leaves its lock taken and its context set, so that the task goes on with
\* a wrapper outside of any transaction.
Warm == "begin" \notin Faults /\ ~Cold

Connectionless == {"connecting", "pragmas", "callconnect", "callpragmas"}

Ready == conn = "ready" /\ \A t \in Tasks : pc[t] \notin Connectionless

\* What has become of the rows of wrapper w.
FateOf(w) ==
    /\ Early(w, dirty) # {} => block[w] = "open" /\ final[w] = "open"
    /\ final[w] = "open" => Early(w, durable) = {} /\ Early(w, lost) = {}
    /\ final[w] = "committed" => Early(w, lost) = {}
    /\ final[w] = "rolledback" => Early(w, durable) = {}
    /\ block[w] = "open" /\ final[w] = "open" => dbtx = w
    /\ block[w] # "failed"

FateInv == \A w \in Tasks : FateOf(w)

\* How the block of a task goes on.
Moves(t) ==
    /\ \A u \in Tasks \ {t} : block'[u] = block[u]
    /\ block'[t] # "failed"
    /\ block'[t] = "open" => block[t] = "open" \/ (pc[t] = "beginning" /\ dbtx' = t)
    /\ block[t] = "open" /\ final'[t] = "open" => block'[t] = "open"

\* When a task has sent BEGIN, no transaction is open.
LEMMA BeginsAlone ==
    ASSUME Agreed, NEW t \in Tasks, pc[t] = "beginning"
    PROVE  dbtx = NoTask
<1> SUFFICES ASSUME dbtx # NoTask
             PROVE  FALSE
  OBVIOUS
<1>1. lock = t
  BY DEF Agreed, Known, LockInv, LockExclusion, UnderLock
<1>2. dbtx = t
  BY <1>1, OwnerHoldsLock
<1>3. OwnerOf(t) /\ BlockOf(t)
  BY <1>2 DEF Agreed, Known, OwnerInv, BlockInv
<1> QED BY <1>3 DEF OwnerOf, BlockOf, BulkPcs, Entering

\* The connection stays as it is.
LEMMA ReadyStep ==
    ASSUME Agreed, Ready, Orderly, NEW t \in Tasks, Step(t)
    PROVE  Ready'
<1> USE PerformConn
        DEF Ready, Connectionless, Agreed, Known, TypeOK, TaskTypes, Goto, EndCall, Answered
<1>1. CASE Enter(t)
  BY <1>1 DEF Enter, EnterBlock, EnterNested, Connected, PragmaNext, PragmasDone, AcquireBlock,
     AcquireRefused, CleanDone, BeginDone
<1>2. CASE Statement(t)
  BY <1>2 DEF Statement, Call, CallSubmit, CallConnect, CallRefused, FirstPc, CallPragmasDone,
     StmtDone, BulkBegun, BulkInserted, BulkFailed, BulkEnded
<1>3. CASE Exit(t)
  BY <1>3 DEF Exit, ExitNested, ExitRollback, ExitCommit, ExitAsIs, ExitDone, UserFinish,
     UserFinishDone, LeaveBlock
<1>4. CASE User(t)
  BY <1>4 DEF User, Throw, Catch, Finish, Spawn
<1>5. CASE Fault(t)
  <2>1. ~Cancel(t)
    BY DEF Cancel, Orderly
  <2> QED BY <1>5, <2>1 DEF Fault, RequestFails, ConnectFails, Abort
<1> QED BY <1>1, <1>2, <1>3, <1>4, <1>5 DEF Step

LEMMA BlockMoves ==
    ASSUME Agreed, Ready, FateInv, Orderly, Warm, NEW t \in Tasks, Step(t)
    PROVE  Moves(t)
<1> USE DEF Moves, Known, TypeOK, TaskTypes
<1>1. block[t] # "failed" /\ BlockOf(t)
  BY DEF FateInv, FateOf, Agreed, Known, BlockInv
<1>2. CASE UNCHANGED block
  BY <1>1, <1>2
<1>3. CASE Enter(t)
  <2>1. CASE EnterBlock(t)
    BY <1>1, <2>1 DEF EnterBlock, Agreed
  <2>2. ~AcquireRefused(t)
    BY DEF AcquireRefused, Usable, Ready
  <2>3. CASE BeginDone(t)
    <3>1. /\ pc[t] = "beginning" /\ Awaits("beginning", Head(queue).op) /\ Head(queue).by = t
          /\ Perform(Head(queue)) /\ block' = [block EXCEPT ![t] = "open"]
      BY <2>3, OwnRequest DEF BeginDone, Answered, Agreed
    <3>2. dbtx' = t
      BY <3>1 DEF Perform, Awaits
    <3> QED BY <3>1, <3>2 DEF Agreed
  <2> QED BY <1>2, <1>3, <2>1, <2>2, <2>3
      DEF Enter, EnterNested, Connected, PragmaNext, PragmasDone, AcquireBlock, CleanDone
<1>4. CASE Statement(t)
  BY <1>2, <1>4 DEF Statement, Call, CallSubmit, CallConnect, CallRefused, CallPragmasDone,
     StmtDone, BulkBegun, BulkInserted, BulkFailed, BulkEnded
<1>5. CASE Exit(t)
  <2>1. CASE ExitAsIs(t)
    <3>1. block[t] = "open" => final[t] # "open"
      BY <1>1, <2>1 DEF ExitAsIs, BlockOf
    <3> QED BY <2>1, <3>1 DEF ExitAsIs, LeaveBlock, Agreed
  <2>2. CASE ExitDone(t) /\ OuterFrame(t)
    <3>1. ctx[t] = t
      BY <1>1, <2>2 DEF OuterFrame, BlockOf
    <3>2. final'[t] # "open"
      BY <2>2, <3>1 DEF ExitDone, Finalise, Agreed
    <3> QED BY <2>2, <3>2 DEF ExitDone, LeaveBlock, Agreed
  <2>3. ExitDone(t) /\ ~OuterFrame(t) => UNCHANGED block
    BY DEF ExitDone
  <2> QED BY <1>2, <1>5, <2>1, <2>2, <2>3
      DEF Exit, ExitNested, ExitRollback, ExitCommit, UserFinish, UserFinishDone
<1>6. CASE User(t)
  BY <1>2, <1>6 DEF User, Throw, Catch, Finish, Spawn
<1>7. CASE Fault(t)
  <2>1. RequestFails(t)
    BY <1>7 DEF Fault, Cancel, ConnectFails, Orderly, Ready, Connectionless
  <2>2. Awaits(pc[t], Head(queue).op) /\ Fail(Head(queue))
    BY <2>1, OwnRequest DEF RequestFails, Agreed
  <2>3. pc[t] \notin Entering \cup Leaving
    <3>1. pc[t] # "beginning"
      BY <2>2, BeginsAlone DEF Awaits, Fail, Warm
    <3> QED BY <2>2, <3>1
        DEF Awaits, Fail, Warm, Orderly, Entering, Leaving, Ready, Connectionless
  <2> QED BY <1>2, <2>1, <2>3 DEF RequestFails, Abort
<1> QED BY <1>3, <1>4, <1>5, <1>6, <1>7 DEF Step

\* A commit or rollback of task t ends a transaction of its context's wrapper or nothing:
\* no other block has one open.
LEMMA EndsItsOwn ==
    ASSUME Agreed, NEW t \in Tasks, Commits(t) \/ Rollbacks(t),
           NEW w \in Tasks, block[w] = "open", final[w] = "open", dbtx = w
    PROVE  ctx[t] = w /\ final'[w] # "open"
<1>1. lock = w
  BY OwnerHoldsLock, SqliteAssumption
<1>2. w # t => pc[t] \notin {"cleaning", "bulkcommit", "bulkrollback"}
  <2>1. pc[t] \in {"bulkcommit", "bulkrollback"} => call[t].on = Client
    BY DEF Agreed, Known, BlockInv, BlockOf, BulkPcs
  <2>2. pc[t] \in {"cleaning", "bulkcommit", "bulkrollback"} => UnderLock(t)
    BY <2>1 DEF UnderLock, InCall
  <2> QED BY <1>1, <2>2 DEF Agreed, Known, LockInv, LockExclusion
<1>3. pc[w] \notin {"cleaning", "bulkcommit", "bulkrollback"}
  <2>1. BlockOf(w) /\ ~ClientCall(w)
    BY DEF Agreed, Known, BlockInv, LockInv
  <2> QED BY <2>1 DEF BlockOf, Entering, BulkPcs, ClientCall, InCall
<1>4. pc[t] \in {"committing", "usercommit", "rollingback", "userrollback"}
  BY <1>2, <1>3 DEF Commits, Rollbacks
<1>5. ctx[t] # Client /\ lock = ctx[t]
  BY <1>4 DEF Agreed, UseInv, UseOf, Leaving, Manual
<1> QED BY <1>1, <1>4, <1>5 DEF Commits, Rollbacks, Finalise, Agreed, Known, TypeOK, TaskTypes

\* The rows of a statement that are early are written into the open transaction of their
\* wrapper.
LEMMA EarlyIsStaged ==
    ASSUME Agreed, FateInv, NEW t \in Tasks, pc[t] \in {"stmt", "bulkrows"},
           NEW w \in Tasks, NEW parts, Early(w, Written(t, parts)) # {}
    PROVE  block[w] = "open" /\ final[w] = "open" /\ dbtx = w
<1>1. call[t].on = w /\ w # Client /\ final[w] = "open"
  <2>1. PICK row \in Written(t, parts) : row.via = w /\ ~row.late
    BY DEF Early
  <2>2. row.via = call[t].on /\ row.late = (call[t].on # Client /\ final[call[t].on] # "open")
    BY <2>1 DEF Written
  <2> QED BY <2>1, <2>2, SqliteAssumption
<1>2. ctx[t] = w /\ block[w] \in {"open", "failed"}
  BY <1>1 DEF Agreed, UseInv, UseOf
<1> QED BY <1>1, <1>2 DEF FateInv, FateOf

\* Rows added to a set, and the early ones of them.
LEMMA EarlyUnion ==
    ASSUME NEW w, NEW rows, NEW more
    PROVE  Early(w, rows \cup more) = Early(w, rows) \cup Early(w, more)
BY DEF Early

LEMMA FateStep ==
    ASSUME Agreed, FateInv, NEW t \in Tasks, Effect(t), Moves(t)
    PROVE  FateInv'
<1> SUFFICES ASSUME NEW w \in Tasks
             PROVE  FateOf(w)'
  BY DEF FateInv
<1>1. FateOf(w) /\ BlockOf(w) /\ BlockOf(t)
  BY DEF FateInv, Agreed, Known, BlockInv
<1>2. Early(w, {}) = {}
  BY DEF Early
<1>3. /\ block'[w] # "failed"
      /\ block'[w] = "open" => block[w] = "open" \/ (w = t /\ pc[t] = "beginning" /\ dbtx' = t)
      /\ block[w] = "open" /\ final'[w] = "open" => block'[w] = "open"
  BY <1>1 DEF Moves, FateOf
<1>4. CASE Quiet
  <2>1. block'[w] = "open" /\ final'[w] = "open" => dbtx' = w
    BY <1>1, <1>3, <1>4 DEF Quiet, dbVars, FateOf
  <2> QED BY <1>1, <1>3, <1>4, <2>1 DEF Quiet, dbVars, FateOf, Early
<1>5. CASE Writes(t)
  <2>1. PICK parts \in SUBSET (0..2) : Store(Written(t, parts))
    BY <1>5 DEF Writes
  <2>2. /\ pc[t] \in {"stmt", "bulkrows"} /\ final' = final /\ dbtx' = dbtx /\ lost' = lost
        /\ pc[t] # "beginning"
    BY <1>5 DEF Writes
  <2>3. block'[w] = "open" /\ final'[w] = "open" => dbtx' = w
    BY <1>1, <1>3, <2>2 DEF FateOf
  <2>4. Early(w, Written(t, parts)) # {} => block[w] = "open" /\ final[w] = "open" /\ dbtx = w
    BY <2>2, EarlyIsStaged
  <2>5. CASE dbtx = NoTask
    <3>1. durable' = durable \cup Written(t, parts) /\ dirty' = dirty
      BY <2>1, <2>5 DEF Store
    <3>2. Early(w, Written(t, parts)) = {}
      BY <2>4, <2>5, SqliteAssumption
    <3>3. Early(w, durable') = Early(w, durable)
      BY <3>1, <3>2, EarlyUnion
    <3> QED BY <1>1, <1>3, <2>2, <2>3, <3>1, <3>3 DEF FateOf, Early
  <2>6. CASE dbtx # NoTask
    <3>1. dirty' = dirty \cup Written(t, parts) /\ durable' = durable
      BY <2>1, <2>6 DEF Store
    <3>2. Early(w, dirty') # {} => block[w] = "open" /\ final[w] = "open"
      BY <1>1, <2>4, <3>1, EarlyUnion DEF FateOf
    <3> QED BY <1>1, <1>3, <2>2, <2>3, <3>1, <3>2 DEF FateOf, Early
  <2> QED BY <2>5, <2>6
<1>6. CASE Begins(t)
  <2>1. UNCHANGED <<final, dirty, durable, lost>> /\ dbtx = NoTask
    BY <1>6 DEF Begins
  <2>2. ~(block[w] = "open" /\ final[w] = "open")
    BY <1>1, <2>1, SqliteAssumption DEF FateOf
  <2> QED BY <1>1, <1>3, <2>1, <2>2 DEF FateOf, Early
<1>7. CASE Commits(t) \/ Rollbacks(t)
  <2>1. block[w] = "open" /\ final[w] = "open" => ctx[t] = w /\ final'[w] # "open"
    BY <1>1, <1>7, EndsItsOwn DEF FateOf
  <2>2. ~(block'[w] = "open" /\ final'[w] = "open")
    <3>1. pc[t] # "beginning"
      BY <1>7 DEF Commits, Rollbacks
    <3>2. final'[w] = "open" => final[w] = "open"
      BY <1>7 DEF Commits, Rollbacks, Finalise, Agreed, Known, TypeOK, TaskTypes
    <3> QED BY <1>3, <2>1, <3>1, <3>2
  <2>3. dirty' = {} /\ final[w] \in {"open", "committed", "rolledback"}
    BY <1>7 DEF Commits, Rollbacks, Agreed, Known, TypeOK, TaskTypes
  <2>4. CASE Commits(t)
    <3>1. lost' = lost /\ Early(w, durable') = Early(w, durable) \cup Early(w, dirty)
      BY <2>4, EarlyUnion DEF Commits
    <3>2. final'[w] \in {final[w], "committed"} /\ (final[w] # "open" => final'[w] = final[w])
      BY <2>3, <2>4 DEF Commits, Finalise, Agreed, Known, TypeOK, TaskTypes
    <3> QED BY <1>1, <1>2, <1>3, <2>1, <2>2, <2>3, <3>1, <3>2 DEF FateOf, Early
  <2>5. CASE Rollbacks(t)
    <3>1. durable' = durable /\ Early(w, lost') = Early(w, lost) \cup Early(w, dirty)
      BY <2>5, EarlyUnion DEF Rollbacks
    <3>2. final'[w] \in {final[w], "rolledback"} /\ (final[w] # "open" => final'[w] = final[w])
      BY <2>3, <2>5 DEF Rollbacks, Finalise, Agreed, Known, TypeOK, TaskTypes
    <3> QED BY <1>1, <1>2, <1>3, <2>1, <2>2, <2>3, <3>1, <3>2 DEF FateOf, Early
  <2> QED BY <1>7, <2>4, <2>5
<1> QED BY <1>4, <1>5, <1>6, <1>7 DEF Effect

\* BlockAtomic: where BEGIN, commit() and rollback() do not fail, nobody is cancelled and
\* the connection is open, a block that waits for its tasks is all or nothing: what was
\* written through its wrapper before commit() is durable, and before rollback() is gone.
THEOREM AllOrNothing ==
    ASSUME Orderly, Joined, Warm
    PROVE  Spec => []BlockAtomic
<1>1. Init => Ready /\ FateInv
  BY SqliteAssumption DEF Init, Warm, Ready, Connectionless, FateInv, FateOf, Early
<1>2. Agreed /\ Ready /\ FateInv /\ [Next]_vars => Ready' /\ FateInv'
  <2> SUFFICES ASSUME Agreed, Ready, FateInv, [Next]_vars
               PROVE  Ready' /\ FateInv'
    OBVIOUS
  <2>1. CASE UNCHANGED vars
    BY <2>1 DEF vars, Ready, FateInv, FateOf, Early
  <2>2. ASSUME NEW t \in Tasks, Step(t)
        PROVE  Ready' /\ FateInv'
    BY <2>2, ReadyStep, StoreEffect, BlockMoves, FateStep DEF Agreed
  <2> QED BY <2>1, <2>2, StepOrStutter DEF Agreed, Known
<1>3. Agreed /\ FateInv => BlockAtomic
  <2> SUFFICES ASSUME FateInv, NEW w \in Tasks
               PROVE  /\ final[w] = "committed"  => Early(w, dirty \cup lost) = {}
                      /\ final[w] = "rolledback" => Early(w, dirty \cup durable) = {}
                      /\ final[w] = "open" => Early(w, durable) = {}
    BY DEF BlockAtomic
  <2> QED BY EarlyUnion DEF FateInv, FateOf
<1> QED BY <1>1, <1>2, <1>3, AlwaysAgreed, PTL DEF Spec

=============================================================================
