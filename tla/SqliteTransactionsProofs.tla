---------------------- MODULE SqliteTransactionsProofs ----------------------
(***************************************************************************)
(* Theorems about SqliteTransactions, for every set of tasks, every depth  *)
(* of nesting and every set of faults.                                     *)
(***************************************************************************)
EXTENDS SqliteTransactions, TLAPS

-----------------------------------------------------------------------------
(* The operators the actions are built from *)

\* The first request of a queue of requests is a request.
LEMMA HeadIsRequest ==
    ASSUME queue \in Seq(Requests), queue # <<>>
    PROVE  Head(queue) \in Requests /\ Tail(queue) \in Seq(Requests)
BY SMT

\* Submitting a request keeps a queue of requests.
LEMMA SubmitKeepsQueue ==
    ASSUME queue \in Seq(Requests),
           NEW t \in Tasks, NEW on \in Targets, NEW op \in Ops,
           \/ Submit(t, on, op)
           \/ queue # <<>> /\ SubmitNext(t, on, op)
    PROVE  queue' \in Seq(Requests)
<1>1. Request(t, on, op) \in Requests
  BY DEF Request, Requests
<1>2. CASE Submit(t, on, op)
  BY <1>1, <1>2 DEF Submit
<1>3. CASE queue # <<>> /\ SubmitNext(t, on, op)
  BY <1>1, <1>3, HeadIsRequest DEF SubmitNext
<1> QED BY <1>2, <1>3

\* The rows of a request are rows.
LEMMA RowsOfType ==
    ASSUME NEW r \in Requests, NEW parts \in SUBSET (0..2)
    PROVE  RowsOf(r, parts) \subseteq Rows
<1> SUFFICES ASSUME NEW row \in RowsOf(r, parts)
             PROVE  row \in Rows
  OBVIOUS
<1> DEFINE late == r.on # Client /\ final[r.on] # "open"
<1>1. late \in BOOLEAN
  OBVIOUS
<1>2. PICK n \in parts : row = [by |-> r.by, via |-> r.on, part |-> n, late |-> late]
  BY DEF RowsOf
<1>3. r.by \in Tasks /\ r.on \in Targets /\ n \in 0..2
  BY DEF Requests
<1> HIDE DEF late
<1> QED BY <1>1, <1>2, <1>3 DEF Rows

\* Executing a request keeps the types of the connection and the database.
LEMMA PerformKeepsTypes ==
    ASSUME StoreTypes, NEW r \in Requests, Perform(r) \/ Fail(r)
    PROVE  StoreTypes'
<1>1. /\ RowsOf(r, {0}) \subseteq Rows
      /\ RowsOf(r, {1}) \subseteq Rows
      /\ RowsOf(r, {1, 2}) \subseteq Rows
  BY RowsOfType
<1>2. r.by \in Tasks
  BY DEF Requests
<1>3. CASE Perform(r)
  BY <1>1, <1>2, <1>3 DEF Perform, StoreTypes, Store, dbVars
<1>4. CASE Fail(r)
  BY <1>1, <1>4 DEF Fail, StoreTypes, Store
<1> QED BY <1>3, <1>4

\* Taking a statement's lock and giving it back keep the types of the locks.
LEMMA FreeTargetKeepsTypes ==
    ASSUME LockTypes, TaskTypes, NEW t \in Tasks, FreeTarget(t)
    PROVE  LockTypes'
BY DEF FreeTarget, LockTypes, TaskTypes, Calls, Targets

\* Taking the lock of the target keeps the types of the locks.
LEMMA TakeTargetKeepsTypes ==
    ASSUME LockTypes, TaskTypes, NEW t \in Tasks, TakeTarget(t)
    PROVE  LockTypes'
BY DEF TakeTarget, LockTypes, TaskTypes, Calls, Targets

\* Finalising a wrapper keeps the type of final.
LEMMA FinaliseKeepsType ==
    ASSUME TaskTypes, NEW w, NEW how \in {"committed", "rolledback"}, Finalise(w, how)
    PROVE  final' \in [Tasks -> {"open", "committed", "rolledback"}]
<1> DEFINE v == IF final[w] = "open" THEN how ELSE final[w]
<1>1. CASE w \in Tasks
  <2>1. v \in {"open", "committed", "rolledback"}
    BY <1>1 DEF TaskTypes
  <2> QED BY <2>1 DEF Finalise, TaskTypes
<1>2. CASE w \notin Tasks
  <2>1. \A u \in Tasks : final'[u] = final[u]
    BY <1>2 DEF Finalise, TaskTypes
  <2>2. final' = [u \in Tasks |-> final'[u]]
    BY DEF Finalise, TaskTypes
  <2> QED BY <2>1, <2>2 DEF TaskTypes
<1> QED BY <1>1, <1>2

\* Entering a block keeps the types.
LEMMA EnterKeepsTypes ==
    ASSUME TypeOK, NEW t \in Tasks, Enter(t)
    PROVE  TypeOK'
<1> USE SqliteAssumption DEF Goto, Raise, EndCall, PCs, Entering, InCall, Leaving, Manual
<1>1. CASE EnterBlock(t)
  <2>1. pc' \in [Tasks -> PCs] /\ conn' \in {"none", "opening", "dead", "up", "ready"}
    BY <1>1 DEF EnterBlock, TypeOK, TaskTypes, StoreTypes
  <2>2. \A u \in Tasks : pc'[u] \in Leaving => u # t /\ pc[u] \in Leaving
    BY <1>1 DEF EnterBlock, TypeOK, TaskTypes
  <2>3. depth' \in [Tasks -> 0..MaxDepth] /\ \A u \in Tasks : u # t => depth'[u] = depth[u]
    BY <1>1 DEF EnterBlock, TypeOK, TaskTypes
  <2> QED BY <2>1, <2>2, <2>3, <1>1 DEF EnterBlock, TypeOK, TaskTypes, LockTypes, StoreTypes, lockVars, dbVars,
            Targets, Calls, NoCall
<1>2. CASE EnterNested(t)
  BY <1>2 DEF EnterNested, TypeOK, TaskTypes, LockTypes, StoreTypes, lockVars, dbVars,
            Targets, Calls, NoCall
<1>3. CASE Connected(t)
  <2>1. queue' \in Seq(Requests)
    BY <1>3, SubmitKeepsQueue DEF Connected, TypeOK, Targets, Ops
  <2> QED BY <2>1, <1>3 DEF Connected, TypeOK, TaskTypes, LockTypes, StoreTypes, lockVars, dbVars, Targets
<1>4. CASE PragmaNext(t)
  <2>1. Head(queue) \in Requests /\ Tail(queue) \in Seq(Requests)
    BY <1>4, HeadIsRequest DEF PragmaNext, Answered, TypeOK
  <2>2. StoreTypes'
    BY <2>1, <1>4, PerformKeepsTypes DEF PragmaNext, TypeOK
  <2>3. queue' \in Seq(Requests)
    BY <2>1, <1>4, SubmitKeepsQueue DEF PragmaNext, Answered, TypeOK, Targets, Ops
  <2> QED BY <2>2, <2>3, <1>4 DEF PragmaNext, Answered, TypeOK, TaskTypes, LockTypes, lockVars, Targets
<1>5. CASE PragmasDone(t)
  <2>1. Head(queue) \in Requests /\ Tail(queue) \in Seq(Requests)
    BY <1>5, HeadIsRequest DEF PragmasDone, Answered, TypeOK
  <2>2. StoreTypes'
    BY <2>1, <1>5, PerformKeepsTypes DEF PragmasDone, TypeOK
  <2>3. queue' \in Seq(Requests)
    BY <2>1, <1>5, SubmitKeepsQueue DEF PragmasDone, Answered, TypeOK, Targets, Ops
  <2> QED BY <2>2, <2>3, <1>5 DEF PragmasDone, Answered, TypeOK, TaskTypes, LockTypes, lockVars, Targets
<1>6. CASE AcquireBlock(t)
  <2>1. queue' \in Seq(Requests)
    BY <1>6, SubmitKeepsQueue DEF AcquireBlock, TypeOK, Targets, Ops
  <2> QED BY <2>1, <1>6 DEF AcquireBlock, TypeOK, TaskTypes, LockTypes, StoreTypes, lockVars, dbVars, Targets
<1>7. CASE AcquireRefused(t)
  BY <1>7 DEF AcquireRefused, TypeOK, TaskTypes, LockTypes, StoreTypes, lockVars, dbVars,
            Targets, Calls, NoCall
<1>8. CASE CleanDone(t)
  <2>1. Head(queue) \in Requests /\ Tail(queue) \in Seq(Requests)
    BY <1>8, HeadIsRequest DEF CleanDone, Answered, TypeOK
  <2>2. StoreTypes'
    BY <2>1, <1>8, PerformKeepsTypes DEF CleanDone, TypeOK
  <2>3. queue' \in Seq(Requests)
    BY <2>1, <1>8, SubmitKeepsQueue DEF CleanDone, Answered, TypeOK, Targets, Ops
  <2> QED BY <2>2, <2>3, <1>8 DEF CleanDone, Answered, TypeOK, TaskTypes, LockTypes, lockVars, Targets
<1>9. CASE BeginDone(t)
  <2>1. Head(queue) \in Requests /\ Tail(queue) \in Seq(Requests)
    BY <1>9, HeadIsRequest DEF BeginDone, Answered, TypeOK
  <2>2. StoreTypes'
    BY <2>1, <1>9, PerformKeepsTypes DEF BeginDone, TypeOK
  <2>3. queue' \in Seq(Requests)
    BY <2>1, <1>9, SubmitKeepsQueue DEF BeginDone, Answered, TypeOK, Targets, Ops
  <2> QED BY <2>2, <2>3, <1>9 DEF BeginDone, Answered, TypeOK, TaskTypes, LockTypes, lockVars, Targets
<1> QED BY <1>1, <1>2, <1>3, <1>4, <1>5, <1>6, <1>7, <1>8, <1>9 DEF Enter

\* A statement keeps the types.
LEMMA StatementKeepsTypes ==
    ASSUME TypeOK, NEW t \in Tasks, Statement(t)
    PROVE  TypeOK'
<1> USE SqliteAssumption DEF Goto, Raise, EndCall, PCs, Entering, InCall, Leaving, Manual
<1>1. CASE Call(t)
  <2>1. PICK on \in Targets, many \in BOOLEAN :
               call' = [call EXCEPT ![t] = [on |-> on, many |-> many]]
    <3>1. ctx[t] \in Targets /\ Client \in Targets
      BY DEF TypeOK, TaskTypes, Targets
    <3> QED BY <3>1, <1>1 DEF Call
  <2>2. [on |-> on, many |-> many] \in Calls
    BY DEF Calls
  <2>3. call' \in [Tasks -> Calls]
    BY <2>1, <2>2 DEF TypeOK, TaskTypes
  <2> QED BY <2>3, <1>1 DEF Call, TypeOK, TaskTypes, LockTypes, StoreTypes, lockVars, dbVars
<1>2. CASE CallSubmit(t)
  <2>1. LockTypes'
    BY <1>2, TakeTargetKeepsTypes DEF CallSubmit, TypeOK
  <2>2. queue' \in Seq(Requests)
    BY <1>2, SubmitKeepsQueue DEF CallSubmit, FirstOp, TypeOK, TaskTypes, Calls, Ops
  <2> QED BY <2>1, <2>2, <1>2 DEF CallSubmit, FirstPc, TypeOK, TaskTypes, StoreTypes, dbVars
<1>3. CASE CallConnect(t)
  <2>1. LockTypes'
    BY <1>3, TakeTargetKeepsTypes DEF CallConnect, TypeOK
  <2> QED BY <2>1, <1>3 DEF CallConnect, TypeOK, TaskTypes, StoreTypes, dbVars
<1>4. CASE CallRefused(t)
  BY <1>4 DEF CallRefused, TypeOK, TaskTypes, LockTypes, StoreTypes, lockVars, dbVars,
            Targets, Calls, NoCall
<1>5. CASE CallPragmasDone(t)
  <2>1. Head(queue) \in Requests /\ Tail(queue) \in Seq(Requests)
    BY <1>5, HeadIsRequest DEF CallPragmasDone, Answered, TypeOK
  <2>2. StoreTypes'
    BY <2>1, <1>5, PerformKeepsTypes DEF CallPragmasDone, TypeOK
  <2>3. queue' \in Seq(Requests)
    BY <1>5, SubmitKeepsQueue DEF CallPragmasDone, Answered, FirstOp, TypeOK, TaskTypes, Calls, Ops
  <2> QED BY <2>2, <2>3, <1>5 DEF CallPragmasDone, FirstPc, TypeOK, TaskTypes, LockTypes, lockVars
<1>6. CASE StmtDone(t)
  <2>1. Head(queue) \in Requests /\ Tail(queue) \in Seq(Requests)
    BY <1>6, HeadIsRequest DEF StmtDone, Answered, TypeOK
  <2>2. StoreTypes' /\ LockTypes'
    BY <2>1, <1>6, PerformKeepsTypes, FreeTargetKeepsTypes DEF StmtDone, TypeOK
  <2> QED BY <2>1, <2>2, <1>6 DEF StmtDone, Answered, TypeOK, TaskTypes, Targets, Calls, NoCall
<1>7. CASE BulkBegun(t)
  <2>1. Head(queue) \in Requests /\ Tail(queue) \in Seq(Requests)
    BY <1>7, HeadIsRequest DEF BulkBegun, Answered, TypeOK
  <2>2. StoreTypes'
    BY <2>1, <1>7, PerformKeepsTypes DEF BulkBegun, TypeOK
  <2>3. queue' \in Seq(Requests)
    BY <2>1, <1>7, SubmitKeepsQueue DEF BulkBegun, Answered, TypeOK, Targets, Ops
  <2> QED BY <2>2, <2>3, <1>7 DEF BulkBegun, Answered, TypeOK, TaskTypes, LockTypes, lockVars, Targets
<1>8. CASE BulkInserted(t)
  <2>1. Head(queue) \in Requests /\ Tail(queue) \in Seq(Requests)
    BY <1>8, HeadIsRequest DEF BulkInserted, Answered, TypeOK
  <2>2. StoreTypes'
    BY <2>1, <1>8, PerformKeepsTypes DEF BulkInserted, TypeOK
  <2>3. queue' \in Seq(Requests)
    BY <2>1, <1>8, SubmitKeepsQueue DEF BulkInserted, Answered, TypeOK, Targets, Ops
  <2> QED BY <2>2, <2>3, <1>8 DEF BulkInserted, Answered, TypeOK, TaskTypes, LockTypes, lockVars, Targets
<1>9. CASE BulkFailed(t)
  <2>1. Head(queue) \in Requests /\ Tail(queue) \in Seq(Requests)
    BY <1>9, HeadIsRequest DEF BulkFailed, Answered, TypeOK
  <2>2. StoreTypes'
    BY <2>1, <1>9, PerformKeepsTypes DEF BulkFailed, TypeOK
  <2>3. queue' \in Seq(Requests)
    BY <2>1, <1>9, SubmitKeepsQueue DEF BulkFailed, Answered, TypeOK, Targets, Ops
  <2> QED BY <2>2, <2>3, <1>9 DEF BulkFailed, Answered, TypeOK, TaskTypes, LockTypes, lockVars, Targets
<1>10. CASE BulkEnded(t)
  <2>1. Head(queue) \in Requests /\ Tail(queue) \in Seq(Requests)
    BY <1>10, HeadIsRequest DEF BulkEnded, Answered, TypeOK
  <2>2. StoreTypes' /\ LockTypes'
    BY <2>1, <1>10, PerformKeepsTypes, FreeTargetKeepsTypes DEF BulkEnded, TypeOK
  <2> QED BY <2>1, <2>2, <1>10 DEF BulkEnded, Answered, TypeOK, TaskTypes, Targets, Calls, NoCall
<1> QED BY <1>1, <1>2, <1>3, <1>4, <1>5, <1>6, <1>7, <1>8, <1>9, <1>10 DEF Statement

\* Leaving a block, and the commit and rollback of the user's code, keep the types.
LEMMA ExitKeepsTypes ==
    ASSUME TypeOK, NEW t \in Tasks, Exit(t)
    PROVE  TypeOK'
<1> USE SqliteAssumption DEF Goto, Raise, EndCall, PCs, Entering, InCall, Leaving, Manual
<1>1. CASE ExitNested(t)
  BY <1>1 DEF ExitNested, InFrame, TypeOK, TaskTypes, LockTypes, StoreTypes, lockVars, dbVars,
            Targets, Calls, NoCall
<1>2. CASE ExitRollback(t)
  <2>1. queue' \in Seq(Requests)
    BY <1>2, SubmitKeepsQueue DEF ExitRollback, TypeOK, TaskTypes, Ops
  <2> QED BY <2>1, <1>2 DEF ExitRollback, InFrame, TypeOK, TaskTypes, LockTypes, StoreTypes,
            lockVars, dbVars
<1>3. CASE ExitCommit(t)
  <2>1. queue' \in Seq(Requests)
    BY <1>3, SubmitKeepsQueue DEF ExitCommit, TypeOK, TaskTypes, Ops
  <2> QED BY <2>1, <1>3 DEF ExitCommit, InFrame, TypeOK, TaskTypes, LockTypes, StoreTypes,
            lockVars, dbVars
<1>4. CASE ExitAsIs(t)
  BY <1>4 DEF ExitAsIs, InFrame, LeaveBlock, TypeOK, TaskTypes, LockTypes, StoreTypes, lockVars, dbVars,
            Targets, Calls, NoCall
<1>5. CASE ExitDone(t)
  <2>1. Head(queue) \in Requests /\ Tail(queue) \in Seq(Requests)
    BY <1>5, HeadIsRequest DEF ExitDone, Answered, TypeOK
  <2>2. StoreTypes'
    BY <2>1, <1>5, PerformKeepsTypes DEF ExitDone, TypeOK
  <2>3. final' \in [Tasks -> {"open", "committed", "rolledback"}]
    BY <1>5, FinaliseKeepsType DEF ExitDone, TypeOK
  <2>4. depth[t] - 1 \in 0..MaxDepth
    BY <1>5 DEF ExitDone, Answered, TypeOK, TaskTypes
  <2>5. /\ queue' \in Seq(Requests)
        /\ UNCHANGED <<exc, call, wlock, cancelled>>
    BY <2>1, <1>5 DEF ExitDone
  <2>6. CASE OuterFrame(t)
    <3>1. LeaveBlock(t)
      BY <2>6, <1>5 DEF ExitDone
    <3> QED BY <2>2, <2>3, <2>5, <3>1 DEF LeaveBlock, TypeOK, TaskTypes, LockTypes, Targets
  <2>7. CASE ~OuterFrame(t)
    <3>1. /\ pc' = [pc EXCEPT ![t] = "run"]
          /\ depth' = [depth EXCEPT ![t] = @ - 1]
          /\ UNCHANGED <<ctx, block, lock>>
      BY <2>7, <1>5 DEF ExitDone
    <3> QED BY <2>2, <2>3, <2>4, <2>5, <3>1 DEF TypeOK, TaskTypes, LockTypes
  <2> QED BY <2>6, <2>7
<1>6. CASE UserFinish(t)
  <2>1. ctx[t] \in Targets
    BY DEF TypeOK, TaskTypes
  <2>2. exc' \in [Tasks -> {"none", "err", "tme"}]
    BY <1>6 DEF UserFinish, TypeOK, TaskTypes
  <2>3. /\ pc' \in [Tasks -> PCs]
        /\ \A u \in Tasks : pc'[u] \in Leaving => pc[u] \in Leaving
    BY <1>6 DEF UserFinish, TypeOK, TaskTypes
  <2>4. queue' \in Seq(Requests)
    <3>1. CASE UNCHANGED queue
      BY <3>1 DEF TypeOK
    <3>2. CASE Submit(t, ctx[t], "commit") \/ Submit(t, ctx[t], "rollback")
      BY <2>1, <3>2, SubmitKeepsQueue DEF TypeOK, Ops
    <3> QED BY <3>1, <3>2, <1>6 DEF UserFinish
  <2>5. /\ UNCHANGED <<depth, ctx, call, block, final, lock, wlock, conn, cancelled>>
        /\ UNCHANGED <<dbtx, dirty, durable, lost>>
    BY <1>6 DEF UserFinish, lockVars, dbVars
  <2>6. TaskTypes' /\ LockTypes' /\ StoreTypes'
    BY <2>2, <2>3, <2>5 DEF TypeOK, TaskTypes, LockTypes, StoreTypes
  <2> QED BY <2>3, <2>4, <2>5, <2>6 DEF TypeOK
<1>7. CASE UserFinishDone(t)
  <2>1. Head(queue) \in Requests /\ Tail(queue) \in Seq(Requests)
    BY <1>7, HeadIsRequest DEF UserFinishDone, Answered, TypeOK
  <2>2. StoreTypes'
    BY <2>1, <1>7, PerformKeepsTypes DEF UserFinishDone, TypeOK
  <2>3. final' \in [Tasks -> {"open", "committed", "rolledback"}]
    BY <1>7, FinaliseKeepsType DEF UserFinishDone, TypeOK
  <2> QED BY <2>1, <2>2, <2>3, <1>7 DEF UserFinishDone, Answered, TypeOK, TaskTypes,
            LockTypes, lockVars
<1> QED BY <1>1, <1>2, <1>3, <1>4, <1>5, <1>6, <1>7 DEF Exit

\* The code around the ORM keeps the types.
LEMMA UserKeepsTypes ==
    ASSUME TypeOK, NEW t \in Tasks, User(t)
    PROVE  TypeOK'
<1> USE DEF Goto, Raise, PCs, Entering, InCall, Leaving, Manual
<1>1. CASE Throw(t)
  BY <1>1 DEF Throw, TypeOK, TaskTypes, LockTypes, StoreTypes, lockVars, dbVars
<1>2. CASE Catch(t)
  BY <1>2 DEF Catch, TypeOK, TaskTypes, LockTypes, StoreTypes, lockVars, dbVars
<1>3. CASE Finish(t)
  BY <1>3 DEF Finish, TypeOK, TaskTypes, LockTypes, StoreTypes, lockVars, dbVars
<1>4. ASSUME NEW c \in Tasks, Spawn(t, c)
      PROVE  TypeOK'
  BY <1>4 DEF Spawn, TypeOK, TaskTypes, LockTypes, StoreTypes, lockVars, dbVars
<1> QED BY <1>1, <1>2, <1>3, <1>4 DEF User

\* An exception out of an await keeps the types of what it touches.
LEMMA AbortKeepsTypes ==
    ASSUME TypeOK, NEW t \in Tasks, NEW e \in {"err", "tme"}, Abort(t, e),
           cancelled' \subseteq Tasks
    PROVE  /\ TaskTypes' /\ LockTypes'
           /\ \A u \in Tasks : pc'[u] \in Leaving => depth'[u] > 0
<1> DEFINE broken == pc[t] \in Entering \/ (pc[t] \in Leaving /\ OuterFrame(t))
           d == IF broken THEN 0 ELSE IF pc[t] \in Leaving THEN depth[t] - 1 ELSE depth[t]
<1>1. LockTypes'
  BY FreeTargetKeepsTypes DEF Abort, TypeOK, LockTypes, lockVars
<1>2. d \in 0..MaxDepth
  BY SqliteAssumption DEF TypeOK, TaskTypes
<1>3. depth' = [depth EXCEPT ![t] = d]
  BY DEF Abort, TypeOK, TaskTypes
<1>4. block' = [block EXCEPT ![t] = "failed"] \/ block' = block
  BY DEF Abort
<1>5. /\ pc' = [pc EXCEPT ![t] = "run"]
      /\ exc' = [exc EXCEPT ![t] = e]
      /\ call' = [call EXCEPT ![t] = NoCall]
      /\ UNCHANGED <<ctx, final>>
  BY DEF Abort, Goto, Raise
<1>6. NoCall \in Calls
  BY DEF NoCall, Calls, Targets
<1>7. "run" \in PCs /\ "run" \notin Leaving
  BY DEF PCs, Leaving
<1> HIDE DEF d
<1>8. TaskTypes'
  BY <1>2, <1>3, <1>4, <1>5, <1>6, <1>7 DEF TypeOK, TaskTypes
<1>9. \A u \in Tasks : pc'[u] \in Leaving => depth'[u] > 0
  BY <1>3, <1>5, <1>7 DEF TypeOK, TaskTypes
<1> QED BY <1>1, <1>8, <1>9

\* Marking the requests of a cancelled task keeps a queue of requests.
LEMMA CancelKeepsQueue ==
    ASSUME queue \in Seq(Requests), NEW t \in Tasks, Cancel(t)
    PROVE  queue' \in Seq(Requests)
<1>1. \A r \in Requests : [r EXCEPT !.live = FALSE] \in Requests
  BY DEF Requests
<1>2. Len(queue) \in Nat
  OBVIOUS
<1>3. \A i \in 1..Len(queue) : queue[i] \in Requests
  OBVIOUS
<1>4. queue' = [i \in 1..Len(queue) |->
                  IF queue[i].by = t THEN [queue[i] EXCEPT !.live = FALSE]
                                     ELSE queue[i]]
  BY DEF Cancel
<1> QED BY <1>1, <1>2, <1>3, <1>4

\* Failures and cancellations keep the types.
LEMMA FaultKeepsTypes ==
    ASSUME TypeOK, NEW t \in Tasks, Fault(t)
    PROVE  TypeOK'
<1>1. CASE RequestFails(t)
  <2>1. Head(queue) \in Requests /\ Tail(queue) \in Seq(Requests)
    BY <1>1, HeadIsRequest DEF RequestFails, Answered, TypeOK
  <2>2. StoreTypes'
    BY <2>1, <1>1, PerformKeepsTypes DEF RequestFails, TypeOK
  <2>3. PICK e \in {"err", "tme"} : Abort(t, e)
    BY <1>1 DEF RequestFails
  <2>4. cancelled' \subseteq Tasks
    BY <1>1 DEF RequestFails, TypeOK, TaskTypes
  <2>5. queue' \in Seq(Requests)
    BY <2>1, <1>1 DEF RequestFails
  <2> QED BY <2>2, <2>3, <2>4, <2>5, AbortKeepsTypes DEF TypeOK
<1>2. CASE ConnectFails(t)
  <2>1. Abort(t, "err") /\ cancelled' \subseteq Tasks
    BY <1>2 DEF ConnectFails, TypeOK, TaskTypes
  <2>2. StoreTypes' /\ queue' \in Seq(Requests)
    BY <1>2 DEF ConnectFails, TypeOK, StoreTypes, dbVars
  <2> QED BY <2>1, <2>2, AbortKeepsTypes DEF TypeOK
<1>3. CASE Cancel(t)
  <2>1. Abort(t, "err") /\ cancelled' \subseteq Tasks
    BY <1>3 DEF Cancel, TypeOK, TaskTypes
  <2>2. queue' \in Seq(Requests)
    BY <1>3, CancelKeepsQueue DEF TypeOK
  <2>3. StoreTypes'
    BY <1>3 DEF Cancel, TypeOK, StoreTypes, dbVars
  <2> QED BY <2>1, <2>2, <2>3, AbortKeepsTypes DEF TypeOK
<1> QED BY <1>1, <1>2, <1>3 DEF Fault

\* The worker's execution of an abandoned request keeps the types.
LEMMA OrphanKeepsTypes ==
    ASSUME TypeOK, OrphanDone
    PROVE  TypeOK'
<1>1. Head(queue) \in Requests /\ Tail(queue) \in Seq(Requests)
  BY HeadIsRequest DEF OrphanDone, TypeOK
<1>2. StoreTypes'
  BY <1>1, PerformKeepsTypes DEF OrphanDone, TypeOK
<1> QED BY <1>1, <1>2 DEF OrphanDone, TypeOK, TaskTypes, LockTypes, taskVars, lockVars

\* Every variable keeps its type, and a task that ends a block is inside of one.
THEOREM TypeCorrect == Spec => []TypeOK
<1>1. Init => TypeOK
  BY SqliteAssumption DEF Init, TypeOK, TaskTypes, LockTypes, StoreTypes, PCs, Targets,
     Calls, NoCall, Entering, InCall, Leaving, Manual
<1>2. TypeOK /\ [Next]_vars => TypeOK'
  <2> SUFFICES ASSUME TypeOK, [Next]_vars
               PROVE  TypeOK'
    OBVIOUS
  <2>1. ASSUME NEW t \in Tasks, Enter(t) \/ Statement(t) \/ Exit(t) \/ User(t) \/ Fault(t)
        PROVE  TypeOK'
    BY <2>1, EnterKeepsTypes, StatementKeepsTypes, ExitKeepsTypes, UserKeepsTypes,
       FaultKeepsTypes
  <2>2. CASE Terminating \/ UNCHANGED vars
    BY <2>2 DEF Terminating, vars, TypeOK, TaskTypes, LockTypes, StoreTypes
  <2> QED BY <2>1, <2>2, OrphanKeepsTypes DEF Next
<1> QED BY <1>1, <1>2, PTL DEF Spec

-----------------------------------------------------------------------------
(* Mutual exclusion under SqliteClient._lock *)

ClientCall(t) == pc[t] \in InCall /\ call[t].on = Client

\* The inductive invariant: a task that runs a statement on the client itself is
\* not inside of a block of its own, or its lock would be released twice.
LockInv ==
    /\ LockExclusion
    /\ \A t \in Tasks : ClientCall(t) => block[t] # "open"

\* What an action of task t has to show: the others are where they were, and t
\* changes the lock in one of three ways.
LEMMA LockStep ==
    ASSUME TypeOK, LockInv, NEW t \in Tasks,
           \A u \in Tasks \ {t} :
               pc'[u] = pc[u] /\ block'[u] = block[u] /\ call'[u] = call[u],
           ClientCall(t)' => block'[t] # "open",
           \/ lock' = lock /\ (UnderLock(t)' => lock = t)
           \/ lock = NoTask /\ lock' = t
           \/ lock = t /\ lock' = NoTask /\ ~UnderLock(t)'
    PROVE  LockInv'
<1>1. \A u \in Tasks \ {t} :
        (UnderLock(u)' <=> UnderLock(u)) /\ (ClientCall(u)' <=> ClientCall(u))
  BY DEF UnderLock, ClientCall
<1>2. NoTask \notin Tasks
  BY SqliteAssumption
<1>3. \A u \in Tasks : UnderLock(u)' => lock' = u
  BY <1>1, <1>2 DEF LockInv, LockExclusion
<1>4. \A u \in Tasks : ClientCall(u)' => block'[u] # "open"
  BY <1>1 DEF LockInv
<1> QED BY <1>3, <1>4 DEF LockInv, LockExclusion

\* Entering a block keeps the exclusion.
LEMMA EnterKeepsLock ==
    ASSUME TypeOK, LockInv, NEW t \in Tasks, Enter(t)
    PROVE  LockInv'
<1> USE DEF Goto, Raise, EndCall, Entering, InCall, Leaving, UnderLock, ClientCall
<1>1. CASE EnterBlock(t)
  BY <1>1, LockStep DEF EnterBlock, TypeOK, TaskTypes, LockInv, LockExclusion,
            lockVars
<1>2. CASE EnterNested(t)
  BY <1>2, LockStep DEF EnterNested, TypeOK, TaskTypes, LockInv, LockExclusion,
            lockVars
<1>3. CASE Connected(t)
  BY <1>3, LockStep DEF Connected, TypeOK, TaskTypes, LockInv, LockExclusion,
            lockVars
<1>4. CASE PragmaNext(t)
  BY <1>4, LockStep DEF PragmaNext, TypeOK, TaskTypes, LockInv, LockExclusion,
            lockVars, Answered
<1>5. CASE PragmasDone(t)
  BY <1>5, LockStep DEF PragmasDone, TypeOK, TaskTypes, LockInv, LockExclusion,
            lockVars, Answered
<1>6. CASE AcquireBlock(t)
  BY <1>6, LockStep DEF AcquireBlock, TypeOK, TaskTypes, LockInv, LockExclusion,
            lockVars
<1>7. CASE AcquireRefused(t)
  BY <1>7, LockStep DEF AcquireRefused, TypeOK, TaskTypes, LockInv, LockExclusion,
            lockVars
<1>8. CASE CleanDone(t)
  BY <1>8, LockStep DEF CleanDone, TypeOK, TaskTypes, LockInv, LockExclusion,
            lockVars, Answered
<1>9. CASE BeginDone(t)
  BY <1>9, LockStep DEF BeginDone, TypeOK, TaskTypes, LockInv, LockExclusion,
            lockVars, Answered
<1> QED BY <1>1, <1>2, <1>3, <1>4, <1>5, <1>6, <1>7, <1>8, <1>9 DEF Enter

\* A statement keeps the exclusion.
LEMMA StatementKeepsLock ==
    ASSUME TypeOK, LockInv, NEW t \in Tasks, Statement(t)
    PROVE  LockInv'
<1> USE DEF Goto, Raise, EndCall, Entering, InCall, Leaving, UnderLock, ClientCall
<1>1. CASE Call(t)
  BY <1>1, LockStep DEF Call, TypeOK, TaskTypes, LockInv, LockExclusion,
            lockVars
<1>2. CASE CallSubmit(t)
  <2>1. \A u \in Tasks \ {t} : pc'[u] = pc[u] /\ block'[u] = block[u] /\ call'[u] = call[u]
    BY <1>2 DEF CallSubmit, TypeOK, TaskTypes
  <2>2. pc'[t] \in InCall /\ block' = block /\ call' = call
    BY <1>2 DEF CallSubmit, FirstPc, TypeOK, TaskTypes
  <2>3. CASE call[t].on = Client
    <3>1. lock = NoTask /\ lock' = t
      BY <2>3, <1>2 DEF CallSubmit, TargetFree, TakeTarget
    <3>2. block[t] # "open"
      BY <3>1, SqliteAssumption DEF LockInv, LockExclusion
    <3> QED BY <2>1, <2>2, <3>1, <3>2, LockStep
  <2>4. CASE call[t].on # Client
    <3>1. lock' = lock
      BY <2>4, <1>2 DEF CallSubmit, TakeTarget
    <3>2. ~ClientCall(t)' /\ (UnderLock(t)' => block[t] = "open")
      BY <2>2, <2>4
    <3>3. block[t] = "open" => lock = t
      BY DEF LockInv, LockExclusion
    <3> QED BY <2>1, <3>1, <3>2, <3>3, LockStep
  <2> QED BY <2>3, <2>4
<1>3. CASE CallConnect(t)
  <2>1. \A u \in Tasks \ {t} : pc'[u] = pc[u] /\ block'[u] = block[u] /\ call'[u] = call[u]
    BY <1>3 DEF CallConnect, TypeOK, TaskTypes
  <2>2. pc'[t] \in InCall /\ block' = block /\ call' = call
    BY <1>3 DEF CallConnect, TypeOK, TaskTypes
  <2>3. CASE call[t].on = Client
    <3>1. lock = NoTask /\ lock' = t
      BY <2>3, <1>3 DEF CallConnect, TargetFree, TakeTarget
    <3>2. block[t] # "open"
      BY <3>1, SqliteAssumption DEF LockInv, LockExclusion
    <3> QED BY <2>1, <2>2, <3>1, <3>2, LockStep
  <2>4. CASE call[t].on # Client
    <3>1. lock' = lock
      BY <2>4, <1>3 DEF CallConnect, TakeTarget
    <3>2. ~ClientCall(t)' /\ (UnderLock(t)' => block[t] = "open")
      BY <2>2, <2>4
    <3>3. block[t] = "open" => lock = t
      BY DEF LockInv, LockExclusion
    <3> QED BY <2>1, <3>1, <3>2, <3>3, LockStep
  <2> QED BY <2>3, <2>4
<1>4. CASE CallRefused(t)
  BY <1>4, LockStep DEF CallRefused, TypeOK, TaskTypes, LockInv, LockExclusion,
            lockVars, NoCall
<1>5. CASE CallPragmasDone(t)
  BY <1>5, LockStep DEF CallPragmasDone, TypeOK, TaskTypes, LockInv, LockExclusion,
            lockVars, Answered, FirstPc
<1>6. CASE StmtDone(t)
  BY <1>6, LockStep DEF StmtDone, TypeOK, TaskTypes, LockInv, LockExclusion,
            lockVars, Answered, FreeTarget
<1>7. CASE BulkBegun(t)
  BY <1>7, LockStep DEF BulkBegun, TypeOK, TaskTypes, LockInv, LockExclusion,
            lockVars, Answered
<1>8. CASE BulkInserted(t)
  BY <1>8, LockStep DEF BulkInserted, TypeOK, TaskTypes, LockInv, LockExclusion,
            lockVars, Answered
<1>9. CASE BulkFailed(t)
  BY <1>9, LockStep DEF BulkFailed, TypeOK, TaskTypes, LockInv, LockExclusion,
            lockVars, Answered
<1>10. CASE BulkEnded(t)
  BY <1>10, LockStep DEF BulkEnded, TypeOK, TaskTypes, LockInv, LockExclusion,
            lockVars, Answered, FreeTarget
<1> QED BY <1>1, <1>2, <1>3, <1>4, <1>5, <1>6, <1>7, <1>8, <1>9, <1>10 DEF Statement

\* Leaving a block keeps the exclusion.
LEMMA ExitKeepsLock ==
    ASSUME TypeOK, LockInv, NEW t \in Tasks, Exit(t)
    PROVE  LockInv'
<1> USE DEF Goto, Raise, EndCall, Entering, InCall, Leaving, UnderLock, ClientCall
<1>1. CASE ExitNested(t)
  BY <1>1, LockStep DEF ExitNested, TypeOK, TaskTypes, LockInv, LockExclusion,
            lockVars, InFrame
<1>2. CASE ExitRollback(t)
  BY <1>2, LockStep DEF ExitRollback, TypeOK, TaskTypes, LockInv, LockExclusion,
            lockVars, InFrame
<1>3. CASE ExitCommit(t)
  BY <1>3, LockStep DEF ExitCommit, TypeOK, TaskTypes, LockInv, LockExclusion,
            lockVars, InFrame
<1>4. CASE ExitAsIs(t)
  BY <1>4, LockStep DEF ExitAsIs, TypeOK, TaskTypes, LockInv, LockExclusion,
            lockVars, InFrame, OuterFrame, LeaveBlock
<1>5. CASE ExitDone(t)
  <2>1. pc[t] \in Leaving /\ UNCHANGED call
    BY <1>5 DEF ExitDone, Answered
  <2>2. CASE OuterFrame(t)
    <3>1. LeaveBlock(t)
      BY <2>2, <1>5 DEF ExitDone
    <3>2. lock = t
      BY <2>2 DEF OuterFrame, LockInv, LockExclusion
    <3> QED BY <2>1, <3>1, <3>2, LockStep DEF LeaveBlock, TypeOK, TaskTypes
  <2>3. CASE ~OuterFrame(t)
    <3>1. /\ pc' = [pc EXCEPT ![t] = "run"]
          /\ UNCHANGED <<block, lock>>
      BY <2>3, <1>5 DEF ExitDone
    <3> QED BY <2>1, <3>1, LockStep DEF TypeOK, TaskTypes, LockInv, LockExclusion
  <2> QED BY <2>2, <2>3
<1>6. CASE UserFinish(t)
  BY <1>6, LockStep DEF UserFinish, TypeOK, TaskTypes, LockInv, LockExclusion,
            lockVars
<1>7. CASE UserFinishDone(t)
  BY <1>7, LockStep DEF UserFinishDone, TypeOK, TaskTypes, LockInv, LockExclusion,
            lockVars, Answered
<1> QED BY <1>1, <1>2, <1>3, <1>4, <1>5, <1>6, <1>7 DEF Exit

\* The code around the ORM keeps the exclusion.
LEMMA UserKeepsLock ==
    ASSUME TypeOK, LockInv, NEW t \in Tasks, User(t)
    PROVE  LockInv'
<1> USE DEF Goto, Raise, Entering, InCall, Leaving, UnderLock, ClientCall
<1>1. CASE Throw(t)
  BY <1>1, LockStep DEF Throw, InFrame, LockInv, LockExclusion, lockVars
<1>2. CASE Catch(t)
  BY <1>2, LockStep DEF Catch, LockInv, LockExclusion, lockVars
<1>3. CASE Finish(t)
  BY <1>3, LockStep DEF Finish, TypeOK, TaskTypes, LockInv, LockExclusion, lockVars
<1>4. ASSUME NEW c \in Tasks, Spawn(t, c)
      PROVE  LockInv'
  BY <1>4, LockStep DEF Spawn, TypeOK, TaskTypes, LockInv, LockExclusion, lockVars
<1> QED BY <1>1, <1>2, <1>3, <1>4 DEF User

\* An exception out of an await keeps the exclusion: it gives back the lock of a
\* statement, and no other.
LEMMA AbortKeepsLock ==
    ASSUME TypeOK, LockInv, NEW t \in Tasks, NEW e, Abort(t, e)
    PROVE  LockInv'
<1>1. /\ pc' = [pc EXCEPT ![t] = "run"]
      /\ call' = [call EXCEPT ![t] = NoCall]
      /\ block' = [block EXCEPT ![t] = "failed"] \/ block' = block
  BY DEF Abort, Goto
<1>2. pc'[t] = "run" /\ ~ClientCall(t)'
  BY <1>1 DEF TypeOK, TaskTypes, ClientCall, InCall
<1>3. UnderLock(t)' => block[t] = "open"
  BY <1>1, <1>2 DEF UnderLock, ClientCall, TypeOK, TaskTypes
<1>4. \/ lock' = lock
      \/ lock' = NoTask /\ ClientCall(t)
  BY DEF Abort, FreeTarget, lockVars, ClientCall
<1>5. ClientCall(t) => lock = t /\ block[t] # "open"
  BY DEF LockInv, LockExclusion, UnderLock, ClientCall
<1>6. block[t] = "open" => lock = t
  BY DEF LockInv, LockExclusion, UnderLock
<1>7. \A u \in Tasks \ {t} : pc'[u] = pc[u] /\ block'[u] = block[u] /\ call'[u] = call[u]
  BY <1>1 DEF TypeOK, TaskTypes
<1> QED BY <1>2, <1>3, <1>4, <1>5, <1>6, <1>7, LockStep

\* No failure and no cancellation breaks the exclusion.
LEMMA FaultKeepsLock ==
    ASSUME TypeOK, LockInv, NEW t \in Tasks, Fault(t)
    PROVE  LockInv'
<1>1. PICK e : Abort(t, e)
  BY DEF Fault, RequestFails, ConnectFails, Cancel
<1> QED BY <1>1, AbortKeepsLock

\* LockExclusion, whatever fails or is cancelled: tasks inside of a transaction,
\* starting one or running a statement on the client exclude each other.
THEOREM MutualExclusion == Spec => []LockExclusion
<1>1. Init => LockInv
  BY DEF Init, LockInv, LockExclusion, UnderLock, ClientCall, InCall, NoCall
<1>2. TypeOK /\ LockInv /\ [Next]_vars => LockInv'
  <2> SUFFICES ASSUME TypeOK, LockInv, [Next]_vars
               PROVE  LockInv'
    OBVIOUS
  <2>1. ASSUME NEW t \in Tasks, Enter(t) \/ Statement(t) \/ Exit(t) \/ User(t) \/ Fault(t)
        PROVE  LockInv'
    BY <2>1, EnterKeepsLock, StatementKeepsLock, ExitKeepsLock, UserKeepsLock, FaultKeepsLock
  <2>2. CASE OrphanDone \/ Terminating \/ UNCHANGED vars
    BY <2>2 DEF OrphanDone, Terminating, vars, taskVars, lockVars, LockInv, LockExclusion,
       UnderLock, ClientCall
  <2> QED BY <2>1, <2>2 DEF Next
<1>3. LockInv => LockExclusion
  BY DEF LockInv
<1> QED BY <1>1, <1>2, <1>3, TypeCorrect, PTL DEF Spec

-----------------------------------------------------------------------------
(* Nobody leaves a transaction open: without cancellations, failing commits and *)
(* foreign TransactionManagementErrors, the free lock means a clean connection  *)

\* Which request a suspended task waits for.
Awaits(p, op) ==
    \/ p \in {"pragmas", "callpragmas"} /\ op \in {"setup", "foreignkeys"}
    \/ p = "stmt" /\ op \in {"stmt", "many"}
    \/ p = "bulkrows" /\ op = "many"
    \/ p \in {"beginning", "bulkbegin"} /\ op = "begin"
    \/ p \in {"cleaning", "bulkcommit", "committing", "usercommit"} /\ op = "commit"
    \/ p \in {"bulkrollback", "rollingback", "userrollback"} /\ op = "rollback"

NoRequest == {"idle", "run", "waiting", "done", "locking", "connecting", "callconnect"}

\* Every request is awaited by its task, which has no other.
QueueInv ==
    /\ \A i \in 1..Len(queue) :
         queue[i].live /\ Awaits(pc[queue[i].by], queue[i].op)
    /\ \A i, j \in 1..Len(queue) : queue[i].by = queue[j].by => i = j

BulkPcs == {"bulkbegin", "bulkrows", "bulkcommit", "bulkrollback"}

\* How a task's own block, its context and its position go together.
BlockOf(t) ==
    /\ pc[t] \in Entering => block[t] = "entering" /\ exc[t] = "none"
    /\ pc[t] \in {"cleaning", "beginning"} => ctx[t] = t
    /\ pc[t] \in BulkPcs => call[t].on = Client
    /\ pc[t] = "idle" => block[t] = "none"
    /\ block[t] = "open" => ctx[t] = t
    /\ block[t] \in {"none", "entering"} => final[t] = "open"
    /\ block[t] = "open" /\ exc[t] = "tme" => final[t] # "open"
    /\ ctx[t] \in Tasks =>
         \/ block[ctx[t]] \notin {"none", "entering"}
         \/ ctx[t] = t /\ pc[t] \in {"cleaning", "beginning"}

BlockInv == \A t \in Tasks : BlockOf(t)

\* An open database transaction belongs to a task inside of its block, which has
\* not finalised it, or inside of execute_many.
OwnerOf(t) ==
    \/ block[t] = "open" /\ final[t] = "open"
    \/ pc[t] \in BulkPcs \ {"bulkbegin"}

OwnerInv ==
    /\ dirty # {} => dbtx # NoTask
    /\ dbtx # NoTask => OwnerOf(dbtx)

TxInv == QueueInv /\ BlockInv /\ OwnerInv

\* Requests come from tasks.
LEMMA RequestOwners ==
    ASSUME queue \in Seq(Requests)
    PROVE  \A i \in 1..Len(queue) : queue[i].by \in Tasks
<1>1. \A i \in 1..Len(queue) : queue[i] \in Requests
  OBVIOUS
<1>2. \A r \in Requests : r.by \in Tasks
  BY DEF Requests
<1> QED BY <1>1, <1>2

\* A step that leaves the queue alone, of a task without a request.
LEMMA QueueQuiet ==
    ASSUME TypeOK, QueueInv, NEW t \in Tasks, pc[t] \in NoRequest,
           queue' = queue, \A u \in Tasks \ {t} : pc'[u] = pc[u]
    PROVE  QueueInv'
<1>1. \A i \in 1..Len(queue) : queue[i].by \in Tasks
  BY RequestOwners DEF TypeOK
<1>2. \A i \in 1..Len(queue) : queue[i].by # t
  BY DEF QueueInv, Awaits, NoRequest
<1> QED BY <1>1, <1>2 DEF QueueInv

\* A task without a request submits one and waits for it.
LEMMA QueueSubmit ==
    ASSUME TypeOK, QueueInv, NEW t \in Tasks, pc[t] \in NoRequest,
           NEW on \in Targets, NEW op \in Ops, Submit(t, on, op), Awaits(pc'[t], op),
           \A u \in Tasks \ {t} : pc'[u] = pc[u]
    PROVE  QueueInv'
<1>1. \A i \in 1..Len(queue) : queue[i].by \in Tasks
  BY RequestOwners DEF TypeOK
<1>2. \A i \in 1..Len(queue) : queue[i].by # t
  BY DEF QueueInv, Awaits, NoRequest
<1>3. Len(queue) \in Nat /\ Request(t, on, op) \in Requests
  BY DEF TypeOK, Request, Requests
<1>4. /\ Len(queue') = Len(queue) + 1
      /\ \A i \in 1..Len(queue) : queue'[i] = queue[i]
      /\ queue'[Len(queue) + 1] = Request(t, on, op)
  BY <1>3 DEF Submit, TypeOK
<1>5. /\ Request(t, on, op).live
      /\ Request(t, on, op).by = t
      /\ Request(t, on, op).op = op
  BY DEF Request
<1>6. \A i \in 1..Len(queue') : i \in 1..Len(queue) \/ i = Len(queue) + 1
  BY <1>3, <1>4
<1> QED BY <1>1, <1>2, <1>4, <1>5, <1>6 DEF QueueInv

\* The task that was waiting for the head of the queue goes on.
LEMMA QueueTail ==
    ASSUME TypeOK, QueueInv, NEW t \in Tasks, Answered(t, pc[t]),
           queue' = Tail(queue), \A u \in Tasks \ {t} : pc'[u] = pc[u]
    PROVE  QueueInv' /\ \A i \in 1..Len(queue') : queue'[i].by \in Tasks \ {t}
<1>1. \A i \in 1..Len(queue) : queue[i].by \in Tasks
  BY RequestOwners DEF TypeOK
<1>2. Len(queue) \in Nat \ {0} /\ Head(queue) = queue[1]
  BY DEF TypeOK, Answered
<1>3. /\ Len(queue') = Len(queue) - 1
      /\ \A i \in 1..Len(queue') : queue'[i] = queue[i + 1] /\ i + 1 \in 1..Len(queue)
  BY <1>2 DEF TypeOK
<1>4. \A i \in 1..Len(queue') : queue'[i].by # t
  BY <1>2, <1>3 DEF QueueInv, Answered
<1> QED BY <1>1, <1>2, <1>3, <1>4 DEF QueueInv

\* ... and at once submits its next request.
LEMMA QueueNext ==
    ASSUME TypeOK, QueueInv, NEW t \in Tasks, Answered(t, pc[t]),
           NEW on \in Targets, NEW op \in Ops, SubmitNext(t, on, op), Awaits(pc'[t], op),
           \A u \in Tasks \ {t} : pc'[u] = pc[u]
    PROVE  QueueInv'
<1>1. \A i \in 1..Len(queue) : queue[i].by \in Tasks
  BY RequestOwners DEF TypeOK
<1>2. Len(queue) \in Nat \ {0} /\ Head(queue) = queue[1]
  BY DEF TypeOK, Answered
<1>3. Tail(queue) \in Seq(Requests) /\ Request(t, on, op) \in Requests
  BY HeadIsRequest DEF TypeOK, Answered, Request, Requests
<1>4. /\ Len(Tail(queue)) = Len(queue) - 1
      /\ \A i \in 1..Len(Tail(queue)) : Tail(queue)[i] = queue[i + 1] /\ i + 1 \in 1..Len(queue)
  BY <1>2 DEF TypeOK
<1>5. /\ Len(queue') = Len(queue)
      /\ \A i \in 1..(Len(queue) - 1) : queue'[i] = queue[i + 1] /\ i + 1 \in 1..Len(queue)
      /\ queue'[Len(queue)] = Request(t, on, op)
  BY <1>2, <1>3, <1>4 DEF SubmitNext
<1>6. \A i \in 1..(Len(queue) - 1) : queue'[i].by # t
  BY <1>2, <1>5 DEF QueueInv, Answered
<1>7. /\ Request(t, on, op).live
      /\ Request(t, on, op).by = t
      /\ Request(t, on, op).op = op
  BY DEF Request
<1>8. \A i \in 1..Len(queue') : i \in 1..(Len(queue) - 1) \/ i = Len(queue)
  BY <1>2, <1>5
<1>9. \A i \in 1..Len(queue') :
        queue'[i].live /\ Awaits(pc'[queue'[i].by], queue'[i].op)
  BY <1>1, <1>5, <1>6, <1>7, <1>8 DEF QueueInv
<1>10. \A i, j \in 1..Len(queue') : queue'[i].by = queue'[j].by => i = j
  BY <1>2, <1>5, <1>6, <1>7, <1>8 DEF QueueInv
<1> QED BY <1>9, <1>10 DEF QueueInv

\* The steps that leave the queue alone.
LEMMA QuietSteps ==
    ASSUME TypeOK, QueueInv, NEW t \in Tasks,
           EnterBlock(t) \/ EnterNested(t) \/ AcquireRefused(t) \/ Call(t)
           \/ CallConnect(t) \/ CallRefused(t) \/ ExitNested(t) \/ ExitAsIs(t) \/ Throw(t)
           \/ Catch(t) \/ Finish(t) \/ ConnectFails(t)
    PROVE  QueueInv'
<1> USE DEF NoRequest, Goto, EndCall, TypeOK, TaskTypes
<1>1. CASE EnterBlock(t)
  BY <1>1, QueueQuiet DEF EnterBlock
<1>2. CASE EnterNested(t)
  BY <1>2, QueueQuiet DEF EnterNested
<1>3. CASE AcquireRefused(t)
  BY <1>3, QueueQuiet DEF AcquireRefused
<1>4. CASE Call(t)
  BY <1>4, QueueQuiet DEF Call
<1>5. CASE CallConnect(t)
  BY <1>5, QueueQuiet DEF CallConnect
<1>6. CASE CallRefused(t)
  BY <1>6, QueueQuiet DEF CallRefused
<1>7. CASE ExitNested(t)
  BY <1>7, QueueQuiet DEF ExitNested, InFrame
<1>8. CASE ExitAsIs(t)
  BY <1>8, QueueQuiet DEF ExitAsIs, InFrame, LeaveBlock
<1>9. CASE Throw(t)
  BY <1>9, QueueQuiet DEF Throw, InFrame
<1>10. CASE Catch(t)
  BY <1>10, QueueQuiet DEF Catch
<1>11. CASE Finish(t)
  BY <1>11, QueueQuiet DEF Finish
<1>12. CASE ConnectFails(t)
  BY <1>12, QueueQuiet DEF ConnectFails, Abort
<1> QED BY <1>1, <1>2, <1>3, <1>4, <1>5, <1>6, <1>7, <1>8, <1>9, <1>10, <1>11, <1>12

\* The steps that submit a task's first request.
LEMMA SubmitSteps ==
    ASSUME TypeOK, QueueInv, NEW t \in Tasks,
           Connected(t) \/ AcquireBlock(t) \/ CallSubmit(t) \/ ExitRollback(t)
           \/ ExitCommit(t)
    PROVE  QueueInv'
<1> USE DEF NoRequest, Goto, TypeOK, TaskTypes, Targets, Ops, Awaits
<1>1. CASE Connected(t)
  BY <1>1, QueueSubmit DEF Connected
<1>2. CASE AcquireBlock(t)
  BY <1>2, QueueSubmit DEF AcquireBlock
<1>3. CASE CallSubmit(t)
  BY <1>3, QueueSubmit DEF CallSubmit, FirstOp, FirstPc, Calls, BulkAlone
<1>4. CASE ExitRollback(t)
  BY <1>4, QueueSubmit DEF ExitRollback, InFrame
<1>5. CASE ExitCommit(t)
  BY <1>5, QueueSubmit DEF ExitCommit, InFrame
<1> QED BY <1>1, <1>2, <1>3, <1>4, <1>5

\* The steps that end a task's wait.
LEMMA TailSteps ==
    ASSUME TypeOK, QueueInv, NEW t \in Tasks,
           PragmasDone(t) \/ BeginDone(t) \/ StmtDone(t) \/ BulkEnded(t) \/ ExitDone(t)
           \/ UserFinishDone(t) \/ RequestFails(t)
    PROVE  QueueInv'
<1> USE DEF Answered, Goto, EndCall, TypeOK, TaskTypes
<1>1. CASE PragmasDone(t)
  BY <1>1, QueueTail DEF PragmasDone
<1>2. CASE BeginDone(t)
  BY <1>2, QueueTail DEF BeginDone
<1>3. CASE StmtDone(t)
  BY <1>3, QueueTail DEF StmtDone
<1>4. CASE BulkEnded(t)
  BY <1>4, QueueTail DEF BulkEnded
<1>5. CASE ExitDone(t)
  BY <1>5, QueueTail DEF ExitDone, LeaveBlock
<1>6. CASE UserFinishDone(t)
  BY <1>6, QueueTail DEF UserFinishDone
<1>7. CASE RequestFails(t)
  BY <1>7, QueueTail DEF RequestFails, Abort
<1> QED BY <1>1, <1>2, <1>3, <1>4, <1>5, <1>6, <1>7

\* The steps that go from one request to the next.
LEMMA NextSteps ==
    ASSUME TypeOK, QueueInv, NEW t \in Tasks,
           PragmaNext(t) \/ CleanDone(t) \/ CallPragmasDone(t) \/ BulkBegun(t)
           \/ BulkInserted(t) \/ BulkFailed(t)
    PROVE  QueueInv'
<1> USE DEF Answered, Goto, TypeOK, TaskTypes, Targets, Ops, Awaits
<1>1. CASE PragmaNext(t)
  BY <1>1, QueueNext DEF PragmaNext
<1>2. CASE CleanDone(t)
  BY <1>2, QueueNext DEF CleanDone
<1>3. CASE CallPragmasDone(t)
  BY <1>3, QueueNext DEF CallPragmasDone, FirstOp, FirstPc, Calls, BulkAlone
<1>4. CASE BulkBegun(t)
  BY <1>4, QueueNext DEF BulkBegun
<1>5. CASE BulkInserted(t)
  BY <1>5, QueueNext DEF BulkInserted
<1>6. CASE BulkFailed(t)
  BY <1>6, QueueNext DEF BulkFailed
<1> QED BY <1>1, <1>2, <1>3, <1>4, <1>5, <1>6

\* What an action of task t has to show: the others are where they were, only
\* wrappers that are in use are finalised, and t's own block goes forward.
LEMMA BlockStep ==
    ASSUME TypeOK, BlockInv, NEW t \in Tasks,
           \A u \in Tasks \ {t} :
               /\ pc'[u] = pc[u] /\ exc'[u] = exc[u] /\ ctx'[u] = ctx[u]
               /\ call'[u] = call[u] /\ block'[u] = block[u],
           \A w \in Tasks :
               \/ final'[w] = final[w]
               \/ block[w] \notin {"none", "entering"} /\ final'[w] # "open",
           block'[t] \in {"none", "entering"} => block[t] \in {"none", "entering"},
           BlockOf(t)'
    PROVE  BlockInv'
<1> SUFFICES ASSUME NEW u \in Tasks \ {t}
             PROVE  BlockOf(u)'
  BY DEF BlockInv
<1>1. BlockOf(u)
  BY DEF BlockInv
<1>2. ctx[u] \in Tasks \ {t} => block'[ctx[u]] = block[ctx[u]]
  OBVIOUS
<1>3. ctx[u] = t => block[t] \notin {"none", "entering"}
  BY <1>1 DEF BlockOf
<1> QED BY <1>1, <1>2, <1>3 DEF BlockOf

\* Entering a block.
LEMMA BlockEnter ==
    ASSUME TypeOK, BlockInv, NEW t \in Tasks, Enter(t)
    PROVE  BlockInv'
<1> USE SqliteAssumption, BlockStep DEF Goto, Raise, EndCall, Entering, BulkPcs, BlockOf, BlockInv,
        TypeOK, TaskTypes
<1>1. CASE EnterBlock(t)
  BY <1>1 DEF EnterBlock
<1>2. CASE EnterNested(t)
  BY <1>2 DEF EnterNested
<1>3. CASE Connected(t)
  BY <1>3 DEF Connected
<1>4. CASE PragmaNext(t)
  BY <1>4 DEF PragmaNext, Answered
<1>5. CASE PragmasDone(t)
  BY <1>5 DEF PragmasDone, Answered
<1>6. CASE AcquireBlock(t)
  BY <1>6 DEF AcquireBlock
<1>7. CASE AcquireRefused(t)
  BY <1>7 DEF AcquireRefused
<1>8. CASE CleanDone(t)
  BY <1>8 DEF CleanDone, Answered
<1>9. CASE BeginDone(t)
  BY <1>9 DEF BeginDone, Answered
<1> QED BY <1>1, <1>2, <1>3, <1>4, <1>5, <1>6, <1>7, <1>8, <1>9 DEF Enter

\* A statement.
LEMMA BlockStatement ==
    ASSUME TypeOK, BlockInv, NEW t \in Tasks, Statement(t)
    PROVE  BlockInv'
<1> USE SqliteAssumption, BlockStep DEF Goto, Raise, EndCall, Entering, BulkPcs, BlockOf, BlockInv,
        TypeOK, TaskTypes
<1>1. CASE Call(t)
  BY <1>1 DEF Call
<1>2. CASE CallSubmit(t)
  BY <1>2 DEF CallSubmit, FirstPc, BulkAlone
<1>3. CASE CallConnect(t)
  BY <1>3 DEF CallConnect
<1>4. CASE CallRefused(t)
  BY <1>4 DEF CallRefused
<1>5. CASE CallPragmasDone(t)
  BY <1>5 DEF CallPragmasDone, Answered, FirstPc, BulkAlone
<1>6. CASE StmtDone(t)
  BY <1>6 DEF StmtDone, Answered
<1>7. CASE BulkBegun(t)
  BY <1>7 DEF BulkBegun, Answered
<1>8. CASE BulkInserted(t)
  BY <1>8 DEF BulkInserted, Answered
<1>9. CASE BulkFailed(t)
  BY <1>9 DEF BulkFailed, Answered
<1>10. CASE BulkEnded(t)
  BY <1>10 DEF BulkEnded, Answered
<1> QED BY <1>1, <1>2, <1>3, <1>4, <1>5, <1>6, <1>7, <1>8, <1>9, <1>10 DEF Statement

\* The end of a block.
LEMMA BlockExit ==
    ASSUME TypeOK, BlockInv, NEW t \in Tasks, Exit(t)
    PROVE  BlockInv'
<1> USE SqliteAssumption, BlockStep DEF Goto, Raise, EndCall, Entering, BulkPcs, BlockOf, BlockInv,
        TypeOK, TaskTypes
<1>1. CASE ExitNested(t)
  BY <1>1 DEF ExitNested, InFrame
<1>2. CASE ExitRollback(t)
  BY <1>2 DEF ExitRollback, InFrame
<1>3. CASE ExitCommit(t)
  BY <1>3 DEF ExitCommit, InFrame
<1>4. CASE ExitAsIs(t)
  BY <1>4 DEF ExitAsIs, LeaveBlock, OuterFrame, InFrame
<1>5. CASE ExitDone(t)
  BY <1>5 DEF ExitDone, Answered, LeaveBlock, OuterFrame, Finalise
<1>6. CASE UserFinish(t)
  BY <1>6 DEF UserFinish
<1>7. CASE UserFinishDone(t)
  BY <1>7 DEF UserFinishDone, Answered, Finalise
<1> QED BY <1>1, <1>2, <1>3, <1>4, <1>5, <1>6, <1>7 DEF Exit

\* The faults under which every transaction is ended by the code that opened it.
Orderly == Faults \subseteq {"connect", "begin", "stmt"}

\* The code around the ORM.
LEMMA BlockUser ==
    ASSUME TypeOK, BlockInv, Orderly, NEW t \in Tasks, User(t)
    PROVE  BlockInv'
<1> USE BlockStep DEF Goto, Raise, Entering, BulkPcs, BlockOf, BlockInv, TypeOK, TaskTypes
<1>1. CASE Throw(t)
  BY <1>1 DEF Throw, InFrame, Orderly
<1>2. CASE Catch(t)
  BY <1>2 DEF Catch
<1>3. CASE Finish(t)
  BY <1>3 DEF Finish
<1>4. ASSUME NEW c \in Tasks, Spawn(t, c)
      PROVE  BlockInv'
  <2>1. BlockOf(t) /\ BlockOf(c)
    OBVIOUS
  <2>2. /\ pc[t] = "run" /\ pc[c] = "idle" /\ pc' = [pc EXCEPT ![c] = "run"]
        /\ ctx' = [ctx EXCEPT ![c] = ctx[t]]
        /\ UNCHANGED <<exc, call, block, final>>
    BY <1>4 DEF Spawn
  <2>3. BlockOf(c)'
    BY <2>1, <2>2
  <2> QED BY <2>2, <2>3
<1> QED BY <1>1, <1>2, <1>3, <1>4 DEF User

\* The head of the queue is what the answered task asked for.
LEMMA HeadAwaited ==
    ASSUME TypeOK, QueueInv, NEW t \in Tasks, NEW p, Answered(t, p)
    PROVE  Awaits(p, Head(queue).op)
<1>1. Len(queue) \in Nat \ {0} /\ Head(queue) = queue[1]
  BY DEF TypeOK, Answered
<1> QED BY <1>1 DEF QueueInv, Answered

\* Failures: none hits a commit or a rollback.
LEMMA BlockFault ==
    ASSUME TypeOK, QueueInv, BlockInv, Orderly, NEW t \in Tasks, Fault(t)
    PROVE  BlockInv'
<1>1. PICK e \in {"err", "tme"} : Abort(t, e) /\ (e = "tme" => pc[t] \in {"cleaning", "beginning"})
  BY DEF Fault, RequestFails, ConnectFails, Cancel
<1>2. /\ pc' = [pc EXCEPT ![t] = "run"]
      /\ exc' = [exc EXCEPT ![t] = e]
      /\ call' = [call EXCEPT ![t] = NoCall]
      /\ ctx' = ctx /\ final' = final
      /\ block' = [block EXCEPT ![t] = "failed"] \/ block' = block
  BY <1>1 DEF Abort, Goto, Raise
<1>3. pc[t] \in Entering => block' = [block EXCEPT ![t] = "failed"]
  BY <1>1 DEF Abort
<1>4. pc[t] # "idle" /\ pc'[t] = "run"
  <2>1. Answered(t, pc[t]) => pc[t] # "idle"
    BY HeadAwaited DEF Awaits
  <2> QED BY <1>2, <2>1 DEF Fault, RequestFails, ConnectFails, Cancel, TypeOK, TaskTypes
<1>5. BlockOf(t)
  BY DEF BlockInv
<1>6. block'[t] = "failed" \/ (block'[t] = block[t] /\ e = "err" /\ pc[t] \notin Entering)
  BY <1>1, <1>2, <1>3 DEF TypeOK, TaskTypes, Entering
<1>7. exc'[t] = e /\ ctx'[t] = ctx[t] /\ final'[t] = final[t]
  BY <1>2 DEF TypeOK, TaskTypes
<1>8. ctx[t] \in Tasks => block'[ctx[t]] \notin {"none", "entering"}
  <2>1. CASE ctx[t] = t
    BY <2>1, <1>5, <1>6 DEF BlockOf, Entering
  <2>2. CASE ctx[t] # t
    BY <2>2, <1>2, <1>5 DEF BlockOf, TypeOK, TaskTypes
  <2> QED BY <2>1, <2>2
<1>9. BlockOf(t)'
  BY <1>4, <1>5, <1>6, <1>7, <1>8 DEF BlockOf, Entering, BulkPcs
<1> QED BY <1>2, <1>9, BlockStep DEF TypeOK, TaskTypes

\* What an executed request, and a failed one, does to the open transaction.
LEMMA PerformEffect ==
    ASSUME NEW r, Perform(r)
    PROVE  \/ r.op \in {"commit", "rollback"} /\ dbtx' = NoTask /\ dirty' = {}
           \/ r.op = "begin" /\ dbtx = NoTask /\ dbtx' = r.by /\ dirty' = dirty
           \/ /\ r.op \in {"setup", "foreignkeys", "stmt", "many"}
              /\ dbtx' = dbtx /\ (dirty' = dirty \/ dbtx # NoTask)
BY DEF Perform, Store, dbVars

\* A statement that fails opens and closes no transaction.
LEMMA FailEffect ==
    ASSUME NEW r, Fail(r)
    PROVE  dbtx' = dbtx /\ (dirty' = dirty \/ dbtx # NoTask)
BY DEF Fail, Store

\* What an action of task t has to show about the open transaction.
LEMMA OwnerStep ==
    ASSUME TypeOK, OwnerInv, NEW t \in Tasks,
           \A u \in Tasks \ {t} : pc'[u] = pc[u] /\ block'[u] = block[u],
           \/ dbtx' = NoTask /\ dirty' = {}
           \/ dbtx = NoTask /\ dbtx' = t /\ dirty' = dirty /\ OwnerOf(t)'
           \/ /\ dbtx' = dbtx /\ (dirty' = dirty \/ dbtx # NoTask)
              /\ final' = final
              /\ dbtx = t => OwnerOf(t)'
    PROVE  OwnerInv'
<1>1. dbtx \in Tasks \cup {NoTask} /\ NoTask \notin Tasks
  BY SqliteAssumption DEF TypeOK, StoreTypes
<1>2. CASE dbtx' = NoTask /\ dirty' = {}
  BY <1>2 DEF OwnerInv
<1>3. CASE dbtx = NoTask /\ dbtx' = t /\ dirty' = dirty /\ OwnerOf(t)'
  BY <1>1, <1>3 DEF OwnerInv
<1>4. CASE /\ dbtx' = dbtx /\ (dirty' = dirty \/ dbtx # NoTask)
           /\ final' = final
           /\ dbtx = t => OwnerOf(t)'
  BY <1>1, <1>4 DEF OwnerInv, OwnerOf
<1> QED BY <1>2, <1>3, <1>4

\* Entering a block opens a transaction of its own.
LEMMA OwnerEnter ==
    ASSUME TypeOK, TxInv, NEW t \in Tasks, Enter(t)
    PROVE  OwnerInv'
<1> USE SqliteAssumption, OwnerStep DEF Goto, Raise, EndCall, Entering, BulkPcs, OwnerOf, OwnerInv,
        TxInv, TypeOK, TaskTypes, dbVars
<1>1. CASE EnterBlock(t)
  BY <1>1 DEF EnterBlock, BlockInv, BlockOf
<1>2. CASE EnterNested(t)
  BY <1>2 DEF EnterNested
<1>3. CASE Connected(t)
  BY <1>3 DEF Connected
<1>4. CASE PragmaNext(t)
  <2>1. Awaits(pc[t], Head(queue).op) /\ Head(queue).by = t
    BY <1>4, HeadAwaited DEF PragmaNext, Answered
  <2> QED BY <2>1, <1>4, PerformEffect DEF PragmaNext, Answered, Awaits
<1>5. CASE PragmasDone(t)
  <2>1. Awaits(pc[t], Head(queue).op) /\ Head(queue).by = t
    BY <1>5, HeadAwaited DEF PragmasDone, Answered
  <2> QED BY <2>1, <1>5, PerformEffect DEF PragmasDone, Answered, Awaits
<1>6. CASE AcquireBlock(t)
  BY <1>6 DEF AcquireBlock
<1>7. CASE AcquireRefused(t)
  BY <1>7 DEF AcquireRefused, BlockInv, BlockOf
<1>8. CASE CleanDone(t)
  <2>1. Awaits(pc[t], Head(queue).op) /\ Head(queue).by = t
    BY <1>8, HeadAwaited DEF CleanDone, Answered
  <2> QED BY <2>1, <1>8, PerformEffect DEF CleanDone, Answered, Awaits
<1>9. CASE BeginDone(t)
  <2>1. Awaits(pc[t], Head(queue).op) /\ Head(queue).by = t
    BY <1>9, HeadAwaited DEF BeginDone, Answered
  <2> QED BY <2>1, <1>9, PerformEffect DEF BeginDone, Answered, Awaits, BlockInv, BlockOf
<1> QED BY <1>1, <1>2, <1>3, <1>4, <1>5, <1>6, <1>7, <1>8, <1>9 DEF Enter

\* A statement leaves the open transaction alone; a bulk insert ends its own.
LEMMA OwnerStatement ==
    ASSUME TypeOK, TxInv, NEW t \in Tasks, Statement(t)
    PROVE  OwnerInv'
<1> USE SqliteAssumption, OwnerStep DEF Goto, Raise, EndCall, Entering, BulkPcs, OwnerOf, OwnerInv,
        TxInv, TypeOK, TaskTypes, dbVars
<1>1. CASE Call(t)
  BY <1>1 DEF Call
<1>2. CASE CallSubmit(t)
  BY <1>2 DEF CallSubmit, FirstPc, BulkAlone
<1>3. CASE CallConnect(t)
  BY <1>3 DEF CallConnect
<1>4. CASE CallRefused(t)
  BY <1>4 DEF CallRefused
<1>5. CASE CallPragmasDone(t)
  <2>1. Awaits(pc[t], Head(queue).op) /\ Head(queue).by = t
    BY <1>5, HeadAwaited DEF CallPragmasDone, Answered
  <2> QED BY <2>1, <1>5, PerformEffect DEF CallPragmasDone, Answered, Awaits, FirstPc, BulkAlone
<1>6. CASE StmtDone(t)
  <2>1. Awaits(pc[t], Head(queue).op) /\ Head(queue).by = t
    BY <1>6, HeadAwaited DEF StmtDone, Answered
  <2> QED BY <2>1, <1>6, PerformEffect DEF StmtDone, Answered, Awaits
<1>7. CASE BulkBegun(t)
  <2>1. Awaits(pc[t], Head(queue).op) /\ Head(queue).by = t
    BY <1>7, HeadAwaited DEF BulkBegun, Answered
  <2> QED BY <2>1, <1>7, PerformEffect DEF BulkBegun, Answered, Awaits
<1>8. CASE BulkInserted(t)
  <2>1. Awaits(pc[t], Head(queue).op) /\ Head(queue).by = t
    BY <1>8, HeadAwaited DEF BulkInserted, Answered
  <2> QED BY <2>1, <1>8, PerformEffect DEF BulkInserted, Answered, Awaits
<1>9. CASE BulkFailed(t)
  <2>1. Awaits(pc[t], Head(queue).op) /\ Head(queue).by = t
    BY <1>9, HeadAwaited DEF BulkFailed, Answered
  <2> QED BY <2>1, <1>9, FailEffect DEF BulkFailed, Answered, Awaits
<1>10. CASE BulkEnded(t)
  <2>1. Awaits(pc[t], Head(queue).op) /\ Head(queue).by = t
    BY <1>10, HeadAwaited DEF BulkEnded, Answered
  <2> QED BY <2>1, <1>10, PerformEffect DEF BulkEnded, Answered, Awaits
<1> QED BY <1>1, <1>2, <1>3, <1>4, <1>5, <1>6, <1>7, <1>8, <1>9, <1>10 DEF Statement

\* A block is left with its transaction ended.
LEMMA OwnerExit ==
    ASSUME TypeOK, TxInv, NEW t \in Tasks, Exit(t)
    PROVE  OwnerInv'
<1> USE SqliteAssumption, OwnerStep DEF Goto, Raise, EndCall, Entering, BulkPcs, OwnerOf, OwnerInv,
        TxInv, TypeOK, TaskTypes, dbVars
<1>1. CASE ExitNested(t)
  BY <1>1 DEF ExitNested, InFrame
<1>2. CASE ExitRollback(t)
  BY <1>2 DEF ExitRollback, InFrame
<1>3. CASE ExitCommit(t)
  BY <1>3 DEF ExitCommit, InFrame
<1>4. CASE ExitAsIs(t)
  BY <1>4 DEF ExitAsIs, LeaveBlock, OuterFrame, InFrame, BlockInv, BlockOf
<1>5. CASE ExitDone(t)
  <2>1. Awaits(pc[t], Head(queue).op) /\ Head(queue).by = t
    BY <1>5, HeadAwaited DEF ExitDone, Answered
  <2> QED BY <2>1, <1>5, PerformEffect DEF ExitDone, Answered, Awaits, LeaveBlock, OuterFrame, Finalise
<1>6. CASE UserFinish(t)
  BY <1>6 DEF UserFinish
<1>7. CASE UserFinishDone(t)
  <2>1. Awaits(pc[t], Head(queue).op) /\ Head(queue).by = t
    BY <1>7, HeadAwaited DEF UserFinishDone, Answered
  <2> QED BY <2>1, <1>7, PerformEffect DEF UserFinishDone, Answered, Awaits, Finalise
<1> QED BY <1>1, <1>2, <1>3, <1>4, <1>5, <1>6, <1>7 DEF Exit

\* No fault of an orderly run touches the open transaction.
LEMMA OwnerFault ==
    ASSUME TypeOK, TxInv, Orderly, NEW t \in Tasks, Fault(t)
    PROVE  OwnerInv'
<1>1. CASE RequestFails(t)
  <2>1. Awaits(pc[t], Head(queue).op) /\ Fail(Head(queue)) /\ pc[t] # "bulkrows"
    BY <1>1, HeadAwaited DEF RequestFails, TxInv
  <2>2. pc[t] \notin {"bulkcommit", "bulkrollback", "committing", "rollingback"}
    BY <2>1 DEF Fail, Awaits, Orderly
  <2>3. PICK e \in {"err", "tme"} : Abort(t, e)
    BY <1>1 DEF RequestFails
  <2>4. /\ pc' = [pc EXCEPT ![t] = "run"] /\ final' = final
        /\ pc[t] \notin Entering => block' = block
        /\ block' = [block EXCEPT ![t] = "failed"] \/ block' = block
    BY <2>2, <2>3 DEF Abort, Goto, Leaving
  <2>5. dbtx = t => OwnerOf(t)'
    BY <2>1, <2>2, <2>4, SqliteAssumption DEF TxInv, OwnerInv, OwnerOf, BulkPcs, BlockInv, BlockOf, TypeOK,
       TaskTypes, StoreTypes, Awaits, Entering
  <2> QED BY <2>1, <2>4, <2>5, FailEffect, OwnerStep DEF TxInv, TypeOK, TaskTypes
<1>2. CASE ConnectFails(t)
  <2>1. /\ pc' = [pc EXCEPT ![t] = "run"] /\ final' = final /\ UNCHANGED dbVars
        /\ pc[t] \notin Entering => block' = block
        /\ block' = [block EXCEPT ![t] = "failed"] \/ block' = block
        /\ pc[t] \in {"connecting", "callconnect"}
    BY <1>2 DEF ConnectFails, Abort, Goto, Leaving
  <2>2. dbtx = t => OwnerOf(t)'
    BY <2>1, SqliteAssumption DEF TxInv, OwnerInv, OwnerOf, BulkPcs, BlockInv, BlockOf, TypeOK, TaskTypes,
       StoreTypes, Entering
  <2> QED BY <2>1, <2>2, OwnerStep DEF TxInv, TypeOK, TaskTypes, dbVars
<1>3. ~Cancel(t)
  BY DEF Cancel, Orderly
<1> QED BY <1>1, <1>2, <1>3 DEF Fault

\* The code around the ORM leaves the open transaction alone.
LEMMA OwnerUser ==
    ASSUME TypeOK, TxInv, NEW t \in Tasks, User(t)
    PROVE  OwnerInv'
<1> USE OwnerStep DEF Goto, Raise, OwnerOf, OwnerInv, TxInv, TypeOK, TaskTypes, dbVars, BulkPcs
<1>1. CASE Throw(t)
  BY <1>1 DEF Throw
<1>2. CASE Catch(t)
  BY <1>2 DEF Catch
<1>3. CASE Finish(t)
  BY <1>3 DEF Finish
<1>4. ASSUME NEW c \in Tasks, Spawn(t, c)
      PROVE  OwnerInv'
  BY <1>4 DEF Spawn
<1> QED BY <1>1, <1>2, <1>3, <1>4 DEF User

\* Every step keeps the queue and the waiting tasks in agreement.
LEMMA QueueSteps ==
    ASSUME TypeOK, QueueInv, Orderly, NEW t \in Tasks,
           Enter(t) \/ Statement(t) \/ Exit(t) \/ User(t) \/ Fault(t)
    PROVE  QueueInv'
<1>1. CASE Enter(t)
  BY <1>1, QuietSteps, SubmitSteps, TailSteps, NextSteps DEF Enter
<1>2. CASE Statement(t)
  BY <1>2, QuietSteps, SubmitSteps, TailSteps, NextSteps DEF Statement
<1>3. CASE UserFinish(t)
  <2>1. pc[t] = "run" /\ ctx[t] \in Targets
    BY <1>3 DEF UserFinish, TypeOK, TaskTypes
  <2>2. CASE UNCHANGED <<pc, queue>>
    BY <2>1, <2>2, QueueQuiet DEF NoRequest
  <2>3. CASE Goto(t, "usercommit") /\ Submit(t, ctx[t], "commit")
    BY <2>1, <2>3, QueueSubmit DEF NoRequest, Goto, Ops, Awaits, TypeOK, TaskTypes
  <2>4. CASE Goto(t, "userrollback") /\ Submit(t, ctx[t], "rollback")
    BY <2>1, <2>4, QueueSubmit DEF NoRequest, Goto, Ops, Awaits, TypeOK, TaskTypes
  <2> QED BY <2>2, <2>3, <2>4, <1>3 DEF UserFinish
<1>4. CASE Exit(t)
  BY <1>3, <1>4, QuietSteps, SubmitSteps, TailSteps DEF Exit
<1>5. CASE User(t)
  <2>1. ASSUME NEW c \in Tasks, Spawn(t, c)
        PROVE  QueueInv'
    BY <2>1, QueueQuiet DEF Spawn, NoRequest, Goto, TypeOK, TaskTypes
  <2> QED BY <1>5, <2>1, QuietSteps DEF User
<1>6. CASE Fault(t)
  <2>1. ~Cancel(t)
    BY DEF Cancel, Orderly
  <2> QED BY <1>6, <2>1, QuietSteps, TailSteps DEF Fault
<1> QED BY <1>1, <1>2, <1>4, <1>5, <1>6

\* IdleConnectionClean: as long as no task is cancelled, no commit or rollback
\* fails and no other connection's TransactionManagementError leaves a block, the
\* free lock means that the database has no transaction open, so that start()
\* never commits another task's rows.
THEOREM CleanWhenIdle ==
    ASSUME Orderly
    PROVE  Spec => []IdleConnectionClean
<1>1. Init => TxInv
  <2> SUFFICES ASSUME Init PROVE TxInv
    OBVIOUS
  <2>1. QueueInv
    BY DEF Init, QueueInv
  <2>2. BlockInv
    BY SqliteAssumption DEF Init, BlockInv, BlockOf, Entering, BulkPcs
  <2> QED BY <2>1, <2>2 DEF Init, TxInv, OwnerInv
<1>2. TypeOK /\ TxInv /\ [Next]_vars => TxInv'
  <2> SUFFICES ASSUME TypeOK, TxInv, [Next]_vars
               PROVE  TxInv'
    OBVIOUS
  <2>1. ASSUME NEW t \in Tasks, Enter(t) \/ Statement(t) \/ Exit(t) \/ User(t) \/ Fault(t)
        PROVE  TxInv'
    <3>1. QueueInv'
      BY <2>1, QueueSteps DEF TxInv
    <3>2. BlockInv'
      BY <2>1, BlockEnter, BlockStatement, BlockExit, BlockUser, BlockFault DEF TxInv
    <3>3. OwnerInv'
      BY <2>1, OwnerEnter, OwnerStatement, OwnerExit, OwnerUser, OwnerFault
    <3> QED BY <3>1, <3>2, <3>3 DEF TxInv
  <2>2. ~OrphanDone
    <3>1. queue # <<>> => Len(queue) \in Nat \ {0} /\ Head(queue) = queue[1]
      BY DEF TypeOK
    <3> QED BY <3>1 DEF OrphanDone, TxInv, QueueInv
  <2>3. CASE Terminating \/ UNCHANGED vars
    BY <2>3 DEF Terminating, vars, TxInv, QueueInv, BlockInv, BlockOf, OwnerInv, OwnerOf
  <2> QED BY <2>1, <2>2, <2>3 DEF Next
<1>3. TypeOK /\ LockExclusion /\ TxInv => IdleConnectionClean
  <2> SUFFICES ASSUME TypeOK, LockExclusion, TxInv, lock = NoTask
               PROVE  dbtx = NoTask /\ dirty = {}
    BY DEF IdleConnectionClean
  <2>1. \A t \in Tasks : ~UnderLock(t)
    BY SqliteAssumption DEF LockExclusion
  <2>2. ASSUME dbtx # NoTask PROVE FALSE
    <3>1. dbtx \in Tasks /\ OwnerOf(dbtx) /\ BlockOf(dbtx)
      BY <2>2 DEF TypeOK, StoreTypes, TxInv, OwnerInv, BlockInv
    <3>2. UnderLock(dbtx)
      BY <3>1 DEF OwnerOf, BlockOf, UnderLock, BulkPcs, InCall
    <3> QED BY <2>1, <3>1, <3>2
  <2> QED BY <2>2 DEF TxInv, OwnerInv
<1> QED BY <1>1, <1>2, <1>3, TypeCorrect, MutualExclusion, PTL DEF Spec

=============================================================================
