---------------------- MODULE PooledTransactionsProofs ----------------------
(***************************************************************************)
(* Theorems about PooledTransactions, for every set of tasks, pools of     *)
(* every size, each of the three clients and every set of faults.          *)
(***************************************************************************)
EXTENDS PooledTransactions, TLAPS

-----------------------------------------------------------------------------
(* The inductive invariants *)

\* The steps in which the connection of a statement is in use
Sending == {"stmt", "bulkrows", "bulkcommit", "bulkrollback"}
OnWrapper == {"starting", "committing", "rollingback"} \cup Manual

\* A frame that is left was entered, and there is room for one that is waited for.
Depths ==
    \A t \in Tasks :
        /\ pc[t] \in Leaving => depth[t] > 0
        /\ pc[t] = "nestlocking" => depth[t] < MaxDepth

\* What is sent has a connection to be sent on.
Placed ==
    \A t \in Tasks :
        /\ block[t] = "open" \/ pc[t] \in OnWrapper => wconn[t] \in Conns
        /\ pc[t] \in {"callpooling", "callacquiring"} \cup (Sending \ {"stmt"}) =>
              call[t].on = Client
        /\ pc[t] \in Sending =>
              IF call[t].on = Client THEN cconn[t] \in Conns ELSE wconn[t] \in Conns

DbTypes ==
    /\ db \in [Conns -> [status : Statuses, auto : BOOLEAN, rows : SUBSET Rows]]
    /\ durable \subseteq Rows /\ lost \subseteq Rows

\* What a wait is for, as the type of everything but the database
ControlTypes ==
    /\ TaskTypes /\ Depths /\ Placed
    /\ ctx \in [Tasks -> Targets]
    /\ pool \in made \cup {NoPool} /\ made \subseteq Pools
    /\ user \in [Conns -> Tasks \cup {NoTask}]

TInv == ControlTypes /\ DbTypes

-----------------------------------------------------------------------------
(* A connection of the database *)

States == [status : Statuses, auto : BOOLEAN, rows : SUBSET Rows,
           durable : SUBSET Rows, lost : SUBSET Rows]

\* What a connection and the database hold is a state.
LEMMA StateType == ASSUME DbTypes, NEW c \in Conns PROVE State(c) \in States
BY DEF State, States, DbTypes

\* No statement, commit or rollback leads out of the states.
LEMMA StatesClosed ==
    ASSUME NEW s \in States
    PROVE  /\ RolledBack(s) \in States /\ Committed(s) \in States
           /\ Aborted(s) \in States /\ Returned(s) \in States
           /\ StartedTx(s) \in States
           /\ CommittedTx(s) \in States /\ RolledBackTx(s) \in States
           /\ \A rows \in SUBSET Rows : Wrote(s, rows) \in States
<1> USE DEF States, Statuses
<1>1. RolledBack(s) \in States
  BY DEF RolledBack
<1>2. Committed(s) \in States
  BY <1>1 DEF Committed
<1>3. Aborted(s) \in States /\ Returned(s) \in States /\ StartedTx(s) \in States
  BY <1>1 DEF Aborted, Returned, StartedTx
<1>4. \A z \in States : [z EXCEPT !.auto = TRUE] \in States
  OBVIOUS
<1>5. CommittedTx(s) \in States /\ RolledBackTx(s) \in States
  BY <1>1, <1>2, <1>4 DEF CommittedTx, RolledBackTx
<1>6. ASSUME NEW rows \in SUBSET Rows PROVE Wrote(s, rows) \in States
  BY DEF Wrote
<1> QED BY <1>1, <1>2, <1>3, <1>5, <1>6

\* A connection that gets a state keeps the types of the database.
LEMMA BecomesTypes ==
    ASSUME DbTypes, NEW c, NEW s \in States, Becomes(c, s)
    PROVE  DbTypes'
BY DEF Becomes, DbTypes, States

\* The rows of a statement are rows.
LEMMA RowsOfType ==
    ASSUME TaskTypes, NEW t \in Tasks, NEW parts \in SUBSET (0..2)
    PROVE  RowsOf(t, parts) \subseteq Rows
<1> SUFFICES ASSUME NEW row \in RowsOf(t, parts)
             PROVE  row \in Rows
  OBVIOUS
<1> DEFINE late == call[t].on # Client /\ final[t] # "open"
<1>1. late \in BOOLEAN
  OBVIOUS
<1>2. PICK n \in parts : row = [by |-> t, via |-> call[t].on, part |-> n, late |-> late]
  BY DEF RowsOf
<1>3. call[t].on \in Targets /\ n \in 0..2
  BY DEF TaskTypes, Calls
<1> HIDE DEF late
<1> QED BY <1>1, <1>2, <1>3 DEF Rows

\* What a statement leaves is a state.
LEMMA SentType ==
    ASSUME TInv, NEW t \in Tasks, ConnOf(t) \in Conns
    PROVE  Sent(t) \in States
<1>1. RowsOf(t, IF call[t].many THEN {1, 2} ELSE {0}) \subseteq Rows
  BY RowsOfType DEF TInv, ControlTypes
<1> QED BY <1>1, StateType, StatesClosed DEF Sent, TInv

-----------------------------------------------------------------------------
(* Every step keeps the types *)

LEMMA InitTyped == Init => TInv
<1> SUFFICES ASSUME Init PROVE TInv
  OBVIOUS
<1> USE PooledAssumption DEF Init
<1>1. FirstPool \in Pools
  BY DEF FirstPool
<1>2. TaskTypes
  BY DEF TaskTypes, PCs, Entering, InCall, Leaving, Manual, Calls, NoCall, Targets
<1>3. Depths
  BY DEF Depths, Leaving
<1>4. Placed
  BY DEF Placed, OnWrapper, Sending, Manual
<1>5. DbTypes
  BY DEF DbTypes, Statuses
<1>6. pool \in made \cup {NoPool} /\ made \subseteq Pools
  BY <1>1
<1>7. user \in [Conns -> Tasks \cup {NoTask}] /\ ctx \in [Tasks -> Targets]
  BY DEF Targets
<1> QED BY <1>2, <1>3, <1>4, <1>5, <1>6, <1>7 DEF TInv, ControlTypes

\* The end of a call, with its connection in a state, keeps the types.
LEMMA EndCallTyped ==
    ASSUME TInv, NEW t \in Tasks, pc[t] \in Sending, NEW s \in States, EndCall(t, s),
           exc' \in [Tasks -> {"none", "err", "tme"}],
           UNCHANGED <<depth, ctx, want, block, final, wconn, trx, poolVars>>,
           cancelled' \subseteq Tasks
    PROVE  TInv'
<1>1. Becomes(ConnOf(t), s) \/ Becomes(ConnOf(t), Returned(s))
  BY DEF EndCall
<1>2. DbTypes'
  BY <1>1, BecomesTypes, StatesClosed DEF TInv
<1>3. user' \in [Conns -> Tasks \cup {NoTask}]
  BY DEF EndCall, TInv, ControlTypes
<1>4. /\ pc' = [pc EXCEPT ![t] = "run"] /\ call' = [call EXCEPT ![t] = NoCall]
      /\ cconn' = [cconn EXCEPT ![t] = NoConn]
  BY DEF EndCall, Goto
<1>5. TaskTypes'
  BY <1>4 DEF TaskTypes, PCs, Calls, NoCall, Targets, TInv, ControlTypes
<1>6. Depths'
  BY <1>4 DEF Depths, Leaving, TaskTypes, TInv, ControlTypes
<1>7. Placed'
  BY <1>4 DEF Placed, OnWrapper, Sending, Manual, TaskTypes, TInv, ControlTypes
<1> QED BY <1>2, <1>3, <1>5, <1>6, <1>7 DEF TInv, ControlTypes, poolVars

\* So does a connection that goes back to its pool.
LEMMA GiveBackTyped ==
    ASSUME TInv, NEW t \in Tasks, pc[t] \in {"run", "committing", "rollingback"},
           OuterFrame(t), NEW s \in States, GiveBack(t, s),
           final' \in [Tasks -> {"open", "committed", "rolledback"}],
           UNCHANGED <<ctx, call, want, cconn, wconn, trx, poolVars, cancelled>>
    PROVE  TInv'
<1> USE PooledAssumption
<1>1. DbTypes'
  BY BecomesTypes, StatesClosed DEF GiveBack, TInv
<1>2. user' \in [Conns -> Tasks \cup {NoTask}]
  BY DEF GiveBack, TInv, ControlTypes
<1>3. TaskTypes'
  BY DEF GiveBack, Goto, Raise, TaskTypes, PCs, Leaving, TInv, ControlTypes
<1>4. Depths'
  BY DEF GiveBack, Goto, OuterFrame, Depths, Leaving, TaskTypes, TInv, ControlTypes
<1>5. Placed'
  BY DEF GiveBack, Goto, OuterFrame, Placed, OnWrapper, Sending, Manual, TaskTypes,
         TInv, ControlTypes
<1> QED BY <1>1, <1>2, <1>3, <1>4, <1>5 DEF TInv, ControlTypes, poolVars

LEMMA EnterTyped ==
    ASSUME TInv, NEW t \in Tasks, Enter(t)
    PROVE  TInv'
<1> USE PooledAssumption
        DEF TaskTypes, PCs, Entering, InCall, Leaving, Manual, Depths, Placed, OnWrapper,
            Sending, TInv, ControlTypes, Goto, poolVars, dbVars, DbTypes, Targets
<1>0. pool \in Pools \cup {NoPool} /\ 1 \in 0..MaxDepth
  OBVIOUS
<1>1. CASE EnterBlock(t)
  <2>1. /\ pc[t] = "run" /\ pc' \in {[pc EXCEPT ![t] = "pooling"], [pc EXCEPT ![t] = "acquiring"]}
        /\ ctx' \in {ctx, [ctx EXCEPT ![t] = t]}
        /\ want' \in {want, [want EXCEPT ![t] = pool]}
        /\ depth' = [depth EXCEPT ![t] = 1]
        /\ block' = [block EXCEPT ![t] = "entering"]
        /\ UNCHANGED <<exc, call, cconn, final, wconn, trx, poolVars, user, dbVars, cancelled>>
    BY <1>1 DEF EnterBlock, AcquireFor
  <2>2. TaskTypes'
    <3>1. \A u \in Tasks : ctx'[u] \in {Client, u}
      BY <2>1
    <3>2. want' \in [Tasks -> Pools \cup {NoPool}] /\ depth' \in [Tasks -> 0..MaxDepth]
      BY <1>0, <2>1
    <3>3. pc' \in [Tasks -> PCs]
      BY <2>1
    <3> QED BY <2>1, <3>1, <3>2, <3>3
  <2>3. Depths' /\ Placed'
    BY <2>1
  <2> QED BY <2>1, <2>2, <2>3
<1>2. CASE PoolMade(t)
  <2>1. PICK p \in Pools \ made :
          /\ made' = made \cup {p} /\ pool' = p
          /\ want' = [want EXCEPT ![t] = p]
          /\ \/ /\ pc[t] = "pooling" /\ pc' = [pc EXCEPT ![t] = "acquiring"]
                /\ ctx' = [ctx EXCEPT ![t] = t]
             \/ /\ pc[t] = "callpooling" /\ pc' = [pc EXCEPT ![t] = "callacquiring"]
                /\ UNCHANGED ctx
          /\ UNCHANGED <<depth, exc, call, cconn, block, final, wconn, trx, user, dbVars,
                         cancelled>>
    BY <1>2 DEF PoolMade, AcquireFor
  <2>2. TaskTypes'
    BY <2>1
  <2>3. Depths' /\ Placed'
    BY <2>1
  <2> QED BY <2>1, <2>2, <2>3
<1>3. CASE TakeConn(t)
  <2>1. PICK c \in Free(want[t]) : /\ user' = [user EXCEPT ![c] = t]
                                   /\ wconn' = [wconn EXCEPT ![t] = c]
    BY <1>3 DEF TakeConn
  <2>2. c \in Conns
    BY DEF Free
  <2> QED BY <1>3, <2>1, <2>2 DEF TakeConn
<1>4. CASE Started(t)
  <2>1. StartedTx(State(wconn[t])) \in States
    BY <1>4, StateType, StatesClosed DEF Started
  <2>2. DbTypes'
    BY <1>4, <2>1, BecomesTypes DEF Started
  <2>3. ControlTypes'
    BY <1>4 DEF Started
  <2> QED BY <2>2, <2>3
<1>5. CASE EnterNested(t)
  BY <1>5 DEF EnterNested
<1>6. CASE NestLocked(t)
  BY <1>6 DEF NestLocked
<1> QED BY <1>1, <1>2, <1>3, <1>4, <1>5, <1>6 DEF Enter

LEMMA StatementTyped ==
    ASSUME TInv, NEW t \in Tasks, Statement(t)
    PROVE  TInv'
<1> USE PooledAssumption
<1>1. CASE Call(t)
  <2> USE <1>1 DEF Call
  <2>1. PICK on \in {ctx[t], Client}, many \in BOOLEAN :
          \/ /\ on = Client
             /\ call' = [call EXCEPT ![t] = [on |-> on, many |-> many]]
             /\ \/ pc' = [pc EXCEPT ![t] = "callpooling"] /\ UNCHANGED want
                \/ pc' = [pc EXCEPT ![t] = "callacquiring"] /\ want' = [want EXCEPT ![t] = pool]
             /\ UNCHANGED exc
          \/ /\ on # Client /\ wconn[t] # NoConn
             /\ call' = [call EXCEPT ![t] = [on |-> on, many |-> many]]
             /\ pc' = [pc EXCEPT ![t] = "stmt"]
             /\ UNCHANGED <<exc, want>>
          \/ /\ exc' = [exc EXCEPT ![t] = "err"]
             /\ UNCHANGED <<pc, call, want>>
    <3>1. PICK on \in {ctx[t]} \cup (IF "captured" \in Features THEN {Client} ELSE {}),
               many \in {FALSE} \cup (IF "bulk" \in Features THEN {TRUE} ELSE {}) :
            \/ /\ on = Client
               /\ call' = [call EXCEPT ![t] = [on |-> on, many |-> many]]
               /\ IF pool = NoPool
                    THEN Goto(t, "callpooling") /\ UNCHANGED want
                    ELSE Goto(t, "callacquiring") /\ want' = [want EXCEPT ![t] = pool]
               /\ UNCHANGED exc
            \/ /\ on # Client /\ Attached(t)
               /\ call' = [call EXCEPT ![t] = [on |-> on, many |-> many]]
               /\ Goto(t, "stmt")
               /\ UNCHANGED <<exc, want>>
            \/ /\ on # Client /\ ~Attached(t)
               /\ Raise(t, "err")
               /\ UNCHANGED <<pc, call, want>>
      BY Zenon
    <3>2. on \in {ctx[t], Client} /\ many \in BOOLEAN
      OBVIOUS
    <3> QED BY <3>1, <3>2, Zenon DEF Goto, Raise, Attached
  <2>2. [on |-> on, many |-> many] \in Calls
    BY DEF Calls, Targets, TInv, ControlTypes, TaskTypes
  <2>3. pool \in Pools \cup {NoPool}
    BY DEF TInv, ControlTypes
  <2>4. TaskTypes'
    BY <2>1, <2>2, <2>3 DEF TInv, ControlTypes, TaskTypes, PCs, InCall
  <2>5. Depths'
    BY <2>1 DEF Depths, Leaving, TaskTypes, TInv, ControlTypes
  <2>6. Placed'
    BY <2>1, <2>2 DEF Placed, OnWrapper, Sending, Manual, TaskTypes, Calls, TInv, ControlTypes
  <2> QED BY <2>4, <2>5, <2>6 DEF TInv, ControlTypes, DbTypes, poolVars, dbVars
<1>2. CASE CallTakeConn(t)
  <2> USE <1>2 DEF CallTakeConn
  <2>1. PICK c \in Free(want[t]) :
          /\ user' = [user EXCEPT ![c] = t]
          /\ cconn' = [cconn EXCEPT ![t] = c]
          /\ IF call[t].many /\ Backend # "psycopg"
               THEN Goto(t, "bulkrows") /\ Becomes(c, [State(c) EXCEPT !.status = "open"])
               ELSE Goto(t, "stmt") /\ UNCHANGED dbVars
    OBVIOUS
  <2>2. c \in Conns
    BY DEF Free
  <2>3. [State(c) EXCEPT !.status = "open"] \in States
    BY <2>2, StateType DEF States, Statuses, TInv
  <2>4. DbTypes'
    BY <2>1, <2>3, BecomesTypes DEF dbVars, DbTypes, TInv
  <2>5. ControlTypes'
    BY <2>1, <2>2 DEF TInv, ControlTypes, TaskTypes, PCs, InCall, Goto, Depths, Leaving,
                      Placed, OnWrapper, Sending, Manual, poolVars
  <2> QED BY <2>4, <2>5 DEF TInv
<1>3. CASE StmtDone(t)
  <2>1. pc[t] \in Sending /\ ConnOf(t) \in Conns
    BY <1>3 DEF StmtDone, Sending, Placed, ConnOf, TInv, ControlTypes
  <2> QED BY <1>3, <2>1, SentType, EndCallTyped DEF StmtDone, TInv, ControlTypes, TaskTypes
<1>4. CASE StmtFails(t)
  <2>1. pc[t] \in Sending /\ ConnOf(t) \in Conns
    BY <1>4 DEF StmtFails, Sending, Placed, ConnOf, TInv, ControlTypes
  <2>2. State(ConnOf(t)) \in States /\ RolledBack(State(ConnOf(t))) \in States
        /\ AfterFailure(t) \subseteq States
    BY <2>1, StateType, StatesClosed DEF AfterFailure, TInv
  <2>3. exc' \in [Tasks -> {"none", "err", "tme"}]
    BY <1>4 DEF StmtFails, Raise, TInv, ControlTypes, TaskTypes
  <2>4. PICK s \in States : EndCall(t, s)
    BY <1>4, <2>2 DEF StmtFails
  <2> QED BY <1>4, <2>1, <2>3, <2>4, EndCallTyped
          DEF StmtFails, TInv, ControlTypes, TaskTypes
<1>5. CASE BulkInserted(t) \/ BulkFailed(t)
  <2>1. pc[t] = "bulkrows" /\ cconn[t] \in Conns
    BY <1>5 DEF BulkInserted, BulkFailed, Sending, Placed, TInv, ControlTypes
  <2>2. \A parts \in SUBSET (0..2) : RowsOf(t, parts) \subseteq Rows
    BY RowsOfType DEF TInv, ControlTypes
  <2>3. /\ Wrote(State(cconn[t]), RowsOf(t, {1, 2})) \in States
        /\ Wrote(State(cconn[t]), RowsOf(t, {1})) \in States
    BY <2>1, <2>2, StateType, StatesClosed DEF TInv
  <2>4. DbTypes'
    BY <1>5, <2>3, BecomesTypes, StatesClosed DEF BulkInserted, BulkFailed, TInv
  <2>5. /\ pc' = [pc EXCEPT ![t] = "bulkcommit"] \/ pc' = [pc EXCEPT ![t] = "bulkrollback"]
        /\ UNCHANGED <<depth, exc, ctx, call, want, cconn, block, final, wconn, trx,
                       poolVars, user, cancelled>>
    BY <1>5 DEF BulkInserted, BulkFailed, Goto
  <2>6. ControlTypes'
    BY <2>1, <2>5 DEF TInv, ControlTypes, TaskTypes, PCs, InCall, Depths, Leaving,
                      Placed, OnWrapper, Sending, Manual, poolVars
  <2> QED BY <2>4, <2>6 DEF TInv
<1>6. CASE BulkEnded(t)
  <2>1. pc[t] \in Sending /\ cconn[t] \in Conns
    BY <1>6 DEF BulkEnded, Sending, Placed, TInv, ControlTypes
  <2>2. Committed(State(cconn[t])) \in States /\ RolledBack(State(cconn[t])) \in States
    BY <2>1, StateType, StatesClosed DEF TInv
  <2>3. exc' \in [Tasks -> {"none", "err", "tme"}]
    BY <1>6 DEF BulkEnded, Raise, TInv, ControlTypes, TaskTypes
  <2> QED BY <1>6, <2>1, <2>2, <2>3, EndCallTyped
          DEF BulkEnded, TInv, ControlTypes, TaskTypes
<1> QED BY <1>1, <1>2, <1>3, <1>4, <1>5, <1>6 DEF Statement

LEMMA ExitTyped ==
    ASSUME TInv, NEW t \in Tasks, Exit(t)
    PROVE  TInv'
<1> USE PooledAssumption
<1>1. CASE ExitNested(t)
  <2>1. /\ pc[t] = "run" /\ depth[t] > 0
        /\ \/ /\ pc' = [pc EXCEPT ![t] = "rollingback"] /\ wconn[t] # NoConn
              /\ UNCHANGED depth
           \/ depth' = [depth EXCEPT ![t] = @ - 1] /\ UNCHANGED pc
        /\ trx' = [trx EXCEPT ![t] = NoTask]
        /\ UNCHANGED <<exc, ctx, call, want, cconn, block, final, wconn, poolVars, user,
                       dbVars, cancelled>>
    BY <1>1 DEF ExitNested, InFrame, Goto, CanFinish, Attached
  <2>2. depth' \in [Tasks -> 0..MaxDepth]
    BY <2>1 DEF TInv, ControlTypes, TaskTypes
  <2>3. TaskTypes'
    <3>1. pc' \in [Tasks -> PCs] /\ trx' \in [Tasks -> Tasks \cup {NoTask}]
      BY <2>1 DEF TInv, ControlTypes, TaskTypes, PCs, Leaving
    <3> QED BY <2>1, <2>2, <3>1 DEF TInv, ControlTypes, TaskTypes
  <2>4. Depths'
    <3>1. /\ depth' = depth \/ (depth' = [depth EXCEPT ![t] = @ - 1] /\ pc' = pc)
          /\ \A u \in Tasks : pc'[u] = pc[u] \/ (u = t /\ pc'[u] = "rollingback")
          /\ \A u \in Tasks \ {t} : depth'[u] = depth[u]
          /\ depth \in [Tasks -> 0..MaxDepth]
      BY <2>1 DEF TInv, ControlTypes, TaskTypes
    <3>2. Depths
      BY DEF TInv, ControlTypes
    <3>3. ASSUME NEW u \in Tasks
          PROVE  /\ pc'[u] \in Leaving => depth'[u] > 0
                 /\ pc'[u] = "nestlocking" => depth'[u] < MaxDepth
      <4>1. CASE u = t
        BY <2>1, <3>1, <4>1 DEF Leaving
      <4>2. CASE u # t
        BY <3>1, <3>2, <4>2 DEF Depths
      <4> QED BY <4>1, <4>2
    <3> QED BY <3>3 DEF Depths
  <2>5. Placed'
    BY <2>1 DEF TInv, ControlTypes, TaskTypes, Placed, OnWrapper, Sending, Manual
  <2> QED BY <2>1, <2>3, <2>4, <2>5 DEF TInv, ControlTypes, DbTypes, poolVars, dbVars
<1>2. CASE ExitBlock(t)
  BY <1>2 DEF ExitBlock, InFrame, OuterFrame, Goto, TInv, ControlTypes, TaskTypes, PCs,
              Leaving, Depths, Placed, OnWrapper, Sending, Manual, DbTypes, poolVars, dbVars
<1>3. CASE ExitAsIs(t)
  <2>1. wconn[t] \in Conns
    BY <1>3 DEF ExitAsIs, OuterFrame, Placed, TInv, ControlTypes
  <2> QED BY <1>3, <2>1, StateType, GiveBackTyped
          DEF ExitAsIs, InFrame, TInv, ControlTypes, TaskTypes
<1>4. CASE ExitDone(t)
  <2>1. wconn[t] \in Conns /\ pc[t] \in {"committing", "rollingback"}
    BY <1>4 DEF ExitDone, Placed, OnWrapper, TInv, ControlTypes
  <2>2. PICK s \in States :
          \/ OuterFrame(t) /\ GiveBack(t, s)
          \/ /\ ~OuterFrame(t)
             /\ Becomes(wconn[t], s)
             /\ Goto(t, "run")
             /\ depth' = [depth EXCEPT ![t] = @ - 1]
             /\ UNCHANGED <<exc, block, user>>
    BY <1>4, <2>1, StateType, StatesClosed DEF ExitDone, TInv
  <2>3. final' \in [Tasks -> {"open", "committed", "rolledback"}]
    BY <1>4 DEF ExitDone, Finalise, TInv, ControlTypes, TaskTypes
  <2>4. UNCHANGED <<ctx, call, want, cconn, wconn, trx, poolVars, cancelled>>
    BY <1>4 DEF ExitDone
  <2>5. CASE OuterFrame(t)
    BY <2>1, <2>2, <2>3, <2>4, <2>5, GiveBackTyped
  <2>6. CASE ~OuterFrame(t)
    <3>1. DbTypes'
      BY <2>2, <2>6, BecomesTypes DEF TInv
    <3>2. ControlTypes'
      BY <2>1, <2>2, <2>3, <2>4, <2>6
         DEF TInv, ControlTypes, TaskTypes, PCs, Leaving, Depths, Placed, OnWrapper,
             Sending, Manual, Goto, poolVars
    <3> QED BY <3>1, <3>2 DEF TInv
  <2> QED BY <2>5, <2>6
<1>5. CASE Released(t)
  BY <1>5 DEF Released, Goto, TInv, ControlTypes, TaskTypes, PCs, Leaving, Depths, Placed,
              OnWrapper, Sending, Manual, Targets, DbTypes, poolVars, dbVars
<1>6. CASE UserFinish(t)
  <2>1. /\ pc[t] = "run"
        /\ \/ pc' = pc
           \/ /\ wconn[t] # NoConn
              /\ \E p \in Manual : pc' = [pc EXCEPT ![t] = p]
        /\ exc' \in {exc, [exc EXCEPT ![t] = "err"], [exc EXCEPT ![t] = "tme"]}
        /\ UNCHANGED <<depth, ctx, call, want, cconn, block, final, wconn, trx, poolVars,
                       user, dbVars, cancelled>>
    BY <1>6 DEF UserFinish, Goto, Raise, CanFinish, Attached
  <2> QED BY <2>1 DEF TInv, ControlTypes, TaskTypes, PCs, Leaving, Depths, Placed,
                      OnWrapper, Sending, Manual, DbTypes, poolVars, dbVars
<1>7. CASE UserFinishDone(t)
  <2>1. wconn[t] \in Conns /\ pc[t] \in Manual
    BY <1>7 DEF UserFinishDone, Placed, OnWrapper, Manual, TInv, ControlTypes
  <2>2. DbTypes'
    BY <1>7, <2>1, StateType, StatesClosed, BecomesTypes DEF UserFinishDone, TInv
  <2>3. ControlTypes'
    BY <1>7, <2>1 DEF UserFinishDone, Finalise, Goto, TInv, ControlTypes, TaskTypes, PCs,
                      Leaving, Depths, Placed, OnWrapper, Sending, Manual, poolVars
  <2> QED BY <2>2, <2>3 DEF TInv
<1> QED BY <1>1, <1>2, <1>3, <1>4, <1>5, <1>6, <1>7 DEF Exit

LEMMA UserTyped ==
    ASSUME TInv, NEW t \in Tasks, User(t)
    PROVE  TInv'
<1> USE PooledAssumption
<1>1. /\ exc' \in [Tasks -> {"none", "err", "tme"}]
      /\ pc[t] = "run" /\ pc' \in {pc, [pc EXCEPT ![t] = "done"]}
      /\ UNCHANGED <<depth, ctx, call, want, cconn, block, final, wconn, trx, poolVars,
                     user, dbVars, cancelled>>
  BY DEF User, Throw, Catch, Finish, InFrame, Goto, Raise, TInv, ControlTypes, TaskTypes
<1> QED BY <1>1 DEF TInv, ControlTypes, TaskTypes, PCs, Leaving, Depths, Placed,
                    OnWrapper, Sending, Manual, DbTypes, poolVars, dbVars

\* Whatever await an exception ends, the control keeps its types, if what is left
\* of the call and its connection does.
LEMMA AbortTyped ==
    ASSUME TInv, NEW t \in Tasks, NEW e \in {"err", "tme"}, Abort(t, e), pc[t] # "run",
           call' \in [Tasks -> Calls], cconn' \in [Tasks -> Conns \cup {NoConn}],
           \A u \in Tasks \ {t} : call'[u] = call[u] /\ cconn'[u] = cconn[u],
           user' \in [Conns -> Tasks \cup {NoTask}],
           cancelled' \subseteq Tasks
    PROVE  ControlTypes'
<1> USE PooledAssumption
<1> DEFINE broken == pc[t] \in Entering \/ (pc[t] \in Leaving /\ OuterFrame(t))
<1>1. /\ pc' = [pc EXCEPT ![t] = "run"] /\ exc' = [exc EXCEPT ![t] = e]
      /\ block' \in {block, [block EXCEPT ![t] = "failed"]}
      /\ block'[t] = "open" => block[t] = "open"
      /\ UNCHANGED <<ctx, want, final, wconn, trx, pool, made>>
  BY DEF Abort, Goto, Raise, poolVars, TInv, ControlTypes, TaskTypes
<1>2. /\ depth' \in [Tasks -> 0..MaxDepth]
      /\ \A u \in Tasks \ {t} : depth'[u] = depth[u]
  <2>1. depth' = [depth EXCEPT ![t] =
                     IF broken THEN 0 ELSE IF pc[t] \in Leaving THEN @ - 1 ELSE @]
    BY DEF Abort
  <2>2. pc[t] \in Leaving => depth[t] - 1 \in 0..MaxDepth
    BY DEF TInv, ControlTypes, TaskTypes, Depths
  <2> HIDE DEF broken
  <2> QED BY <2>1, <2>2 DEF TInv, ControlTypes, TaskTypes
<1>3. TaskTypes'
  <2>1. /\ pc' \in [Tasks -> PCs] /\ exc' \in [Tasks -> {"none", "err", "tme"}]
        /\ block' \in [Tasks -> {"none", "entering", "open", "ok", "error", "failed"}]
    BY <1>1 DEF TInv, ControlTypes, TaskTypes, PCs
  <2> QED BY <1>1, <1>2, <2>1 DEF TInv, ControlTypes, TaskTypes
<1>4. Depths'
  BY <1>1, <1>2 DEF Depths, Leaving, TInv, ControlTypes, TaskTypes
<1>5. Placed'
  BY <1>1 DEF Placed, OnWrapper, Sending, Manual, TInv, ControlTypes, TaskTypes
<1> QED BY <1>1, <1>3, <1>4, <1>5 DEF TInv, ControlTypes

LEMMA FaultTyped ==
    ASSUME TInv, NEW t \in Tasks, Fault(t)
    PROVE  TInv'
<1> USE PooledAssumption
<1>0. NoCall \in Calls /\ call \in [Tasks -> Calls]
      /\ cconn \in [Tasks -> Conns \cup {NoConn}] /\ user \in [Conns -> Tasks \cup {NoTask}]
      /\ cancelled \subseteq Tasks
  BY DEF NoCall, Calls, Targets, TInv, ControlTypes, TaskTypes
<1>1. CASE PoolFails(t)
  BY <1>0, <1>1, AbortTyped DEF PoolFails, TInv, DbTypes, dbVars
<1>2. CASE StartFails(t)
  BY <1>0, <1>2, AbortTyped DEF StartFails, TInv, DbTypes, dbVars
<1>3. CASE FinishFails(t)
  <2>1. wconn[t] \in Conns /\ pc[t] # "run"
    BY <1>3 DEF FinishFails, Placed, OnWrapper, Manual, TInv, ControlTypes
  <2>2. DbTypes'
    BY <1>3, <2>1, StateType, StatesClosed, BecomesTypes
       DEF FinishFails, TInv, DbTypes, dbVars
  <2>3. ControlTypes'
    BY <1>0, <1>3, <2>1, AbortTyped DEF FinishFails
  <2> QED BY <2>2, <2>3 DEF TInv
<1>4. CASE Cancel(t)
  <2>1. Abort(t, "err") /\ pc[t] # "run" /\ cancelled' \subseteq Tasks
    BY <1>0, <1>4 DEF Cancel
  <2>2. CASE /\ call' = [call EXCEPT ![t] = NoCall]
             /\ UNCHANGED <<cconn, user, dbVars>>
    BY <1>0, <2>1, <2>2, AbortTyped DEF TInv, DbTypes, dbVars
  <2>3. CASE /\ pc[t] \in {"stmt", "bulkrows", "bulkcommit", "bulkrollback"}
             /\ \E s \in Outcomes(t, State(ConnOf(t))) : EndCall(t, s)
    <3>1. ConnOf(t) \in Conns
      BY <2>3 DEF ConnOf, Placed, Sending, TInv, ControlTypes
    <3>2. Outcomes(t, State(ConnOf(t))) \subseteq States
      BY <2>3, <3>1, StateType, StatesClosed, SentType DEF Outcomes, TInv
    <3>3. PICK s \in States : EndCall(t, s)
      BY <2>3, <3>2
    <3>4. DbTypes'
      BY <3>3, BecomesTypes, StatesClosed DEF EndCall, TInv
    <3>5. /\ call' = [call EXCEPT ![t] = NoCall] /\ cconn' = [cconn EXCEPT ![t] = NoConn]
          /\ user' \in [Conns -> Tasks \cup {NoTask}]
      BY <1>0, <3>3 DEF EndCall
    <3>6. ControlTypes'
      BY <1>0, <2>1, <3>5, AbortTyped
    <3> QED BY <3>4, <3>6 DEF TInv
  <2>4. CASE /\ pc[t] \in {"starting", "committing", "rollingback"} \cup Manual
             /\ \E s \in Outcomes(t, State(wconn[t])) : Becomes(wconn[t], s)
             /\ UNCHANGED <<call, cconn, user>>
    <3>1. wconn[t] \in Conns
      BY <2>4 DEF Placed, OnWrapper, TInv, ControlTypes
    <3>2. Outcomes(t, State(wconn[t])) \subseteq States
      BY <2>4, <3>1, StateType, StatesClosed DEF Outcomes, Manual, TInv
    <3>3. DbTypes'
      BY <2>4, <3>2, BecomesTypes DEF TInv
    <3>4. ControlTypes'
      BY <1>0, <2>1, <2>4, AbortTyped
    <3> QED BY <3>3, <3>4 DEF TInv
  <2> QED BY <1>4, <2>2, <2>3, <2>4 DEF Cancel
<1> QED BY <1>1, <1>2, <1>3, <1>4 DEF Fault

LEMMA NextTyped == TInv /\ [Next]_vars => TInv'
<1> SUFFICES ASSUME TInv, [Next]_vars PROVE TInv'
  OBVIOUS
<1>1. CASE UNCHANGED vars
  BY <1>1 DEF vars, poolVars, dbVars, TInv, ControlTypes, TaskTypes, Depths, Placed, ConnOf,
              DbTypes
<1>2. ASSUME NEW t \in Tasks, Enter(t) \/ Statement(t) \/ Exit(t) \/ User(t) \/ Fault(t)
      PROVE  TInv'
  BY <1>2, EnterTyped, StatementTyped, ExitTyped, UserTyped, FaultTyped
<1> QED BY <1>1, <1>2 DEF Next, Terminating

-----------------------------------------------------------------------------
(* Who uses a connection *)

\* A cancelled release of asyncpg detaches the wrapper; of the other clients it
\* leaves a wrapper that still sends on the connection it gave back.
Sound == Backend = "asyncpg" \/ "cancel" \notin Faults

\* The wrapper of t keeps its connection from the pool: its block is open, or it
\* was left without a release.
Holds(t) ==
    block[t] = "open" \/ ("cancel" \notin Faults /\ ctx[t] = t /\ wconn[t] # NoConn)

\* What a task that waits is doing, in its block or out of it
Shape(t) ==
    /\ pc[t] \in Entering => block[t] = "entering"
    /\ block[t] = "none" \/ pc[t] = "pooling" => wconn[t] = NoConn
    /\ pc[t] = "releasing" => OuterFrame(t)
    /\ pc[t] = "nestlocking" \/ (depth[t] > 0 /\ pc[t] # "pooling") => ctx[t] = t

\* The connections that t sends on, and those it may send on next
Own(t) ==
    /\ Holds(t) /\ pc[t] # "releasing" => user[wconn[t]] = t
    /\ pc[t] \in OnWrapper => user[wconn[t]] = t
    /\ pc[t] \in Sending =>
          IF call[t].on = Client
            THEN user[cconn[t]] = t /\ (Holds(t) => cconn[t] # wconn[t])
            ELSE user[wconn[t]] = t

OInv == \A t \in Tasks : Shape(t) /\ Own(t)

\* A step of t changes no other task, and takes no connection from one.
Local(t) ==
    /\ \A u \in Tasks \ {t} :
          /\ pc'[u] = pc[u] /\ depth'[u] = depth[u] /\ ctx'[u] = ctx[u]
          /\ block'[u] = block[u] /\ wconn'[u] = wconn[u]
          /\ cconn'[u] = cconn[u] /\ call'[u] = call[u]
    /\ \A c \in Conns : user[c] \notin {t, NoTask} => user'[c] = user[c]

\* No connection is the absence of one.
LEMMA NoConnIsNone == NoConn \notin Conns
BY PooledAssumption DEF NoConn, Conns

\* What is local to t leaves to the others what they own.
LEMMA OthersOwn ==
    ASSUME TInv, OInv, NEW t \in Tasks, Local(t), Shape(t)', Own(t)'
    PROVE  OInv'
<1> SUFFICES ASSUME NEW u \in Tasks \ {t}
             PROVE  Shape(u)' /\ Own(u)'
  BY DEF OInv
<1>1. Shape(u) /\ Own(u) /\ u \notin {t, NoTask}
  BY PooledAssumption DEF OInv
<1>2. Shape(u)'
  BY <1>1 DEF Shape, Local, OuterFrame
<1>3. Holds(u)' = Holds(u)
  BY DEF Holds, Local
<1>4. \A c \in Conns : user[c] = u => user'[c] = u
  BY <1>1 DEF Local
<1>5. /\ Holds(u) => wconn[u] \in Conns
      /\ pc[u] \in OnWrapper => wconn[u] \in Conns
      /\ pc[u] \in Sending =>
            IF call[u].on = Client THEN cconn[u] \in Conns ELSE wconn[u] \in Conns
  BY DEF Holds, Placed, TInv, ControlTypes, TaskTypes
<1>6. Own(u)'
  BY <1>1, <1>3, <1>4, <1>5 DEF Own, Local
<1> QED BY <1>2, <1>6

LEMMA EnterOwns ==
    ASSUME TInv, OInv, NEW t \in Tasks, Enter(t)
    PROVE  OInv'
<1> USE PooledAssumption, NoConnIsNone
        DEF TaskTypes, Entering, Leaving, Manual, Placed, OnWrapper, Sending,
            TInv, ControlTypes, Goto, OuterFrame
<1>0. Shape(t) /\ Own(t)
  BY DEF OInv
<1> SUFFICES Local(t) /\ Shape(t)' /\ Own(t)'
  BY OthersOwn
<1>1. CASE EnterBlock(t)
  <2>1. /\ pc' \in {[pc EXCEPT ![t] = "pooling"], [pc EXCEPT ![t] = "acquiring"]}
        /\ pc'[t] = "acquiring" => ctx'[t] = t
        /\ ctx' \in {ctx, [ctx EXCEPT ![t] = t]}
        /\ block' = [block EXCEPT ![t] = "entering"] /\ block[t] = "none"
        /\ depth' = [depth EXCEPT ![t] = 1]
        /\ UNCHANGED <<call, cconn, wconn, user>>
    BY <1>1 DEF EnterBlock, AcquireFor
  <2> QED BY <1>0, <2>1 DEF Local, Shape, Own, Holds
<1>2. CASE PoolMade(t)
  <2>1. /\ \/ /\ pc[t] = "pooling" /\ pc' = [pc EXCEPT ![t] = "acquiring"]
              /\ ctx' = [ctx EXCEPT ![t] = t]
           \/ /\ pc[t] = "callpooling" /\ pc' = [pc EXCEPT ![t] = "callacquiring"]
              /\ UNCHANGED ctx
        /\ UNCHANGED <<depth, call, cconn, block, wconn, user>>
    BY <1>2 DEF PoolMade, AcquireFor
  <2> QED BY <1>0, <2>1 DEF Local, Shape, Own, Holds
<1>3. CASE TakeConn(t)
  <2>1. PICK c \in Conns : /\ user[c] = NoTask
                           /\ user' = [user EXCEPT ![c] = t]
                           /\ wconn' = [wconn EXCEPT ![t] = c]
    BY <1>3 DEF TakeConn, Free
  <2> QED BY <1>0, <1>3, <2>1 DEF TakeConn, Local, Shape, Own, Holds
<1>4. CASE Started(t)
  BY <1>0, <1>4 DEF Started, Local, Shape, Own, Holds
<1>5. CASE EnterNested(t)
  BY <1>0, <1>5 DEF EnterNested, Local, Shape, Own, Holds
<1>6. CASE NestLocked(t)
  BY <1>0, <1>6 DEF NestLocked, Local, Shape, Own, Holds
<1> QED BY <1>1, <1>2, <1>3, <1>4, <1>5, <1>6 DEF Enter

\* The end of a call gives back the connection of the call, and no other.
LEMMA EndCallOwns ==
    ASSUME TInv, OInv, NEW t \in Tasks, pc[t] \in Sending, NEW s, EndCall(t, s),
           UNCHANGED <<depth, ctx, block, wconn>>
    PROVE  OInv'
<1> USE PooledAssumption DEF TInv, ControlTypes, TaskTypes
<1>1. Shape(t) /\ Own(t)
  BY DEF OInv
<1>2. /\ pc' = [pc EXCEPT ![t] = "run"] /\ call' = [call EXCEPT ![t] = NoCall]
      /\ cconn' = [cconn EXCEPT ![t] = NoConn]
      /\ IF call[t].on = Client THEN user' = [user EXCEPT ![cconn[t]] = NoTask]
                                ELSE UNCHANGED user
  BY DEF EndCall, Goto
<1>3. call[t].on = Client => user[cconn[t]] = t /\ (Holds(t) => cconn[t] # wconn[t])
  BY <1>1 DEF Own
<1>4. Local(t)
  BY <1>2, <1>3 DEF Local
<1>5. Shape(t)'
  BY <1>1, <1>2 DEF Shape, Entering, Sending, OuterFrame
<1>6. Holds(t)' = Holds(t) /\ (Holds(t) => wconn[t] \in Conns)
  BY DEF Holds, Placed
<1>7. Own(t)'
  BY <1>1, <1>2, <1>3, <1>6 DEF Own, Sending, OnWrapper, Manual
<1> QED BY <1>4, <1>5, <1>7, OthersOwn

LEMMA StatementOwns ==
    ASSUME Sound, TInv, OInv, NEW t \in Tasks, Statement(t)
    PROVE  OInv'
<1> USE PooledAssumption, NoConnIsNone DEF TInv, ControlTypes, TaskTypes
<1>0. Shape(t) /\ Own(t)
  BY DEF OInv
<1>1. CASE Call(t)
  <2>1. PICK on \in {ctx[t], Client}, many \in BOOLEAN :
          \/ /\ on = Client
             /\ call' = [call EXCEPT ![t] = [on |-> on, many |-> many]]
             /\ pc' \in {[pc EXCEPT ![t] = "callpooling"], [pc EXCEPT ![t] = "callacquiring"]}
          \/ /\ on # Client /\ Attached(t)
             /\ call' = [call EXCEPT ![t] = [on |-> on, many |-> many]]
             /\ pc' = [pc EXCEPT ![t] = "stmt"]
          \/ UNCHANGED <<pc, call>>
    BY <1>1 DEF Call, Goto
  <2>2. pc[t] = "run" /\ UNCHANGED <<depth, ctx, cconn, block, wconn, user>>
    BY <1>1 DEF Call
  <2>3. on # Client /\ Attached(t) => user[wconn[t]] = t
    BY <1>0, <2>2 DEF Sound, Attached, Own, Holds
  <2>4. Local(t)
    BY <2>1, <2>2 DEF Local
  <2>5. Shape(t)'
    BY <1>0, <2>1, <2>2 DEF Shape, Entering, OuterFrame
  <2>6. Own(t)'
    BY <1>0, <2>1, <2>2, <2>3 DEF Own, Holds, Sending, OnWrapper, Manual
  <2> QED BY <2>4, <2>5, <2>6, OthersOwn
<1>2. CASE CallTakeConn(t)
  <2>1. PICK c \in Conns :
          /\ user[c] = NoTask /\ user' = [user EXCEPT ![c] = t]
          /\ cconn' = [cconn EXCEPT ![t] = c]
          /\ pc' \in {[pc EXCEPT ![t] = "bulkrows"], [pc EXCEPT ![t] = "stmt"]}
    BY <1>2 DEF CallTakeConn, Free, Goto
  <2>2. pc[t] = "callacquiring" /\ UNCHANGED <<depth, ctx, call, block, wconn>>
    BY <1>2 DEF CallTakeConn
  <2>3. call[t].on = Client
    BY <2>2 DEF Placed
  <2>4. Local(t)
    BY <2>1, <2>2 DEF Local
  <2>5. Shape(t)'
    BY <1>0, <2>1, <2>2 DEF Shape, Entering, OuterFrame
  <2>6. Holds(t)' = Holds(t) /\ (Holds(t) => user[wconn[t]] = t /\ wconn[t] \in Conns)
    BY <1>0, <2>2 DEF Holds, Own, Placed
  <2>7. Own(t)'
    BY <1>0, <2>1, <2>2, <2>3, <2>6 DEF Own, Sending, OnWrapper, Manual
  <2> QED BY <2>4, <2>5, <2>7, OthersOwn
<1>3. CASE StmtDone(t) \/ StmtFails(t) \/ BulkEnded(t)
  <2>1. PICK s : EndCall(t, s)
    BY <1>3 DEF StmtDone, StmtFails, BulkEnded
  <2> QED BY <1>3, <2>1, EndCallOwns DEF StmtDone, StmtFails, BulkEnded, Sending
<1>4. CASE BulkInserted(t) \/ BulkFailed(t)
  <2>1. /\ pc[t] = "bulkrows"
        /\ pc' \in {[pc EXCEPT ![t] = "bulkcommit"], [pc EXCEPT ![t] = "bulkrollback"]}
        /\ UNCHANGED <<depth, ctx, call, cconn, block, wconn, user>>
    BY <1>4 DEF BulkInserted, BulkFailed, Goto
  <2>2. Local(t)
    BY <2>1 DEF Local
  <2>3. Shape(t)'
    BY <1>0, <2>1 DEF Shape, Entering, OuterFrame
  <2>4. Own(t)'
    BY <1>0, <2>1 DEF Own, Holds, Sending, OnWrapper, Manual
  <2> QED BY <2>2, <2>3, <2>4, OthersOwn
<1> QED BY <1>1, <1>2, <1>3, <1>4 DEF Statement

\* A connection that goes back to its pool is the one of the wrapper; when the
\* release raises, the wrapper keeps it.
LEMMA GiveBackOwns ==
    ASSUME TInv, OInv, NEW t \in Tasks, pc[t] \in {"run", "committing", "rollingback"},
           OuterFrame(t), NEW s, GiveBack(t, s),
           UNCHANGED <<ctx, call, cconn, wconn>>
    PROVE  OInv'
<1> USE PooledAssumption DEF TInv, ControlTypes, TaskTypes, OuterFrame
<1>1. Shape(t) /\ Own(t) /\ Holds(t) /\ user[wconn[t]] = t /\ ctx[t] = t
  BY DEF OInv, Own, Holds, Shape
<1>2. \/ /\ user' = [user EXCEPT ![wconn[t]] = NoTask]
         /\ pc' = [pc EXCEPT ![t] = "releasing"]
         /\ UNCHANGED <<block, depth>>
      \/ /\ pc' = [pc EXCEPT ![t] = "run"]
         /\ block' = [block EXCEPT ![t] = "failed"]
         /\ depth' = [depth EXCEPT ![t] = 0]
         /\ UNCHANGED user
  BY DEF GiveBack, Goto
<1>3. Local(t)
  BY <1>1, <1>2 DEF Local
<1>4. Shape(t)'
  BY <1>1, <1>2 DEF Shape, Entering
<1>5. Own(t)'
  BY <1>1, <1>2 DEF Own, Holds, Sending, OnWrapper, Manual
<1> QED BY <1>3, <1>4, <1>5, OthersOwn

LEMMA ExitOwns ==
    ASSUME Sound, TInv, OInv, NEW t \in Tasks, Exit(t)
    PROVE  OInv'
<1> USE PooledAssumption DEF TInv, ControlTypes, TaskTypes
<1>0. Shape(t) /\ Own(t)
  BY DEF OInv
<1>1. CASE ExitNested(t)
  <2>1. /\ pc[t] = "run" /\ depth[t] > 0
        /\ \/ /\ pc' = [pc EXCEPT ![t] = "rollingback"] /\ CanFinish(t)
              /\ UNCHANGED depth
           \/ depth' = [depth EXCEPT ![t] = @ - 1] /\ UNCHANGED pc
        /\ UNCHANGED <<ctx, call, cconn, block, wconn, user>>
    BY <1>1 DEF ExitNested, InFrame, Goto
  <2>2. ctx[t] = t
    BY <1>0, <2>1 DEF Shape
  <2>3. CanFinish(t) => user[wconn[t]] = t
    BY <1>0, <2>1, <2>2 DEF Sound, CanFinish, Attached, Own, Holds
  <2>4. Local(t)
    BY <2>1 DEF Local
  <2>5. Shape(t)'
    BY <1>0, <2>1, <2>2 DEF Shape, Entering, OuterFrame
  <2>6. Own(t)'
    BY <1>0, <2>1, <2>3 DEF Own, Holds, Sending, OnWrapper, Manual
  <2> QED BY <2>4, <2>5, <2>6, OthersOwn
<1>2. CASE ExitBlock(t)
  <2>1. /\ pc[t] = "run" /\ OuterFrame(t)
        /\ pc' \in {[pc EXCEPT ![t] = "committing"], [pc EXCEPT ![t] = "rollingback"]}
        /\ UNCHANGED <<depth, ctx, call, cconn, block, wconn, user>>
    BY <1>2 DEF ExitBlock, InFrame, Goto
  <2>2. Local(t)
    BY <2>1 DEF Local
  <2>3. Shape(t)'
    BY <1>0, <2>1 DEF Shape, Entering, OuterFrame
  <2>4. Own(t)'
    BY <1>0, <2>1 DEF Own, Holds, OuterFrame, Sending, OnWrapper, Manual
  <2> QED BY <2>2, <2>3, <2>4, OthersOwn
<1>3. CASE ExitAsIs(t)
  BY <1>3, GiveBackOwns DEF ExitAsIs, InFrame
<1>4. CASE ExitDone(t)
  <2>1. CASE OuterFrame(t)
    <3>1. PICK s : GiveBack(t, s)
      BY <1>4, <2>1 DEF ExitDone
    <3> QED BY <1>4, <2>1, <3>1, GiveBackOwns DEF ExitDone
  <2>2. CASE ~OuterFrame(t)
    <3>1. /\ pc[t] \in {"committing", "rollingback"}
          /\ pc' = [pc EXCEPT ![t] = "run"]
          /\ depth' = [depth EXCEPT ![t] = @ - 1]
          /\ UNCHANGED <<ctx, call, cconn, block, wconn, user>>
      BY <1>4, <2>2 DEF ExitDone, Goto
    <3>2. depth[t] > 0
      BY <3>1 DEF Depths, Leaving
    <3>3. Local(t)
      BY <3>1 DEF Local
    <3>4. Shape(t)'
      BY <1>0, <3>1, <3>2 DEF Shape, Entering, OuterFrame
    <3>5. Own(t)'
      BY <1>0, <3>1 DEF Own, Holds, Sending, OnWrapper, Manual
    <3> QED BY <3>3, <3>4, <3>5, OthersOwn
  <2> QED BY <2>1, <2>2
<1>5. CASE Released(t)
  <2>1. /\ pc[t] = "releasing" /\ pc' = [pc EXCEPT ![t] = "run"]
        /\ ctx' = [ctx EXCEPT ![t] = Client] /\ depth' = [depth EXCEPT ![t] = 0]
        /\ block'[t] \notin {"none", "open"}
        /\ \A u \in Tasks \ {t} : block'[u] = block[u]
        /\ UNCHANGED <<call, cconn, wconn, user>>
    BY <1>5 DEF Released, Goto
  <2>2. Local(t)
    BY <2>1 DEF Local
  <2>3. Shape(t)'
    BY <2>1 DEF Shape, Entering
  <2>4. Own(t)'
    BY <2>1 DEF Own, Holds, Sending, OnWrapper, Manual
  <2> QED BY <2>2, <2>3, <2>4, OthersOwn
<1>6. CASE UserFinish(t)
  <2>1. /\ pc[t] = "run" /\ ctx[t] # Client
        /\ \/ UNCHANGED pc
           \/ CanFinish(t) /\ \E p \in Manual : pc' = [pc EXCEPT ![t] = p]
        /\ UNCHANGED <<depth, ctx, call, cconn, block, wconn, user>>
    BY <1>6 DEF UserFinish, Goto
  <2>2. CanFinish(t) => user[wconn[t]] = t
    BY <1>0, <2>1 DEF Sound, CanFinish, Attached, Own, Holds
  <2>3. Local(t)
    BY <2>1 DEF Local
  <2>4. Shape(t)'
    BY <1>0, <2>1 DEF Shape, Entering, OuterFrame, Manual
  <2>5. Own(t)'
    BY <1>0, <2>1, <2>2 DEF Own, Holds, Sending, OnWrapper, Manual
  <2> QED BY <2>3, <2>4, <2>5, OthersOwn
<1>7. CASE UserFinishDone(t)
  <2>1. /\ pc[t] \in Manual /\ pc' = [pc EXCEPT ![t] = "run"]
        /\ UNCHANGED <<depth, ctx, call, cconn, block, wconn, user>>
    BY <1>7 DEF UserFinishDone, Goto, Manual
  <2>2. Local(t)
    BY <2>1 DEF Local
  <2>3. Shape(t)'
    BY <1>0, <2>1 DEF Shape, Entering, OuterFrame, Manual
  <2>4. Own(t)'
    BY <1>0, <2>1 DEF Own, Holds, Sending, OnWrapper, Manual
  <2> QED BY <2>2, <2>3, <2>4, OthersOwn
<1> QED BY <1>1, <1>2, <1>3, <1>4, <1>5, <1>6, <1>7 DEF Exit

LEMMA UserOwns ==
    ASSUME TInv, OInv, NEW t \in Tasks, User(t)
    PROVE  OInv'
<1> USE DEF TInv, ControlTypes, TaskTypes
<1>1. /\ pc[t] = "run" /\ pc' \in {pc, [pc EXCEPT ![t] = "done"]}
      /\ UNCHANGED <<depth, ctx, call, cconn, block, wconn, user>>
  BY DEF User, Throw, Catch, Finish, InFrame, Goto
<1>2. Shape(t) /\ Own(t)
  BY DEF OInv
<1>3. Local(t)
  BY <1>1 DEF Local
<1>4. Shape(t)'
  BY <1>1, <1>2 DEF Shape, Entering, OuterFrame
<1>5. Own(t)'
  BY <1>1, <1>2 DEF Own, Holds, Sending, OnWrapper, Manual
<1> QED BY <1>3, <1>4, <1>5, OthersOwn

\* An exception that ends an await out of the call leaves every connection where it
\* was: only a cancelled release has given it back.
LEMMA AbortOwns ==
    ASSUME Sound, TInv, OInv, NEW t \in Tasks, NEW e, Abort(t, e),
           pc[t] \notin {"run"} \cup Sending,
           pc[t] = "releasing" => "cancel" \in Faults,
           \A u \in Tasks \ {t} : call'[u] = call[u], UNCHANGED <<cconn, user>>
    PROVE  OInv'
<1> USE PooledAssumption DEF TInv, ControlTypes, TaskTypes
<1>0. Shape(t) /\ Own(t)
  BY DEF OInv
<1> DEFINE broken == pc[t] \in Entering \/ (pc[t] \in Leaving /\ OuterFrame(t))
<1>1. /\ pc' = [pc EXCEPT ![t] = "run"]
      /\ block' = IF broken THEN [block EXCEPT ![t] = "failed"] ELSE block
      /\ depth' = [depth EXCEPT ![t] =
                     IF broken THEN 0 ELSE IF pc[t] \in Leaving THEN @ - 1 ELSE @]
      /\ UNCHANGED <<ctx, wconn>>
  BY DEF Abort, Goto
<1>2. Local(t)
  BY <1>1 DEF Local
<1>3. Shape(t)'
  <2>1. CASE broken
    BY <1>0, <1>1, <2>1 DEF Shape, Entering
  <2>2. CASE ~broken
    <3>1. pc[t] # "pooling" /\ (pc[t] \in Leaving => depth[t] > 0)
      BY <2>2 DEF Depths, Entering
    <3> QED BY <1>0, <1>1, <2>2, <3>1 DEF Shape, Entering
  <2> QED BY <2>1, <2>2
<1>4. (Holds(t))' => Holds(t) /\ pc[t] # "releasing"
  BY <1>0, <1>1 DEF Holds, Shape, Leaving
<1>5. Own(t)'
  BY <1>0, <1>1, <1>4 DEF Own, Sending, OnWrapper, Manual
<1> QED BY <1>2, <1>3, <1>5, OthersOwn

LEMMA FaultOwns ==
    ASSUME Sound, TInv, OInv, NEW t \in Tasks, Fault(t)
    PROVE  OInv'
<1>1. CASE PoolFails(t)
  BY <1>1, AbortOwns DEF PoolFails, Sending, TInv, ControlTypes, TaskTypes
<1>2. CASE StartFails(t)
  BY <1>2, AbortOwns DEF StartFails, Sending
<1>3. CASE FinishFails(t)
  BY <1>3, AbortOwns DEF FinishFails, Sending
<1>4. CASE Cancel(t)
  <2>1. Abort(t, "err") /\ "cancel" \in Faults
    BY <1>4 DEF Cancel
  <2>2. CASE /\ pc[t] \in {"pooling", "acquiring", "nestlocking", "releasing",
                           "callpooling", "callacquiring"}
             /\ call' = [call EXCEPT ![t] = NoCall]
             /\ UNCHANGED <<cconn, user, dbVars>>
    BY <2>1, <2>2, AbortOwns DEF Sending, TInv, ControlTypes, TaskTypes
  <2>3. CASE /\ pc[t] \in {"stmt", "bulkrows", "bulkcommit", "bulkrollback"}
             /\ \E s \in Outcomes(t, State(ConnOf(t))) : EndCall(t, s)
    <3>1. PICK s : EndCall(t, s)
      BY <2>3
    <3>2. UNCHANGED <<depth, ctx, block, wconn>>
      BY <2>1, <2>3 DEF Abort, Entering, Leaving, TInv, ControlTypes, TaskTypes
    <3> QED BY <2>3, <3>1, <3>2, EndCallOwns DEF Sending
  <2>4. CASE /\ pc[t] \in {"starting", "committing", "rollingback"} \cup Manual
             /\ \E s \in Outcomes(t, State(wconn[t])) : Becomes(wconn[t], s)
             /\ UNCHANGED <<call, cconn, user>>
    BY <2>1, <2>4, AbortOwns DEF Sending, Manual
  <2> QED BY <1>4, <2>2, <2>3, <2>4 DEF Cancel
<1> QED BY <1>1, <1>2, <1>3, <1>4 DEF Fault

LEMMA InitOwns == Init => OInv
<1> SUFFICES ASSUME Init, NEW t \in Tasks PROVE Shape(t) /\ Own(t)
  BY DEF OInv
<1> QED BY PooledAssumption
        DEF Init, Shape, Own, Holds, Entering, Sending, OnWrapper, Manual

LEMMA NextOwns ==
    ASSUME Sound, TInv, OInv, [Next]_vars
    PROVE  OInv'
<1>1. CASE UNCHANGED vars
  BY <1>1 DEF vars, OInv, Shape, Own, Holds, OuterFrame
<1>2. ASSUME NEW t \in Tasks, Enter(t) \/ Statement(t) \/ Exit(t) \/ User(t) \/ Fault(t)
      PROVE  OInv'
  BY <1>2, EnterOwns, StatementOwns, ExitOwns, UserOwns, FaultOwns
<1> QED BY <1>1, <1>2 DEF Next, Terminating

-----------------------------------------------------------------------------
(* Theorems *)

\* The invariant of the types holds.
LEMMA TypesInvariant == Spec => []TInv
<1> QED BY InitTyped, NextTyped, PTL DEF Spec

\* Every variable has its type, for every number of tasks and pools, and whatever
\* fails or is cancelled: an await resumes with the connection it needs.
THEOREM PooledTypeCorrect == Spec => []TypeOK
<1>1. TInv => TypeOK
  BY DEF TInv, ControlTypes, DbTypes, TypeOK, StoreTypes
<1> QED BY <1>1, TypesInvariant, PTL

\* No two tasks talk on one connection: a block owns its connection until it gives
\* it back to the pool, and a request is sent on a connection of its task's own,
\* whatever fails, and with asyncpg whatever is cancelled too.
THEOREM OneUserPerConnection ==
    ASSUME Sound
    PROVE  Spec => []ConnectionOwned
<1>1. OInv => ConnectionOwned
  <2> SUFFICES ASSUME OInv, NEW t \in Tasks
               PROVE  /\ block[t] = "open" /\ pc[t] # "releasing" => user[wconn[t]] = t
                      /\ RequestConn(t) # NoConn => user[RequestConn(t)] = t
    BY DEF ConnectionOwned
  <2>1. Own(t)
    BY DEF OInv
  <2> QED BY <2>1 DEF Own, Holds, RequestConn, ConnOf, Sending, OnWrapper
<1>2. TInv /\ OInv /\ [Next]_vars => OInv'
  BY NextOwns
<1>3. Spec => []OInv
  BY InitOwns, TypesInvariant, <1>2, PTL DEF Spec
<1> QED BY <1>1, <1>3, PTL
=============================================================================
