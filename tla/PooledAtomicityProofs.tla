------------------------- MODULE PooledAtomicityProofs -------------------------
(***************************************************************************)
(* Theorems about what PooledTransactions leaves in the database, for      *)
(* every set of tasks and pools of every size: bulk inserts, blocks that   *)
(* are all or nothing, blocks that an error leaves, and the abstract store *)
(* of TransactionStore that the clients implement.                         *)
(***************************************************************************)
EXTENDS PooledTransactionsProofs

-----------------------------------------------------------------------------
(* A step of one task *)

Step(t) == Enter(t) \/ Statement(t) \/ Exit(t) \/ User(t) \/ Fault(t)

\* A step of t changes nothing of another task's.
Alone(t) == Local(t) /\ \A u \in Tasks \ {t} : final'[u] = final[u]

LEMMA EnterAlone ==
    ASSUME TInv, NEW t \in Tasks, Enter(t)
    PROVE  Alone(t)
<1> USE PooledAssumption DEF TInv, ControlTypes, TaskTypes, Alone, Local, Goto
<1>1. CASE EnterBlock(t)
  BY <1>1 DEF EnterBlock, AcquireFor
<1>2. CASE PoolMade(t)
  BY <1>2 DEF PoolMade, AcquireFor
<1>3. CASE TakeConn(t)
  BY <1>3 DEF TakeConn, Free
<1>4. CASE Started(t)
  BY <1>4 DEF Started
<1>5. CASE EnterNested(t)
  BY <1>5 DEF EnterNested
<1>6. CASE NestLocked(t)
  BY <1>6 DEF NestLocked
<1> QED BY <1>1, <1>2, <1>3, <1>4, <1>5, <1>6 DEF Enter

LEMMA EndCallAlone ==
    ASSUME TInv, OInv, NEW t \in Tasks, pc[t] \in Sending, NEW s, EndCall(t, s),
           UNCHANGED <<depth, ctx, block, final, wconn>>
    PROVE  Alone(t)
<1>1. call[t].on = Client => user[cconn[t]] = t
  BY DEF OInv, Own
<1> QED BY <1>1 DEF EndCall, Goto, TInv, ControlTypes, TaskTypes, Alone, Local

LEMMA StatementAlone ==
    ASSUME TInv, OInv, NEW t \in Tasks, Statement(t)
    PROVE  Alone(t)
<1> USE PooledAssumption DEF TInv, ControlTypes, TaskTypes, Alone, Local, Goto
<1>1. CASE Call(t)
  <2>1. /\ UNCHANGED <<depth, ctx, cconn, block, final, wconn, user>>
        /\ \E p : pc' = pc \/ pc' = [pc EXCEPT ![t] = p]
        /\ \E z : call' = call \/ call' = [call EXCEPT ![t] = z]
    BY <1>1 DEF Call
  <2> QED BY <2>1
<1>2. CASE CallTakeConn(t)
  BY <1>2 DEF CallTakeConn, Free
<1>3. CASE StmtDone(t) \/ StmtFails(t) \/ BulkEnded(t)
  <2>1. PICK s : EndCall(t, s)
    BY <1>3 DEF StmtDone, StmtFails, BulkEnded
  <2> QED BY <1>3, <2>1, EndCallAlone DEF StmtDone, StmtFails, BulkEnded, Sending
<1>4. CASE BulkInserted(t) \/ BulkFailed(t)
  BY <1>4 DEF BulkInserted, BulkFailed
<1> QED BY <1>1, <1>2, <1>3, <1>4 DEF Statement

LEMMA ExitAlone ==
    ASSUME TInv, OInv, NEW t \in Tasks, Exit(t)
    PROVE  Alone(t)
<1> USE PooledAssumption DEF TInv, ControlTypes, TaskTypes, Alone, Local, Goto, Finalise
<1>0. OuterFrame(t) /\ pc[t] # "releasing" => user[wconn[t]] = t
  BY DEF OInv, Own, Holds, OuterFrame
<1>1. CASE ExitNested(t) \/ ExitBlock(t) \/ UserFinish(t)
  <2>1. /\ UNCHANGED <<ctx, call, cconn, block, final, wconn, user>>
        /\ \E p \in PCs : pc' \in {pc, [pc EXCEPT ![t] = p]}
        /\ depth' \in {depth, [depth EXCEPT ![t] = @ - 1]}
    BY <1>1 DEF ExitNested, ExitBlock, UserFinish, PCs, Leaving
  <2> QED BY <2>1
<1>2. CASE ExitAsIs(t)
  BY <1>0, <1>2 DEF ExitAsIs, InFrame, GiveBack
<1>3. CASE ExitDone(t)
  BY <1>0, <1>3 DEF ExitDone, GiveBack
<1>4. CASE Released(t)
  BY <1>4 DEF Released
<1>5. CASE UserFinishDone(t)
  BY <1>5 DEF UserFinishDone
<1> QED BY <1>1, <1>2, <1>3, <1>4, <1>5 DEF Exit

LEMMA FaultAlone ==
    ASSUME TInv, OInv, NEW t \in Tasks, Fault(t)
    PROVE  Alone(t)
<1> USE PooledAssumption DEF TInv, ControlTypes, TaskTypes, Alone, Local, Goto
<1>1. PICK e \in {"err"} : Abort(t, e)
  BY DEF Fault, PoolFails, StartFails, FinishFails, Cancel
<1>2. CASE /\ call' \in {call, [call EXCEPT ![t] = NoCall]}
           /\ UNCHANGED <<cconn, user>>
  BY <1>1, <1>2 DEF Abort
<1>3. CASE pc[t] \in Sending /\ \E s : EndCall(t, s)
  <2>1. PICK s : EndCall(t, s)
    BY <1>3
  <2>2. UNCHANGED <<depth, ctx, block, final, wconn>>
    BY <1>1, <1>3 DEF Abort, Entering, Leaving, Sending
  <2> QED BY <1>3, <2>1, <2>2, EndCallAlone
<1> QED BY <1>2, <1>3 DEF Fault, PoolFails, StartFails, FinishFails, Cancel, Sending

LEMMA StepAlone ==
    ASSUME TInv, OInv, NEW t \in Tasks, Step(t)
    PROVE  Alone(t)
<1>1. CASE User(t)
  BY <1>1 DEF User, Throw, Catch, Finish, Goto, TInv, ControlTypes, TaskTypes, Alone, Local
<1> QED BY <1>1, EnterAlone, StatementAlone, ExitAlone, FaultAlone DEF Step

-----------------------------------------------------------------------------
(* What a request leaves of a connection *)

\* The fields of what start(), commit(), rollback(), a failure or a release leaves.
LEMMA EndFields ==
    ASSUME NEW s \in States
    PROVE  /\ RolledBack(s).status = "none" /\ RolledBack(s).rows = {}
           /\ RolledBack(s).durable = s.durable /\ RolledBack(s).lost = s.lost \cup s.rows
           /\ RolledBack(s).auto = s.auto
           /\ Committed(s).status = "none" /\ Committed(s).rows = {}
           /\ Committed(s).auto = s.auto
           /\ s.status = "aborted" => Committed(s) = RolledBack(s)
           /\ s.status # "aborted" => /\ Committed(s).durable = s.durable \cup s.rows
                                      /\ Committed(s).lost = s.lost
           /\ RolledBackTx(s) = [RolledBack(s) EXCEPT !.auto = TRUE]
           /\ CommittedTx(s) = [Committed(s) EXCEPT !.auto = TRUE]
           /\ Returned(s) \in {s, RolledBack(s)}
           /\ Returned(s).status = "none"
           /\ s.status = "none" => Returned(s) = s
           /\ s.status # "none" => Returned(s) = RolledBack(s)
BY StatesClosed DEF States, RolledBack, Committed, RolledBackTx, CommittedTx, Returned

\* Only a rollback and a commit move rows, and neither start() nor a failure does.
LEMMA MarkFields ==
    ASSUME NEW s \in States, NEW r \in {Aborted(s), StartedTx(s), [s EXCEPT !.status = "open"]}
    PROVE  r.rows = s.rows /\ r.durable = s.durable /\ r.lost = s.lost
BY DEF States, Aborted, StartedTx

\* Where a statement's rows go.
LEMMA WroteFields ==
    ASSUME NEW s \in States, NEW rows \in SUBSET Rows
    PROVE  /\ Wrote(s, rows).lost = s.lost /\ Wrote(s, rows).auto = s.auto
           /\ s.status = "none" /\ s.auto =>
                 /\ Wrote(s, rows).durable = s.durable \cup rows
                 /\ Wrote(s, rows).rows = s.rows /\ Wrote(s, rows).status = "none"
           /\ ~(s.status = "none" /\ s.auto) =>
                 /\ Wrote(s, rows).durable = s.durable
                 /\ Wrote(s, rows).rows = s.rows \cup rows
                 /\ Wrote(s, rows).status = "open"
BY DEF States, Wrote

\* What a connection in state s holds after Becomes.
LEMMA BecomesFields ==
    ASSUME DbTypes, NEW c \in Conns, NEW s \in States, Becomes(c, s)
    PROVE  /\ db'[c].status = s.status /\ db'[c].auto = s.auto /\ db'[c].rows = s.rows
           /\ durable' = s.durable /\ lost' = s.lost
           /\ \A d \in Conns \ {c} : db'[d] = db[d]
BY DEF DbTypes, States, Becomes

\* What a connection is before it.
LEMMA StateFields ==
    ASSUME NEW c
    PROVE  /\ State(c).status = db[c].status /\ State(c).auto = db[c].auto
           /\ State(c).rows = db[c].rows
           /\ State(c).durable = durable /\ State(c).lost = lost
BY DEF State

-----------------------------------------------------------------------------
(* Bulk inserts on the client *)

Bulking == {"bulkrows", "bulkrollback"}
BulkRow(t, n) == [by |-> t, via |-> Client, late |-> FALSE, part |-> n]

\* A set of rows has both rows of a bulk insert on the client, or none.
Whole(rows) == \A t \in Tasks : BulkRow(t, 1) \in rows <=> BulkRow(t, 2) \in rows
WholeState(s) == Whole(s.rows) /\ Whole(s.durable)

\* A bulk insert that failed on c has still to roll back.
Halved(c) == \E t \in Tasks : pc[t] = "bulkrollback" /\ cconn[t] = c

BulkInv ==
    /\ Whole(durable)
    /\ \A c \in Conns : Whole(db[c].rows) \/ Halved(c)
    /\ \A t \in Tasks : pc[t] \in Bulking => db[cconn[t]].status # "none"

\* A statement, or both rows of a bulk insert, are whole; so is what becomes of
\* whole rows.
LEMMA WholeKept ==
    ASSUME NEW s \in States, WholeState(s)
    PROVE  /\ WholeState(RolledBack(s)) /\ WholeState(Committed(s))
           /\ WholeState(Aborted(s)) /\ WholeState(StartedTx(s)) /\ WholeState(Returned(s))
           /\ WholeState(CommittedTx(s)) /\ WholeState(RolledBackTx(s))
           /\ WholeState([s EXCEPT !.status = "open"])
           /\ \A rows \in SUBSET Rows : Whole(rows) => WholeState(Wrote(s, rows))
<1> USE DEF WholeState, Whole
<1>1. WholeState(RolledBack(s)) /\ WholeState(Committed(s))
  BY EndFields
<1>2. /\ WholeState(Aborted(s)) /\ WholeState(StartedTx(s))
      /\ WholeState([s EXCEPT !.status = "open"])
  BY MarkFields
<1>3. WholeState(Returned(s))
  BY <1>1, EndFields
<1>4. \A z \in States : [z EXCEPT !.auto = TRUE].rows = z.rows
                        /\ [z EXCEPT !.auto = TRUE].durable = z.durable
  BY DEF States
<1>5. WholeState(CommittedTx(s)) /\ WholeState(RolledBackTx(s))
  <2>1. Committed(s) \in States /\ RolledBack(s) \in States
    BY StatesClosed
  <2>2. /\ CommittedTx(s).rows = Committed(s).rows
        /\ CommittedTx(s).durable = Committed(s).durable
        /\ RolledBackTx(s).rows = RolledBack(s).rows
        /\ RolledBackTx(s).durable = RolledBack(s).durable
    BY <1>4, <2>1 DEF CommittedTx, RolledBackTx
  <2> QED BY <1>1, <2>2
<1>6. ASSUME NEW rows \in SUBSET Rows, Whole(rows)
      PROVE  WholeState(Wrote(s, rows))
  BY <1>6, WroteFields
<1> QED BY <1>1, <1>2, <1>3, <1>5, <1>6

LEMMA RowsWhole ==
    ASSUME TInv, NEW t \in Tasks
    PROVE  Whole(RowsOf(t, {0})) /\ Whole(RowsOf(t, {1, 2}))
<1> DEFINE late == call[t].on # Client /\ final[t] # "open"
<1>1. \A row, parts : row \in RowsOf(t, parts) <=>
         \E n \in parts : row = [by |-> t, via |-> call[t].on, part |-> n, late |-> late]
  BY DEF RowsOf
<1>2. \A u \in Tasks : \A n \in {1, 2}, parts \in {{0}, {1, 2}} :
         BulkRow(u, n) \in RowsOf(t, parts) <=> u = t /\ call[t].on = Client /\ n \in parts
  <2> SUFFICES ASSUME NEW u \in Tasks, NEW n \in {1, 2}, NEW parts \in {{0}, {1, 2}}
               PROVE  BulkRow(u, n) \in RowsOf(t, parts) <=>
                         u = t /\ call[t].on = Client /\ n \in parts
    OBVIOUS
  <2>1. \A m : BulkRow(u, n) = [by |-> t, via |-> call[t].on, part |-> m, late |-> late]
                 <=> u = t /\ call[t].on = Client /\ n = m
    <3>1. call[t].on = Client => late = FALSE
      OBVIOUS
    <3> HIDE DEF late
    <3> QED BY <3>1 DEF BulkRow
  <2> QED BY <1>1, <2>1
<1> QED BY <1>2 DEF Whole

LEMMA SentWhole ==
    ASSUME TInv, NEW t \in Tasks, ConnOf(t) \in Conns, WholeState(State(ConnOf(t)))
    PROVE  WholeState(Sent(t))
<1> DEFINE rows == RowsOf(t, IF call[t].many THEN {1, 2} ELSE {0})
<1>1. rows \in SUBSET Rows /\ Whole(rows)
  BY RowsWhole, RowsOfType DEF TInv, ControlTypes
<1>2. State(ConnOf(t)) \in States
  BY StateType DEF TInv
<1>3. WholeState(Wrote(State(ConnOf(t)), rows)) /\ Wrote(State(ConnOf(t)), rows) \in States
  BY <1>1, <1>2, WholeKept, StatesClosed
<1> HIDE DEF rows
<1>4. WholeState(Committed(Wrote(State(ConnOf(t)), rows)))
  BY <1>3, WholeKept
<1> QED BY <1>3, <1>4 DEF Sent, rows

\* A connection that no other task uses is whole, unless t has it to roll back.
LEMMA WholeHere ==
    ASSUME TInv, OInv, BulkInv, NEW t \in Tasks, NEW c \in Conns,
           user[c] \in {t, NoTask}, pc[t] # "bulkrollback"
    PROVE  WholeState(State(c))
<1>1. \A u \in Tasks : pc[u] = "bulkrollback" => user[cconn[u]] = u
  BY DEF OInv, Own, Sending, Placed, TInv, ControlTypes
<1>2. ~Halved(c)
  BY <1>1, PooledAssumption DEF Halved
<1> QED BY <1>2, StateFields DEF BulkInv, WholeState

\* A step of t that leaves a connection of its own in state s.
LEMMA TouchBulk ==
    ASSUME TInv, OInv, BulkInv, NEW t \in Tasks, Alone(t),
           NEW c \in Conns, user[c] \in {t, NoTask}, NEW s \in States, Becomes(c, s),
           pc[t] = "bulkrollback" => cconn[t] = c,
           Whole(s.durable),
           Whole(s.rows) \/ (pc'[t] = "bulkrollback" /\ cconn'[t] = c),
           pc'[t] \in Bulking => cconn'[t] = c /\ s.status # "none"
    PROVE  BulkInv'
<1>1. /\ db'[c].status = s.status /\ db'[c].rows = s.rows /\ durable' = s.durable
      /\ \A d \in Conns \ {c} : db'[d] = db[d]
  BY BecomesFields DEF TInv
<1>2. \A u \in Tasks \ {t} : pc'[u] = pc[u] /\ cconn'[u] = cconn[u]
  BY DEF Alone, Local
<1>3. \A u \in Tasks : pc[u] \in Bulking => user[cconn[u]] = u /\ cconn[u] \in Conns
  BY DEF OInv, Own, Sending, Bulking, Placed, TInv, ControlTypes
<1>4. Whole(durable)'
  BY <1>1 DEF Whole
<1>5. ASSUME NEW d \in Conns PROVE (Whole(db[d].rows) \/ Halved(d))'
  <2>1. CASE d = c
    BY <1>1, <2>1 DEF Whole, Halved
  <2>2. CASE d # c /\ Whole(db[d].rows)
    BY <1>1, <2>2 DEF Whole
  <2>3. CASE d # c /\ Halved(d)
    BY <1>2, <2>3 DEF Halved
  <2> QED BY <2>1, <2>2, <2>3 DEF BulkInv
<1>6. ASSUME NEW u \in Tasks, pc'[u] \in Bulking PROVE db'[cconn'[u]].status # "none"
  BY <1>1, <1>2, <1>3, <1>6, PooledAssumption DEF BulkInv
<1> QED BY <1>4, <1>5, <1>6 DEF BulkInv

\* A step of t that leaves the database alone.
LEMMA QuietBulk ==
    ASSUME TInv, BulkInv, NEW t \in Tasks, Alone(t), UNCHANGED dbVars,
           pc[t] # "bulkrollback", pc'[t] \notin Bulking
    PROVE  BulkInv'
<1>1. \A u \in Tasks \ {t} : pc'[u] = pc[u] /\ cconn'[u] = cconn[u]
  BY DEF Alone, Local
<1>2. ASSUME NEW d \in Conns PROVE (Whole(db[d].rows) \/ Halved(d))'
  BY <1>1 DEF BulkInv, dbVars, Whole, Halved
<1>3. Whole(durable)' /\ \A u \in Tasks : pc'[u] \in Bulking => db'[cconn'[u]].status # "none"
  BY <1>1 DEF BulkInv, dbVars, Whole
<1> QED BY <1>2, <1>3 DEF BulkInv

\* The end of a call, with its connection in state s.
LEMMA EndCallBulk ==
    ASSUME TInv, OInv, BulkInv, NEW t \in Tasks, Alone(t), pc[t] \in Sending,
           NEW s \in States, EndCall(t, s),
           WholeState(s) \/ (call[t].on = Client /\ WholeState(RolledBack(s)) /\ s.status # "none")
    PROVE  BulkInv'
<1>1. ConnOf(t) \in Conns /\ user[ConnOf(t)] = t
  BY DEF OInv, Own, ConnOf, Placed, TInv, ControlTypes
<1>2. pc[t] = "bulkrollback" => cconn[t] = ConnOf(t)
  BY DEF ConnOf, Placed, Sending, TInv, ControlTypes
<1>3. pc'[t] = "run"
  BY DEF EndCall, Goto, TInv, ControlTypes, TaskTypes
<1>4. PICK z \in {s, Returned(s)} : Becomes(ConnOf(t), z) /\ WholeState(z)
  BY WholeKept, EndFields DEF EndCall
<1>5. z \in States
  BY <1>4, StatesClosed
<1> QED BY <1>1, <1>2, <1>3, <1>4, <1>5, TouchBulk DEF WholeState, Bulking

\* A request on the wrapper's connection, answered.
LEMMA WrapperBulk ==
    ASSUME TInv, OInv, BulkInv, NEW t \in Tasks, Alone(t),
           pc[t] \notin {"bulkrollback"}, wconn[t] \in Conns, user[wconn[t]] = t,
           NEW s \in States, Becomes(wconn[t], s), WholeState(s), pc'[t] \notin Bulking
    PROVE  BulkInv'
BY TouchBulk DEF WholeState

LEMMA EnterBulk ==
    ASSUME TInv, OInv, BulkInv, NEW t \in Tasks, Enter(t)
    PROVE  BulkInv'
<1> USE DEF TInv, ControlTypes, TaskTypes, Goto
<1>0. Alone(t)
  BY EnterAlone
<1>1. CASE Started(t)
  <2>1. wconn[t] \in Conns /\ user[wconn[t]] = t /\ pc[t] = "starting"
    BY <1>1 DEF Started, Placed, OInv, Own, OnWrapper
  <2>2. WholeState(StartedTx(State(wconn[t]))) /\ StartedTx(State(wconn[t])) \in States
    BY <2>1, WholeHere, WholeKept, StateType, StatesClosed
  <2> QED BY <1>0, <1>1, <2>1, <2>2, WrapperBulk DEF Started, Bulking
<1>2. CASE EnterBlock(t) \/ PoolMade(t) \/ TakeConn(t) \/ EnterNested(t) \/ NestLocked(t)
  <2>1. UNCHANGED dbVars /\ pc[t] # "bulkrollback" /\ pc'[t] \notin Bulking
    BY <1>2 DEF EnterBlock, AcquireFor, PoolMade, TakeConn, EnterNested, NestLocked, Bulking
  <2> QED BY <1>0, <2>1, QuietBulk
<1> QED BY <1>1, <1>2 DEF Enter

LEMMA StatementBulk ==
    ASSUME TInv, OInv, BulkInv, NEW t \in Tasks, Statement(t)
    PROVE  BulkInv'
<1> USE PooledAssumption DEF TInv, ControlTypes, TaskTypes, Goto
<1>0. Alone(t)
  BY StatementAlone
<1>c. pc[t] \in Sending => ConnOf(t) \in Conns /\ user[ConnOf(t)] = t
  BY DEF Sending, ConnOf, Placed, OInv, Own
<1>s. pc[t] \in Sending \ {"bulkrollback"} =>
         State(ConnOf(t)) \in States /\ WholeState(State(ConnOf(t)))
  BY <1>c, WholeHere, StateType
<1>1. CASE Call(t)
  <2>1. UNCHANGED dbVars /\ pc[t] # "bulkrollback" /\ pc'[t] \notin Bulking
    BY <1>1 DEF Call, Bulking
  <2> QED BY <1>0, <2>1, QuietBulk
<1>2. CASE CallTakeConn(t)
  <2>1. PICK c \in Conns :
          /\ user[c] = NoTask /\ cconn' = [cconn EXCEPT ![t] = c]
          /\ \/ /\ pc' = [pc EXCEPT ![t] = "bulkrows"]
                /\ Becomes(c, [State(c) EXCEPT !.status = "open"])
             \/ pc' = [pc EXCEPT ![t] = "stmt"] /\ UNCHANGED dbVars
    BY <1>2 DEF CallTakeConn, Free
  <2>2. pc[t] = "callacquiring"
    BY <1>2 DEF CallTakeConn
  <2>3. CASE UNCHANGED dbVars /\ pc'[t] = "stmt"
    BY <1>0, <2>2, <2>3, QuietBulk DEF Bulking
  <2>4. CASE pc'[t] = "bulkrows" /\ Becomes(c, [State(c) EXCEPT !.status = "open"])
    <3> DEFINE s == [State(c) EXCEPT !.status = "open"]
    <3>1. s \in States /\ s.status = "open"
      BY StateType DEF States, Statuses
    <3>2. WholeState(s)
      BY <2>1, <2>2, WholeHere, WholeKept, StateType
    <3> HIDE DEF s
    <3>3. Becomes(c, s) /\ cconn'[t] = c
      BY <2>1, <2>4 DEF s
    <3> QED BY <1>0, <2>1, <2>2, <2>4, <3>1, <3>2, <3>3, TouchBulk DEF WholeState, Bulking
  <2> QED BY <2>1, <2>3, <2>4
<1>3. CASE StmtDone(t)
  <2>1. WholeState(Sent(t)) /\ Sent(t) \in States /\ pc[t] \in Sending
    BY <1>3, <1>c, <1>s, SentWhole, SentType DEF StmtDone, Sending
  <2> QED BY <1>0, <1>3, <2>1, EndCallBulk DEF StmtDone
<1>4. CASE StmtFails(t)
  <2>1. pc[t] \in Sending /\ pc[t] # "bulkrollback"
    BY <1>4 DEF StmtFails, Sending
  <2>2. \A s \in AfterFailure(t) \cup {State(ConnOf(t)), RolledBack(State(ConnOf(t)))} :
           s \in States /\ WholeState(s)
    <3> DEFINE z == State(ConnOf(t))
    <3>1. z \in States /\ WholeState(z)
      BY <1>s, <2>1
    <3> HIDE DEF z
    <3>2. /\ RolledBack(z) \in States /\ WholeState(RolledBack(z))
          /\ Aborted(z) \in States /\ WholeState(Aborted(z))
      BY <3>1, WholeKept, StatesClosed
    <3> QED BY <3>1, <3>2 DEF AfterFailure, z
  <2>3. PICK s \in States : EndCall(t, s) /\ WholeState(s)
    BY <1>4, <2>2 DEF StmtFails
  <2> QED BY <1>0, <2>1, <2>3, EndCallBulk
<1>5. CASE BulkInserted(t) \/ BulkFailed(t)
  <2> DEFINE z == State(cconn[t])
  <2>1. /\ pc[t] = "bulkrows" /\ cconn[t] \in Conns /\ user[cconn[t]] = t
        /\ cconn' = cconn
    BY <1>5 DEF BulkInserted, BulkFailed, Placed, Sending, OInv, Own
  <2>2. z \in States /\ WholeState(z) /\ z.status # "none"
    BY <2>1, WholeHere, StateType, StateFields DEF BulkInv, Bulking
  <2>3. /\ Whole(RowsOf(t, {1, 2})) /\ RowsOf(t, {1, 2}) \in SUBSET Rows
        /\ RowsOf(t, {1}) \in SUBSET Rows
    BY RowsWhole, RowsOfType
  <2> HIDE DEF z
  <2>4. CASE BulkInserted(t)
    <3>1. Becomes(cconn[t], Wrote(z, RowsOf(t, {1, 2}))) /\ pc'[t] = "bulkcommit"
      BY <2>4 DEF BulkInserted, z
    <3>2. /\ WholeState(Wrote(z, RowsOf(t, {1, 2})))
          /\ Wrote(z, RowsOf(t, {1, 2})) \in States
      BY <2>2, <2>3, WholeKept, StatesClosed
    <3> QED BY <1>0, <2>1, <3>1, <3>2, TouchBulk DEF WholeState, Bulking
  <2>5. CASE BulkFailed(t)
    <3> DEFINE w == Wrote(z, RowsOf(t, {1}))
    <3>1. Becomes(cconn[t], Aborted(w)) /\ pc'[t] = "bulkrollback"
      BY <2>5 DEF BulkFailed, z
    <3>2. Wrote(z, RowsOf(t, {1})) \in States
      BY <2>2, <2>3, StatesClosed
    <3>4. w.status = "open" /\ w.durable = z.durable
      BY <2>2, <2>3, WroteFields
    <3> HIDE DEF w
    <3>3. Aborted(w) \in States /\ Aborted(w).durable = z.durable /\ Aborted(w).status # "none"
      BY <3>2, <3>4, StatesClosed, MarkFields DEF Aborted, States, w
    <3> QED BY <1>0, <2>1, <2>2, <3>1, <3>3, TouchBulk DEF WholeState
  <2> QED BY <1>5, <2>4, <2>5
<1>6. CASE BulkEnded(t)
  <2>1. pc[t] \in Sending /\ call[t].on = Client /\ cconn[t] = ConnOf(t)
    BY <1>6 DEF BulkEnded, Sending, Placed, ConnOf
  <2> DEFINE z == State(cconn[t])
  <2>2. z \in States /\ Whole(z.durable)
    BY <1>c, <2>1, StateType, StateFields DEF BulkInv
  <2>3. pc[t] = "bulkcommit" => WholeState(z)
    BY <1>s, <2>1
  <2> HIDE DEF z
  <2>4. WholeState(RolledBack(z)) /\ RolledBack(z) \in States
    BY <2>2, EndFields, StatesClosed DEF WholeState, Whole
  <2>5. PICK s \in States : EndCall(t, s) /\ WholeState(s)
    BY <1>6, <2>2, <2>3, <2>4, WholeKept, StatesClosed DEF BulkEnded, z
  <2> QED BY <1>0, <2>1, <2>5, EndCallBulk
<1> QED BY <1>1, <1>2, <1>3, <1>4, <1>5, <1>6 DEF Statement

LEMMA ExitBulk ==
    ASSUME TInv, OInv, BulkInv, NEW t \in Tasks, Exit(t)
    PROVE  BulkInv'
<1> USE PooledAssumption DEF TInv, ControlTypes, TaskTypes, Goto
<1> DEFINE z == State(wconn[t])
<1>0. Alone(t)
  BY ExitAlone
<1>1. OuterFrame(t) \/ pc[t] \in OnWrapper => wconn[t] \in Conns
  BY DEF OuterFrame, Placed
<1>2. (OuterFrame(t) /\ pc[t] # "releasing") \/ pc[t] \in OnWrapper => user[wconn[t]] = t
  BY DEF OuterFrame, OInv, Own, Holds
<1>3. /\ wconn[t] \in Conns => z \in States
      /\ wconn[t] \in Conns /\ user[wconn[t]] = t /\ pc[t] # "bulkrollback" => WholeState(z)
  BY StateType, WholeHere
<1> HIDE DEF z
<1>4. CASE ExitNested(t) \/ ExitBlock(t) \/ Released(t) \/ UserFinish(t)
  <2>1. UNCHANGED dbVars /\ pc[t] # "bulkrollback" /\ pc'[t] \notin Bulking
    BY <1>4 DEF ExitNested, ExitBlock, Released, UserFinish, InFrame, Manual, Bulking
  <2> QED BY <1>0, <2>1, QuietBulk
<1>5. ASSUME NEW s \in States, WholeState(s), OuterFrame(t), GiveBack(t, s),
             pc[t] \in {"run", "committing", "rollingback"}
      PROVE  BulkInv'
  <2>1. /\ Becomes(wconn[t], s) \/ Becomes(wconn[t], Returned(s))
        /\ pc'[t] \notin Bulking
    BY <1>5 DEF GiveBack, Bulking
  <2>2. Returned(s) \in States /\ WholeState(Returned(s))
    BY <1>5, WholeKept, StatesClosed
  <2> QED BY <1>0, <1>1, <1>2, <1>5, <2>1, <2>2, WrapperBulk
<1>6. CASE ExitAsIs(t)
  <2>1. pc[t] = "run" /\ OuterFrame(t) /\ GiveBack(t, z)
    BY <1>6 DEF ExitAsIs, InFrame, z
  <2> QED BY <1>1, <1>2, <1>3, <1>5, <2>1
<1>7. ASSUME pc[t] \in OnWrapper
      PROVE  /\ \A s \in {CommittedTx(z), RolledBackTx(z)} : s \in States /\ WholeState(s)
             /\ pc[t] # "bulkrollback"
  <2>1. pc[t] # "bulkrollback" /\ z \in States /\ WholeState(z)
    BY <1>1, <1>2, <1>3, <1>7 DEF OnWrapper, Manual
  <2>2. /\ CommittedTx(z) \in States /\ WholeState(CommittedTx(z))
        /\ RolledBackTx(z) \in States /\ WholeState(RolledBackTx(z))
    BY <2>1, WholeKept, StatesClosed
  <2> QED BY <2>1, <2>2
<1>8. CASE ExitDone(t)
  <2>1. pc[t] \in {"committing", "rollingback"}
    BY <1>8 DEF ExitDone
  <2>2. PICK s \in {CommittedTx(z), RolledBackTx(z)} :
          \/ OuterFrame(t) /\ GiveBack(t, s)
          \/ Becomes(wconn[t], s) /\ pc' = [pc EXCEPT ![t] = "run"]
    BY <1>8 DEF ExitDone, z
  <2>3. s \in States /\ WholeState(s)
    BY <1>7, <2>1 DEF OnWrapper
  <2> QED BY <1>0, <1>1, <1>2, <1>5, <1>7, <2>1, <2>2, <2>3, WrapperBulk DEF OnWrapper, Bulking
<1>9. CASE UserFinishDone(t)
  <2>1. pc[t] \in OnWrapper /\ pc'[t] = "run"
    BY <1>9 DEF UserFinishDone, OnWrapper, Manual
  <2>2. PICK s \in {CommittedTx(z), RolledBackTx(z)} : Becomes(wconn[t], s)
    BY <1>9 DEF UserFinishDone, z
  <2> QED BY <1>0, <1>1, <1>2, <1>7, <2>1, <2>2, WrapperBulk DEF Bulking
<1> QED BY <1>4, <1>6, <1>8, <1>9 DEF Exit

LEMMA FaultBulk ==
    ASSUME TInv, OInv, BulkInv, NEW t \in Tasks, Fault(t)
    PROVE  BulkInv'
<1> USE PooledAssumption DEF TInv, ControlTypes, TaskTypes
<1>0. Alone(t) /\ pc'[t] = "run"
  BY FaultAlone DEF Fault, PoolFails, StartFails, FinishFails, Cancel, Abort, Goto
<1>1. pc[t] \in OnWrapper =>
         wconn[t] \in Conns /\ user[wconn[t]] = t /\ pc[t] # "bulkrollback"
  BY DEF Placed, OInv, Own, OnWrapper, Manual
<1>2. pc[t] \in OnWrapper =>
         WholeState(State(wconn[t])) /\ State(wconn[t]) \in States
  BY <1>1, WholeHere, StateType
<1>3. ASSUME UNCHANGED dbVars, pc[t] # "bulkrollback" PROVE BulkInv'
  BY <1>0, <1>3, QuietBulk DEF Bulking
<1>4. ASSUME pc[t] \in OnWrapper, NEW s \in States, WholeState(s), Becomes(wconn[t], s)
      PROVE  BulkInv'
  BY <1>0, <1>1, <1>4, WrapperBulk DEF Bulking
<1>5. CASE PoolFails(t) \/ StartFails(t)
  BY <1>3, <1>5 DEF PoolFails, StartFails
<1>6. CASE FinishFails(t)
  <2>1. pc[t] \in OnWrapper
    BY <1>6 DEF FinishFails, OnWrapper, Manual
  <2>2. UNCHANGED dbVars \/ Becomes(wconn[t], RolledBack(State(wconn[t])))
    BY <1>6 DEF FinishFails
  <2> QED BY <1>1, <1>2, <1>3, <1>4, <2>1, <2>2, WholeKept, StatesClosed
<1>7. CASE Cancel(t)
  <2>1. CASE UNCHANGED dbVars /\ pc[t] \in {"pooling", "acquiring", "nestlocking", "releasing",
                                            "callpooling", "callacquiring"}
    BY <1>3, <2>1
  <2>2. CASE pc[t] \in Sending /\ \E s \in Outcomes(t, State(ConnOf(t))) : EndCall(t, s)
    <3> DEFINE z == State(ConnOf(t))
    <3>1. PICK s \in Outcomes(t, z) : EndCall(t, s)
      BY <2>2
    <3>2. ConnOf(t) \in Conns /\ user[ConnOf(t)] = t
      BY <2>2 DEF Sending, ConnOf, Placed, OInv, Own
    <3>3. z \in States /\ (pc[t] # "bulkrollback" => WholeState(z))
      BY <3>2, WholeHere, StateType
    <3>4. CASE pc[t] = "bulkrollback"
      <4>1. s = z /\ call[t].on = Client /\ ConnOf(t) = cconn[t]
        BY <3>1, <3>4 DEF Outcomes, ConnOf, Placed, Sending
      <4>2. z.status # "none" /\ Whole(z.durable)
        BY <3>4, <4>1, StateFields DEF BulkInv, Bulking
      <4> HIDE DEF z
      <4>3. WholeState(RolledBack(z))
        BY <3>3, <4>2, EndFields DEF WholeState, Whole
      <4> QED BY <1>0, <2>2, <3>1, <3>3, <4>1, <4>2, <4>3, EndCallBulk
    <3>5. CASE pc[t] # "bulkrollback"
      <4>1. /\ WholeState(Sent(t)) /\ Sent(t) \in States
            /\ s \in {z, Aborted(z), Sent(t), Committed(z)}
        BY <2>2, <3>1, <3>2, <3>3, <3>5, SentWhole, SentType DEF Outcomes, Sending
      <4> HIDE DEF z
      <4>2. s \in States /\ WholeState(s)
        <5>1. /\ Aborted(z) \in States /\ WholeState(Aborted(z))
              /\ Committed(z) \in States /\ WholeState(Committed(z))
          BY <3>3, <3>5, WholeKept, StatesClosed
        <5> QED BY <3>3, <3>5, <4>1, <5>1
      <4> QED BY <1>0, <2>2, <3>1, <4>2, EndCallBulk
    <3> QED BY <3>4, <3>5
  <2>3. CASE pc[t] \in OnWrapper /\ \E s \in Outcomes(t, State(wconn[t])) : Becomes(wconn[t], s)
    <3> DEFINE z == State(wconn[t])
    <3>1. PICK s \in Outcomes(t, z) : Becomes(wconn[t], s)
      BY <2>3
    <3>2. s \in {z, StartedTx(z), CommittedTx(z), RolledBackTx(z)}
      BY <2>3, <3>1 DEF Outcomes, OnWrapper, Manual
    <3>3. z \in States /\ WholeState(z)
      BY <1>2, <2>3
    <3> HIDE DEF z
    <3>4. s \in States /\ WholeState(s)
      <4>1. /\ StartedTx(z) \in States /\ WholeState(StartedTx(z))
            /\ CommittedTx(z) \in States /\ WholeState(CommittedTx(z))
            /\ RolledBackTx(z) \in States /\ WholeState(RolledBackTx(z))
        BY <3>3, WholeKept, StatesClosed
      <4> QED BY <3>2, <3>3, <4>1
    <3> QED BY <1>4, <2>3, <3>1, <3>4
  <2> QED BY <1>7, <2>1, <2>2, <2>3 DEF Cancel, Sending, OnWrapper
<1> QED BY <1>5, <1>6, <1>7 DEF Fault

LEMMA InitBulk == Init => BulkInv
BY DEF Init, BulkInv, Whole, Bulking

LEMMA NextBulk ==
    ASSUME TInv, OInv, BulkInv, [Next]_vars
    PROVE  BulkInv'
<1>1. CASE UNCHANGED vars
  BY <1>1 DEF vars, dbVars, BulkInv, Whole, Halved
<1>2. ASSUME NEW t \in Tasks, User(t)
      PROVE  BulkInv'
  <2>1. Alone(t)
    BY <1>2, StepAlone DEF Step
  <2>2. UNCHANGED dbVars /\ pc[t] # "bulkrollback" /\ pc'[t] \notin Bulking
    BY <1>2 DEF User, Throw, Catch, Finish, InFrame, Goto, Bulking, TInv, ControlTypes, TaskTypes
  <2> QED BY <2>1, <2>2, QuietBulk
<1>3. ASSUME NEW t \in Tasks, Step(t)
      PROVE  BulkInv'
  BY <1>2, <1>3, EnterBulk, StatementBulk, ExitBulk, FaultBulk DEF Step
<1> QED BY <1>1, <1>3 DEF Next, Terminating, Step

\* The invariant of ownership holds.
LEMMA OwnersInvariant ==
    ASSUME Sound
    PROVE  Spec => []OInv
<1>1. TInv /\ OInv /\ [Next]_vars => OInv'
  BY NextOwns
<1> QED BY InitOwns, TypesInvariant, <1>1, PTL DEF Spec

\* A bulk insert on the client leaves all of its rows or none, whatever fails and
\* whichever other tasks write: its connection is in a transaction until the commit,
\* and what a failure left half done is rolled back before another task gets it.
THEOREM BulkInsertsAtomic ==
    ASSUME Sound
    PROVE  Spec => []BulkAtomic
<1>1. BulkInv => BulkAtomic
  BY DEF BulkInv, BulkAtomic, Whole, BulkRow
<1>2. TInv /\ OInv /\ BulkInv /\ [Next]_vars => BulkInv'
  BY NextBulk
<1> QED BY InitBulk, TypesInvariant, OwnersInvariant, <1>1, <1>2, PTL DEF Spec

-----------------------------------------------------------------------------
(* The stages of a block *)

\* Neither does a commit fail nor is a task cancelled, so that _finalized says what
\* the database did; psycopg's execute_many() commits, and its client rolls back, by
\* themselves.
Atomic == Backend # "psycopg" /\ Faults \cap {"commit", "cancel"} = {}

\* The stage of a block goes with its context, its frames and its wrapper.
Stage(t) ==
    /\ block[t] = "entering" <=> pc[t] \in Entering
    /\ block[t] \in {"entering", "open"} => depth[t] > 0
    /\ block[t] \in {"none", "ok", "error"} => ctx[t] = Client
    /\ block[t] \in {"none", "entering"} => final[t] = "open"
    /\ pc[t] \in {"committing", "rollingback"} \cup Manual => ctx[t] = t /\ final[t] = "open"
    /\ call[t].on \in {Client, t}
    /\ pc[t] = "stmt" /\ call[t].on = t => ctx[t] = t
    /\ pc[t] = "acquiring" => wconn[t] = NoConn

StageInv == \A t \in Tasks : Stage(t)

LEMMA AtomicIsSound == Atomic => Sound /\ "cancel" \notin Faults /\ "commit" \notin Faults
BY DEF Atomic, Sound

LEMMA OthersStage ==
    ASSUME StageInv, NEW t \in Tasks, Alone(t), Stage(t)'
    PROVE  StageInv'
<1> SUFFICES ASSUME NEW u \in Tasks \ {t}
             PROVE  Stage(u)'
  BY DEF StageInv
<1> QED BY DEF Stage, StageInv, Alone, Local

LEMMA EnterStage ==
    ASSUME TInv, OInv, StageInv, NEW t \in Tasks, Enter(t)
    PROVE  StageInv'
<1> USE PooledAssumption DEF TInv, ControlTypes, TaskTypes, Goto, Entering, Manual
<1>0. Stage(t) /\ Shape(t)
  BY DEF StageInv, OInv
<1> SUFFICES Stage(t)'
  BY EnterAlone, OthersStage
<1>1. CASE EnterBlock(t)
  <2>1. /\ pc' \in {[pc EXCEPT ![t] = "pooling"], [pc EXCEPT ![t] = "acquiring"]}
        /\ block' = [block EXCEPT ![t] = "entering"] /\ block[t] = "none"
        /\ depth' = [depth EXCEPT ![t] = 1]
        /\ UNCHANGED <<call, final, wconn>>
    BY <1>1 DEF EnterBlock, AcquireFor
  <2> QED BY <1>0, <2>1 DEF Stage, Shape
<1>2. CASE PoolMade(t)
  <2>1. /\ \/ /\ pc[t] = "pooling" /\ pc' = [pc EXCEPT ![t] = "acquiring"]
              /\ ctx' = [ctx EXCEPT ![t] = t]
           \/ /\ pc[t] = "callpooling" /\ pc' = [pc EXCEPT ![t] = "callacquiring"]
              /\ UNCHANGED ctx
        /\ UNCHANGED <<depth, call, block, final, wconn>>
    BY <1>2 DEF PoolMade, AcquireFor
  <2> QED BY <1>0, <2>1 DEF Stage, Shape
<1>3. CASE TakeConn(t)
  BY <1>0, <1>3 DEF TakeConn, Stage
<1>4. CASE Started(t)
  BY <1>0, <1>4 DEF Started, Stage
<1>5. CASE EnterNested(t)
  BY <1>0, <1>5 DEF EnterNested, Stage
<1>6. CASE NestLocked(t)
  BY <1>0, <1>6 DEF NestLocked, Stage
<1> QED BY <1>1, <1>2, <1>3, <1>4, <1>5, <1>6 DEF Enter

LEMMA StatementStage ==
    ASSUME TInv, OInv, StageInv, NEW t \in Tasks, Statement(t)
    PROVE  StageInv'
<1> USE PooledAssumption DEF TInv, ControlTypes, TaskTypes, Goto, Entering, Manual
<1>0. Stage(t)
  BY DEF StageInv
<1> SUFFICES Stage(t)'
  BY StatementAlone, OthersStage
<1>1. CASE Call(t)
  <2>1. PICK on \in {ctx[t], Client}, many \in BOOLEAN :
          \/ /\ on = Client
             /\ call' = [call EXCEPT ![t] = [on |-> on, many |-> many]]
             /\ pc' \in {[pc EXCEPT ![t] = "callpooling"], [pc EXCEPT ![t] = "callacquiring"]}
          \/ /\ on # Client
             /\ call' = [call EXCEPT ![t] = [on |-> on, many |-> many]]
             /\ pc' = [pc EXCEPT ![t] = "stmt"]
          \/ UNCHANGED <<pc, call>>
    BY <1>1 DEF Call
  <2>2. pc[t] = "run" /\ UNCHANGED <<depth, ctx, block, final>>
    BY <1>1 DEF Call
  <2> QED BY <1>0, <2>1, <2>2 DEF Stage
<1>2. CASE CallTakeConn(t)
  <2>1. /\ pc[t] = "callacquiring"
        /\ pc' \in {[pc EXCEPT ![t] = "bulkrows"], [pc EXCEPT ![t] = "stmt"]}
        /\ UNCHANGED <<depth, ctx, block, final, call>>
    BY <1>2 DEF CallTakeConn
  <2>2. call[t].on = Client
    BY <2>1 DEF Placed
  <2> QED BY <1>0, <2>1, <2>2 DEF Stage
<1>3. CASE StmtDone(t) \/ StmtFails(t) \/ BulkEnded(t)
  <2>1. /\ pc[t] \in Sending /\ pc' = [pc EXCEPT ![t] = "run"]
        /\ call' = [call EXCEPT ![t] = NoCall]
        /\ UNCHANGED <<depth, ctx, block, final>>
    BY <1>3 DEF StmtDone, StmtFails, BulkEnded, EndCall, Sending
  <2> QED BY <1>0, <2>1 DEF Stage, Sending, NoCall
<1>4. CASE BulkInserted(t) \/ BulkFailed(t)
  BY <1>0, <1>4 DEF BulkInserted, BulkFailed, Stage
<1> QED BY <1>1, <1>2, <1>3, <1>4 DEF Statement

LEMMA ExitStage ==
    ASSUME TInv, OInv, StageInv, NEW t \in Tasks, Exit(t)
    PROVE  StageInv'
<1> USE PooledAssumption DEF TInv, ControlTypes, TaskTypes, Goto, Entering, Manual
<1>0. Stage(t) /\ Shape(t)
  BY DEF StageInv, OInv
<1>d. pc[t] \in Leaving => depth[t] > 0
  BY DEF Depths
<1> SUFFICES Stage(t)'
  BY ExitAlone, OthersStage
<1>1. CASE ExitNested(t)
  <2>1. /\ pc[t] = "run" /\ depth[t] > 0
        /\ \/ pc' = [pc EXCEPT ![t] = "rollingback"] /\ final[t] = "open" /\ UNCHANGED depth
           \/ depth' = [depth EXCEPT ![t] = @ - 1] /\ UNCHANGED pc
        /\ ~OuterFrame(t)
        /\ UNCHANGED <<ctx, call, block, final>>
    BY <1>1 DEF ExitNested, InFrame
  <2>2. ctx[t] = t
    BY <1>0, <2>1 DEF Shape
  <2>3. block[t] = "open" => depth[t] > 1
    BY <2>1 DEF OuterFrame
  <2> QED BY <1>0, <2>1, <2>2, <2>3 DEF Stage
<1>2. CASE ExitBlock(t)
  <2>1. /\ pc[t] = "run" /\ depth[t] > 0 /\ final[t] = "open"
        /\ pc' \in {[pc EXCEPT ![t] = "committing"], [pc EXCEPT ![t] = "rollingback"]}
        /\ UNCHANGED <<depth, ctx, call, block, final>>
    BY <1>2 DEF ExitBlock, InFrame
  <2>2. ctx[t] = t
    BY <1>0, <2>1 DEF Shape
  <2> QED BY <1>0, <2>1, <2>2 DEF Stage
<1>3. ASSUME pc[t] \in {"run", "committing", "rollingback"}, OuterFrame(t), NEW s,
             GiveBack(t, s), UNCHANGED <<ctx, call>>
      PROVE  Stage(t)'
  <2>1. \/ pc' = [pc EXCEPT ![t] = "releasing"] /\ UNCHANGED <<block, depth>>
        \/ /\ pc' = [pc EXCEPT ![t] = "run"] /\ depth' = [depth EXCEPT ![t] = 0]
           /\ block' = [block EXCEPT ![t] = "failed"]
    BY <1>3 DEF GiveBack
  <2> QED BY <1>0, <1>3, <2>1 DEF Stage, OuterFrame
<1>4. CASE ExitAsIs(t)
  BY <1>3, <1>4 DEF ExitAsIs, InFrame
<1>5. CASE ExitDone(t)
  <2>1. CASE OuterFrame(t)
    <3>1. PICK s : GiveBack(t, s)
      BY <1>5, <2>1 DEF ExitDone
    <3> QED BY <1>3, <1>5, <2>1, <3>1 DEF ExitDone
  <2>2. CASE ~OuterFrame(t)
    <3>1. /\ pc[t] \in {"committing", "rollingback"} /\ pc' = [pc EXCEPT ![t] = "run"]
          /\ depth' = [depth EXCEPT ![t] = @ - 1]
          /\ UNCHANGED <<ctx, call, block>>
      BY <1>5, <2>2 DEF ExitDone
    <3>2. block[t] \notin {"none", "entering"} /\ (block[t] = "open" => depth[t] > 1)
      BY <1>0, <1>d, <2>2, <3>1 DEF Stage, OuterFrame, Leaving
    <3> QED BY <1>0, <3>1, <3>2 DEF Stage
  <2> QED BY <2>1, <2>2
<1>6. CASE Released(t)
  BY <1>0, <1>6 DEF Released, Stage, Shape, OuterFrame
<1>7. CASE UserFinish(t)
  <2>1. /\ pc[t] = "run" /\ ctx[t] # Client
        /\ \/ UNCHANGED pc
           \/ final[t] = "open" /\ \E p \in Manual : pc' = [pc EXCEPT ![t] = p]
        /\ UNCHANGED <<depth, ctx, call, block, final>>
    BY <1>7 DEF UserFinish
  <2> QED BY <1>0, <2>1 DEF Stage
<1>8. CASE UserFinishDone(t)
  <2>1. /\ pc[t] \in Manual /\ pc' = [pc EXCEPT ![t] = "run"]
        /\ UNCHANGED <<depth, ctx, call, block>>
    BY <1>8 DEF UserFinishDone
  <2> QED BY <1>0, <2>1 DEF Stage
<1> QED BY <1>1, <1>2, <1>4, <1>5, <1>6, <1>7, <1>8 DEF Exit

LEMMA NextStage ==
    ASSUME Atomic, TInv, OInv, StageInv, [Next]_vars
    PROVE  StageInv'
<1> USE PooledAssumption DEF TInv, ControlTypes, TaskTypes, Goto, Entering, Manual
<1>1. CASE UNCHANGED vars
  BY <1>1 DEF vars, StageInv, Stage
<1>2. ASSUME NEW t \in Tasks, User(t)
      PROVE  StageInv'
  <2>1. /\ pc[t] = "run" /\ pc' \in {pc, [pc EXCEPT ![t] = "done"]}
        /\ UNCHANGED <<depth, ctx, call, block, final, wconn>>
    BY <1>2 DEF User, Throw, Catch, Finish, InFrame
  <2> QED BY <1>2, <2>1, StepAlone, OthersStage DEF Step, StageInv, Stage
<1>3. ASSUME NEW t \in Tasks, Fault(t)
      PROVE  StageInv'
  <2>1. /\ pc[t] \in {"pooling", "callpooling", "starting", "rollingback", "userrollback"}
        /\ Abort(t, "err") /\ call' \in {call, [call EXCEPT ![t] = NoCall]}
    BY <1>3, AtomicIsSound DEF Fault, PoolFails, StartFails, FinishFails, Cancel
  <2>2. /\ pc' = [pc EXCEPT ![t] = "run"]
        /\ \/ block' = [block EXCEPT ![t] = "failed"]
           \/ /\ pc[t] = "rollingback" /\ ~OuterFrame(t) /\ UNCHANGED block
              /\ depth' = [depth EXCEPT ![t] = @ - 1]
           \/ /\ pc[t] \in {"callpooling", "userrollback"}
              /\ UNCHANGED <<block, depth>>
        /\ UNCHANGED <<ctx, final, wconn>>
    BY <2>1 DEF Abort, Leaving
  <2>3. Stage(t) /\ (pc[t] = "rollingback" => depth[t] > 0)
    BY DEF StageInv, Depths, Leaving
  <2>4. Stage(t)'
    BY <2>1, <2>2, <2>3 DEF Stage, NoCall, OuterFrame
  <2> QED BY <1>3, <2>4, FaultAlone, OthersStage
<1>4. ASSUME NEW t \in Tasks, Step(t)
      PROVE  StageInv'
  BY <1>2, <1>3, <1>4, EnterStage, StatementStage, ExitStage DEF Step
<1> QED BY <1>1, <1>4 DEF Next, Terminating, Step

LEMMA StageInvariant ==
    ASSUME Atomic
    PROVE  Spec => []StageInv
<1>1. Init => StageInv
  BY PooledAssumption DEF Init, StageInv, Stage, Entering, Manual, NoCall
<1>2. TInv /\ OInv /\ StageInv /\ [Next]_vars => StageInv'
  BY NextStage
<1> QED BY <1>1, <1>2, TypesInvariant, OwnersInvariant, AtomicIsSound, PTL DEF Spec

-----------------------------------------------------------------------------
(* The rows of a block *)

\* The task can send on its wrapper's connection.
Using(t) == ctx[t] = t /\ wconn[t] \in Conns /\ pc[t] # "releasing"

\* Outside of a transaction a connection has no rows, and is in autocommit.
ConnClean(c) ==
    /\ db[c].auto
    /\ db[c].status = "none" => db[c].rows = {}
    /\ user[c] = NoTask => db[c].status = "none"

\* The rows in a transaction are those of a bulk insert that goes on, and early rows
\* of the block that uses the connection.
Located(c) ==
    \A row \in db[c].rows :
        IF row.via = Client
          THEN pc[row.by] \in {"bulkcommit", "bulkrollback"} /\ cconn[row.by] = c
          ELSE Using(row.via) /\ wconn[row.via] = c /\ ~row.late

\* The rows of a block are in its transaction, or durable, or lost, all of them.
Fate(t) ==
    /\ block[t] \in {"none", "entering"} => Early(t, durable) = {} /\ Early(t, lost) = {}
    /\ block[t] = "open" /\ final[t] = "open" /\ Using(t) => db[wconn[t]].status # "none"
    /\ final[t] # "open" /\ Using(t) => db[wconn[t]].status = "none"
    /\ Early(t, durable) # {} =>
          /\ Early(t, lost) = {}
          /\ Using(t) => db[wconn[t]].status = "none"
          /\ final[t] # "committed" => block[t] = "failed"
    /\ Early(t, lost) # {} => final[t] # "open" \/ ~Using(t)

DataInv ==
    /\ \A t \in Tasks : Fate(t)
    /\ \A c \in Conns : ConnClean(c) /\ Located(c)

\* Everything that is known of a state
Known == TInv /\ OInv /\ StageInv /\ DataInv

LEMMA UsingOwns ==
    ASSUME Atomic, OInv, NEW t \in Tasks, Using(t)
    PROVE  user[wconn[t]] = t
BY NoConnIsNone, AtomicIsSound DEF OInv, Own, Holds, Using

\* The rows on a connection are those of the task that uses it.
LEMMA RowsOfUser ==
    ASSUME Atomic, Known, NEW t \in Tasks, NEW c \in Conns, user[c] \in {t, NoTask},
           NEW row \in db[c].rows
    PROVE  IF row.via = Client THEN row.by = t ELSE row.via = t /\ ~row.late
<1>1. row \in Rows /\ row.via \in Targets /\ row.by \in Tasks
  BY DEF Known, TInv, DbTypes, Rows
<1>2. Located(c)
  BY DEF Known, DataInv
<1>3. CASE row.via = Client
  <2>1. user[cconn[row.by]] = row.by
    BY <1>1, <1>2, <1>3 DEF Located, Known, OInv, Own, Sending, Placed, TInv, ControlTypes
  <2> QED BY <1>1, <1>2, <1>3, <2>1, PooledAssumption DEF Located
<1>4. CASE row.via # Client
  <2>1. row.via \in Tasks /\ Using(row.via) /\ wconn[row.via] = c /\ ~row.late
    BY <1>1, <1>2, <1>4 DEF Located, Targets
  <2> QED BY <1>4, <2>1, UsingOwns, PooledAssumption DEF Known
<1> QED BY <1>3, <1>4

\* What a task leaves alone: another task's rows, and what it uses.
LEMMA OthersFate ==
    ASSUME Atomic, Known, NEW t \in Tasks, Alone(t),
           NEW u \in Tasks \ {t},
           Early(u, durable)' = Early(u, durable), Early(u, lost)' = Early(u, lost),
           \A c \in Conns : user[c] = u => db'[c] = db[c]
    PROVE  Fate(u)' /\ (Using(u)' <=> Using(u)) /\ wconn'[u] = wconn[u]
<1>1. /\ block'[u] = block[u] /\ final'[u] = final[u] /\ pc'[u] = pc[u]
      /\ ctx'[u] = ctx[u] /\ wconn'[u] = wconn[u]
  BY DEF Alone, Local
<1>2. Using(u)' <=> Using(u)
  BY <1>1 DEF Using
<1>3. Using(u) => db'[wconn[u]] = db[wconn[u]]
  BY UsingOwns DEF Using, Known
<1>4. Fate(u)
  BY DEF Known, DataInv
<1> QED BY <1>1, <1>2, <1>3, <1>4 DEF Fate

\* A connection in state s has its rows, and made durable or lost them, but for new
\* ones written by way of v.
From(s, c, v) ==
    /\ s.auto /\ (s.status = "none" => s.rows = {})
    /\ durable \subseteq s.durable /\ lost \subseteq s.lost
    /\ \A row \in s.rows    : row \in db[c].rows \/ row.via = v
    /\ \A row \in s.durable : row \in durable \cup db[c].rows \/ row.via = v
    /\ \A row \in s.lost    : row \in lost \cup db[c].rows \/ row.via = v

LEMMA FromState ==
    ASSUME Known, NEW c \in Conns, NEW v
    PROVE  From(State(c), c, v)
BY StateFields DEF From, Known, DataInv, ConnClean

LEMMA FromKept ==
    ASSUME Atomic, NEW c, NEW v, NEW s \in States, From(s, c, v)
    PROVE  /\ From(RolledBack(s), c, v) /\ From(Committed(s), c, v)
           /\ From(Aborted(s), c, v) /\ From(Returned(s), c, v)
           /\ From(StartedTx(s), c, v) /\ From([s EXCEPT !.status = "open"], c, v)
           /\ CommittedTx(s) = Committed(s) /\ RolledBackTx(s) = RolledBack(s)
           /\ \A rows \in SUBSET Rows :
                 (\A row \in rows : row.via = v) => From(Wrote(s, rows), c, v)
<1>1. From(RolledBack(s), c, v) /\ From(Committed(s), c, v)
  BY EndFields DEF From
<1>2. From(Returned(s), c, v)
  BY <1>1, EndFields
<1>3. /\ Aborted(s).auto = s.auto /\ StartedTx(s).auto = s.auto
      /\ [s EXCEPT !.status = "open"].auto = s.auto
      /\ Aborted(s).status = "none" => s.status = "none"
      /\ StartedTx(s).status = "open" /\ [s EXCEPT !.status = "open"].status = "open"
  BY DEF States, Aborted, StartedTx, Atomic
<1>4. /\ From(Aborted(s), c, v) /\ From(StartedTx(s), c, v)
      /\ From([s EXCEPT !.status = "open"], c, v)
  BY <1>3, MarkFields DEF From
<1>5. \A z \in States : z.auto = TRUE => [z EXCEPT !.auto = TRUE] = z
  BY DEF States
<1>6. Committed(s).auto = TRUE /\ RolledBack(s).auto = TRUE
  BY EndFields DEF From, States
<1>7. CommittedTx(s) = Committed(s) /\ RolledBackTx(s) = RolledBack(s)
  BY <1>5, <1>6, StatesClosed DEF CommittedTx, RolledBackTx
<1>8. ASSUME NEW rows \in SUBSET Rows, \A row \in rows : row.via = v
      PROVE  From(Wrote(s, rows), c, v)
  BY <1>8, WroteFields DEF From
<1> QED BY <1>1, <1>2, <1>4, <1>7, <1>8

LEMMA TouchData ==
    ASSUME Atomic, Known, NEW t \in Tasks, Alone(t),
           NEW c \in Conns, user[c] \in {t, NoTask}, NEW s \in States, Becomes(c, s),
           \E v \in {t, Client} : From(s, c, v),
           \A d \in Conns : user'[d] = NoTask => user[d] = NoTask \/ d = c,
           Using(t) /\ wconn[t] # c => Using(t)' /\ wconn'[t] = wconn[t],
           pc[t] \in {"bulkcommit", "bulkrollback"} => cconn[t] = c,
           ConnClean(c)', Located(c)', Fate(t)'
    PROVE  DataInv'
<1>1. /\ durable' = s.durable /\ lost' = s.lost
      /\ \A d \in Conns \ {c} : db'[d] = db[d]
  BY BecomesFields DEF Known, TInv
<1>2. ASSUME NEW u \in Tasks \ {t}
      PROVE  Fate(u)' /\ (Using(u)' <=> Using(u)) /\ wconn'[u] = wconn[u]
  <2>1. \A row \in db[c].rows : row.via # u
    BY RowsOfUser, PooledAssumption
  <2>2. Early(u, s.durable) = Early(u, durable) /\ Early(u, s.lost) = Early(u, lost)
    BY <2>1, PooledAssumption DEF Early, From
  <2>3. \A d \in Conns : user[d] = u => db'[d] = db[d]
    BY <1>1, PooledAssumption
  <2> QED BY <1>1, <2>2, <2>3, OthersFate DEF Early
<1>3. ASSUME NEW d \in Conns \ {c}
      PROVE  ConnClean(d)' /\ Located(d)'
  <2>1. ConnClean(d) /\ Located(d) /\ db'[d] = db[d]
    BY <1>1 DEF Known, DataInv
  <2>2. ConnClean(d)'
    BY <2>1 DEF ConnClean
  <2>3. ASSUME NEW row \in db[d].rows
        PROVE  IF row.via = Client
                 THEN pc'[row.by] \in {"bulkcommit", "bulkrollback"} /\ cconn'[row.by] = d
                 ELSE Using(row.via)' /\ wconn'[row.via] = d /\ ~row.late
    <3>1. row.via \in Targets /\ row.by \in Tasks
      BY DEF Known, TInv, DbTypes, Rows
    <3>2. CASE row.via = Client
      BY <2>1, <3>1, <3>2 DEF Located, Alone, Local
    <3>3. CASE row.via # Client
      BY <1>2, <2>1, <3>1, <3>3 DEF Located, Targets
    <3> QED BY <3>2, <3>3
  <2>4. Located(d)'
    BY <2>1, <2>3 DEF Located
  <2> QED BY <2>2, <2>4
<1> QED BY <1>2, <1>3 DEF DataInv

\* A step of t that leaves the database alone.
LEMMA QuietData ==
    ASSUME Atomic, Known, NEW t \in Tasks, Alone(t), UNCHANGED dbVars,
           \A d \in Conns : user'[d] = NoTask => user[d] = NoTask,
           Using(t) => Using(t)' /\ wconn'[t] = wconn[t],
           pc[t] \notin {"bulkcommit", "bulkrollback"},
           Fate(t)'
    PROVE  DataInv'
<1> USE DEF dbVars
<1>2. ASSUME NEW u \in Tasks \ {t}
      PROVE  Fate(u)' /\ (Using(u)' <=> Using(u)) /\ wconn'[u] = wconn[u]
  BY OthersFate DEF Early
<1>3. ASSUME NEW d \in Conns
      PROVE  ConnClean(d)' /\ Located(d)'
  <2>1. ConnClean(d) /\ Located(d)
    BY DEF Known, DataInv
  <2>2. ConnClean(d)'
    BY <2>1 DEF ConnClean
  <2>3. ASSUME NEW row \in db[d].rows
        PROVE  IF row.via = Client
                 THEN pc'[row.by] \in {"bulkcommit", "bulkrollback"} /\ cconn'[row.by] = d
                 ELSE Using(row.via)' /\ wconn'[row.via] = d /\ ~row.late
    <3>1. row.via \in Targets /\ row.by \in Tasks
      BY DEF Known, TInv, DbTypes, Rows
    <3>2. CASE row.via = Client
      BY <2>1, <3>1, <3>2 DEF Located, Alone, Local
    <3>3. CASE row.via # Client
      BY <1>2, <2>1, <3>1, <3>3 DEF Located, Targets
    <3> QED BY <3>2, <3>3
  <2>4. Located(d)'
    BY <2>3 DEF Located
  <2> QED BY <2>2, <2>4
<1> QED BY <1>2, <1>3 DEF DataInv

-----------------------------------------------------------------------------
(* The fate of a block that has a connection in state s *)

EarlyOnly(t, rows) == \A row \in rows : row.via = t /\ ~row.late

FateOf(t, s, fin, blk) ==
    /\ s.status = "none" => s.rows = {}
    /\ EarlyOnly(t, s.rows)
    /\ blk \in {"none", "entering"} => Early(t, s.durable) = {} /\ Early(t, s.lost) = {}
    /\ blk = "open" /\ fin = "open" => s.status # "none"
    /\ fin # "open" => s.status = "none"
    /\ Early(t, s.durable) # {} => /\ Early(t, s.lost) = {} /\ s.status = "none"
                                   /\ fin # "committed" => blk = "failed"
    /\ Early(t, s.lost) # {} => fin # "open"

\* The rows on the connection of a block are its early rows.
LEMMA RowsOfBlock ==
    ASSUME Atomic, Known, NEW t \in Tasks, Using(t)
    PROVE  EarlyOnly(t, db[wconn[t]].rows)
<1> DEFINE c == wconn[t]
<1>1. c \in Conns /\ user[c] = t
  BY UsingOwns DEF Using, Known
<1>2. Located(c)
  BY <1>1 DEF Known, DataInv
<1>3. ASSUME NEW row \in db[c].rows, row.via = Client
      PROVE  FALSE
  <2>1. row.by = t /\ pc[t] \in {"bulkcommit", "bulkrollback"} /\ cconn[t] = c
    BY <1>1, <1>2, <1>3, RowsOfUser DEF Located
  <2>2. call[t].on = Client
    BY <2>1 DEF Known, TInv, ControlTypes, Placed, Sending
  <2> QED BY <2>1, <2>2, NoConnIsNone, AtomicIsSound
          DEF Using, Holds, Known, OInv, Own, Sending
<1> QED BY <1>1, <1>3, RowsOfUser DEF EarlyOnly

LEMMA FateIs ==
    ASSUME Atomic, Known, NEW t \in Tasks, Using(t)
    PROVE  FateOf(t, State(wconn[t]), final[t], block[t])
<1>1. Fate(t) /\ ConnClean(wconn[t])
  BY DEF Known, DataInv, Using
<1> QED BY <1>1, RowsOfBlock, StateFields DEF FateOf, Fate, ConnClean

\* A commit makes all of the rows durable, or none.
LEMMA FateCommitted ==
    ASSUME NEW t, NEW s \in States, NEW blk, FateOf(t, s, "open", blk),
           blk \notin {"none", "entering"}
    PROVE  FateOf(t, Committed(s), "committed", blk)
<1> DEFINE r == Committed(s)
<1>1. r.status = "none" /\ r.rows = {}
  BY EndFields
<1>2. CASE s.status = "aborted"
  <2>1. r.durable = s.durable /\ Early(t, s.durable) = {}
    BY <1>2, EndFields DEF FateOf
  <2> HIDE DEF r
  <2> QED BY <1>1, <2>1 DEF FateOf, EarlyOnly, r
<1>3. CASE s.status # "aborted"
  <2>1. r.lost = s.lost /\ Early(t, r.lost) = {}
    BY <1>3, EndFields DEF FateOf
  <2> HIDE DEF r
  <2> QED BY <1>1, <2>1 DEF FateOf, EarlyOnly, r
<1> QED BY <1>2, <1>3

\* A rollback loses all of the rows, if they were not durable by themselves.
LEMMA FateRolledBack ==
    ASSUME NEW t, NEW s \in States, NEW blk, FateOf(t, s, "open", blk),
           blk \notin {"none", "entering"}
    PROVE  FateOf(t, RolledBack(s), "rolledback", blk)
<1> DEFINE r == RolledBack(s)
<1>1. r.status = "none" /\ r.rows = {} /\ r.durable = s.durable
      /\ r.lost = s.lost \cup s.rows
  BY EndFields
<1>2. Early(t, s.durable) # {} => s.rows = {}
  BY DEF FateOf
<1> HIDE DEF r
<1> QED BY <1>1, <1>2 DEF FateOf, EarlyOnly, Early, r

\* A failed statement changes nothing of it.
LEMMA FateAborted ==
    ASSUME Atomic, NEW t, NEW s \in States, NEW fin, NEW blk, FateOf(t, s, fin, blk), s.auto
    PROVE  FateOf(t, Aborted(s), fin, blk)
<1>1. (Aborted(s).status = "none") <=> (s.status = "none")
  BY DEF Aborted, States, Statuses
<1> QED BY <1>1, MarkFields DEF FateOf

\* A statement's rows join the rows of the transaction; without one they are durable,
\* late when the wrapper is final.
LEMMA FateWrote ==
    ASSUME NEW t, NEW s \in States, NEW fin, NEW blk, FateOf(t, s, fin, blk), s.auto,
           NEW rows \in SUBSET Rows,
           \A row \in rows : row.via = t /\ (row.late <=> fin # "open"),
           blk \in {"open", "failed"}
    PROVE  FateOf(t, Wrote(s, rows), fin, blk)
<1> DEFINE r == Wrote(s, rows)
<1>1. CASE s.status = "none"
  <2>1. r.lost = s.lost /\ r.durable = s.durable \cup rows /\ r.rows = s.rows
        /\ r.status = "none"
    BY <1>1, WroteFields
  <2> HIDE DEF r
  <2>2. fin # "open" => Early(t, r.durable) = Early(t, s.durable)
    BY <2>1 DEF Early
  <2>3. fin = "open" => blk = "failed" /\ Early(t, s.lost) = {}
    BY <1>1 DEF FateOf
  <2> QED BY <1>1, <2>1, <2>2, <2>3 DEF FateOf, EarlyOnly, r
<1>2. CASE s.status # "none"
  <2>1. r.lost = s.lost /\ r.durable = s.durable /\ r.rows = s.rows \cup rows
        /\ r.status = "open"
    BY <1>2, WroteFields
  <2> HIDE DEF r
  <2> QED BY <1>2, <2>1 DEF FateOf, EarlyOnly, r
<1> QED BY <1>1, <1>2

-----------------------------------------------------------------------------
(* The steps of a task and its block's fate *)

\* A task that has its wrapper's connection keeps it while it sends on another.
LEMMA ClientConn ==
    ASSUME Atomic, Known, NEW t \in Tasks, pc[t] \in Sending, call[t].on = Client
    PROVE  /\ cconn[t] \in Conns /\ user[cconn[t]] = t /\ ConnOf(t) = cconn[t]
           /\ Using(t) => wconn[t] # cconn[t]
           /\ \A row \in db[cconn[t]].rows : row.via = Client
<1>1. /\ cconn[t] \in Conns /\ user[cconn[t]] = t /\ ConnOf(t) = cconn[t]
      /\ Using(t) => wconn[t] # cconn[t]
  BY NoConnIsNone, AtomicIsSound
     DEF Known, OInv, Own, Placed, Sending, TInv, ControlTypes, ConnOf, Using, Holds
<1>2. ASSUME NEW row \in db[cconn[t]].rows
      PROVE  row.via = Client
  <2>1. row.via # Client => row.via = t
    BY <1>1, RowsOfUser
  <2> QED BY <1>1, <2>1 DEF Known, DataInv, Located
<1> QED BY <1>1, <1>2

\* The fate of t does not change when its block and what it wrote do not.
LEMMA SameFate ==
    ASSUME Atomic, Known, NEW t \in Tasks,
           block'[t] = block[t], final'[t] = final[t], wconn'[t] = wconn[t], ctx'[t] = ctx[t],
           pc[t] # "releasing", pc'[t] # "releasing",
           Early(t, durable)' = Early(t, durable), Early(t, lost)' = Early(t, lost),
           Using(t) => db'[wconn[t]] = db[wconn[t]]
    PROVE  Fate(t)' /\ (Using(t) => Using(t)')
BY DEF Fate, Using, Known, DataInv

\* A request of the client on its connection, in a block of the task or not.
LEMMA ClientData ==
    ASSUME Atomic, Known, NEW t \in Tasks, Alone(t), pc[t] \in Sending, call[t].on = Client,
           NEW c, c = cconn[t], NEW s \in States, From(s, c, Client), Becomes(c, s),
           pc'[t] # "releasing",
           block'[t] = block[t], final'[t] = final[t], wconn'[t] = wconn[t], ctx'[t] = ctx[t],
           \A d \in Conns : user'[d] = NoTask => user[d] = NoTask \/ d = c,
           ConnClean(c)', Located(c)'
    PROVE  DataInv'
<1>1. /\ c \in Conns /\ user[c] = t /\ (Using(t) => wconn[t] # c)
      /\ \A row \in db[c].rows : row.via = Client
  BY ClientConn
<1>2. /\ durable' = s.durable /\ lost' = s.lost
      /\ \A d \in Conns \ {c} : db'[d] = db[d]
  BY <1>1, BecomesFields DEF Known, TInv
<1>3. Early(t, s.durable) = Early(t, durable) /\ Early(t, s.lost) = Early(t, lost)
  BY <1>1, PooledAssumption DEF Early, From
<1>4. Using(t) => db'[wconn[t]] = db[wconn[t]]
  BY <1>1, <1>2 DEF Using
<1>5. pc[t] # "releasing"
  BY DEF Sending
<1>6. Fate(t)' /\ (Using(t) => Using(t)')
  BY <1>2, <1>3, <1>4, <1>5, SameFate DEF Early
<1> QED BY <1>1, <1>6, TouchData

\* The call of a statement on the client ends.
LEMMA ClientEnds ==
    ASSUME Atomic, Known, NEW t \in Tasks, Alone(t), pc[t] \in Sending, call[t].on = Client,
           NEW s \in States, From(s, cconn[t], Client), EndCall(t, s),
           UNCHANGED <<block, final, wconn, ctx>>
    PROVE  DataInv'
<1>1. PICK c \in Conns : c = cconn[t] /\ ConnOf(t) = c
  BY ClientConn
<1>2. /\ Becomes(c, Returned(s)) /\ user' = [user EXCEPT ![c] = NoTask] /\ pc'[t] = "run"
  BY <1>1 DEF EndCall, Goto, Known, TInv, ControlTypes, TaskTypes
<1>3. Returned(s) \in States /\ From(Returned(s), c, Client) /\ Returned(s).status = "none"
  <2>1. From(s, c, Client)
    BY <1>1
  <2>2. From(Returned(s), c, Client)
    BY <2>1, FromKept
  <2> QED BY <2>2, StatesClosed, EndFields
<1>4. ConnClean(c)' /\ Located(c)'
  BY <1>2, <1>3, BecomesFields DEF From, ConnClean, Located, Known, TInv
<1>5. \A d \in Conns : user'[d] = NoTask => user[d] = NoTask \/ d = c
  BY <1>2 DEF Known, TInv, ControlTypes
<1> QED BY <1>1, <1>2, <1>3, <1>4, <1>5, ClientData

\* A request on the wrapper's connection is answered.
LEMMA WrapperData ==
    ASSUME Atomic, Known, NEW t \in Tasks, Alone(t), Using(t),
           pc[t] \notin {"bulkcommit", "bulkrollback"}, pc'[t] # "releasing",
           NEW s \in States, From(s, wconn[t], t), Becomes(wconn[t], s),
           wconn'[t] = wconn[t], ctx'[t] = ctx[t], UNCHANGED user,
           FateOf(t, s, final'[t], block'[t])
    PROVE  DataInv'
<1> DEFINE c == wconn[t]
<1>1. c \in Conns /\ user[c] = t /\ Using(t)'
  BY UsingOwns DEF Using, Known
<1>2. /\ db'[c].status = s.status /\ db'[c].auto = s.auto /\ db'[c].rows = s.rows
      /\ durable' = s.durable /\ lost' = s.lost
  BY <1>1, BecomesFields DEF Known, TInv
<1>3. ConnClean(c)'
  BY <1>1, <1>2, PooledAssumption DEF ConnClean, From
<1>4. Located(c)'
  BY <1>1, <1>2, PooledAssumption DEF Located, FateOf, EarlyOnly
<1>5. Fate(t)'
  BY <1>1, <1>2 DEF Fate, FateOf, Early
<1> HIDE DEF c
<1> QED BY <1>1, <1>3, <1>4, <1>5, TouchData DEF c

\* The connection of a block goes back to its pool, or the release raises.
LEMMA GiveBackData ==
    ASSUME Atomic, Known, NEW t \in Tasks, Alone(t), OuterFrame(t),
           pc[t] \in {"run", "committing", "rollingback"},
           NEW s \in States, From(s, wconn[t], t), GiveBack(t, s),
           UNCHANGED <<ctx, wconn>>, FateOf(t, s, final'[t], "open")
    PROVE  DataInv'
<1> USE DEF Goto
<1> DEFINE c == wconn[t]
<1>1. c \in Conns /\ user[c] = t /\ Using(t)
  BY UsingOwns DEF Using, OuterFrame, Known, TInv, ControlTypes, Placed, OInv, Shape
<1>2. CASE Home(c) = pool
  <2> DEFINE r == Returned(s)
  <2>1. /\ Becomes(c, r) /\ user' = [user EXCEPT ![c] = NoTask]
        /\ pc'[t] = "releasing" /\ block' = block
    BY <1>2 DEF GiveBack, Known, TInv, ControlTypes, TaskTypes
  <2>2. r \in States /\ From(r, c, t) /\ r.status = "none" /\ r.durable = s.durable
        /\ (s.status = "none" => r.lost = s.lost)
    <3>1. r \in States
      BY StatesClosed
    <3>2. From(r, c, t)
      BY FromKept
    <3>3. r \in {s, RolledBack(s)} /\ r.status = "none" /\ (s.status = "none" => r = s)
      BY EndFields
    <3>4. RolledBack(s).durable = s.durable
      BY EndFields
    <3> HIDE DEF r
    <3> QED BY <3>1, <3>2, <3>3, <3>4
  <2> HIDE DEF r
  <2>3. /\ db'[c].status = "none" /\ db'[c].auto = r.auto /\ db'[c].rows = r.rows
        /\ durable' = r.durable /\ lost' = r.lost
    BY <1>1, <2>1, <2>2, BecomesFields DEF Known, TInv
  <2>4. ConnClean(c)' /\ Located(c)'
    BY <2>2, <2>3 DEF ConnClean, Located, From
  <2>5. Fate(t)'
    BY <2>1, <2>2, <2>3 DEF Fate, FateOf, Early, Using, OuterFrame
  <2>6. \A d \in Conns : user'[d] = NoTask => user[d] = NoTask \/ d = c
    BY <2>1 DEF Known, TInv, ControlTypes
  <2> HIDE DEF c
  <2> QED BY <1>1, <2>1, <2>2, <2>4, <2>5, <2>6, TouchData DEF c
<1>3. CASE Home(c) # pool
  <2>1. /\ Becomes(c, s) /\ UNCHANGED user /\ pc'[t] = "run" /\ block'[t] = "failed"
    BY <1>3 DEF GiveBack, Known, TInv, ControlTypes, TaskTypes
  <2>2. FateOf(t, s, final'[t], "failed")
    BY DEF FateOf
  <2> QED BY <1>1, <2>1, <2>2, WrapperData
<1> QED BY <1>2, <1>3

\* A step of t that touches neither the database, nor its block, nor its wrapper.
LEMMA IdleData ==
    ASSUME Atomic, Known, NEW t \in Tasks, Alone(t), UNCHANGED dbVars,
           \A d \in Conns : user'[d] = NoTask => user[d] = NoTask,
           pc[t] \notin {"bulkcommit", "bulkrollback", "releasing"}, pc'[t] # "releasing",
           block'[t] = block[t], final'[t] = final[t], wconn'[t] = wconn[t], ctx'[t] = ctx[t]
    PROVE  DataInv'
<1>1. /\ Early(t, durable)' = Early(t, durable) /\ Early(t, lost)' = Early(t, lost)
      /\ \A c : db'[c] = db[c]
  BY DEF dbVars, Early
<1>2. Fate(t)' /\ (Using(t) => Using(t)')
  BY <1>1, SameFate
<1> QED BY <1>2, QuietData

LEMMA EnterData ==
    ASSUME Atomic, Known, NEW t \in Tasks, Enter(t)
    PROVE  DataInv'
<1> USE PooledAssumption, NoConnIsNone DEF TInv, ControlTypes, TaskTypes, Goto, Known
<1>0. Alone(t) /\ Shape(t) /\ Stage(t) /\ Fate(t)
  BY EnterAlone DEF OInv, StageInv, DataInv
<1>1. CASE EnterBlock(t)
  <2>1. /\ block[t] = "none" /\ block'[t] = "entering" /\ pc[t] = "run"
        /\ wconn[t] = NoConn /\ wconn' = wconn /\ final' = final
        /\ UNCHANGED <<user, dbVars>>
    BY <1>0, <1>1 DEF EnterBlock, Shape
  <2>2. Fate(t)' /\ ~Using(t)
    BY <1>0, <2>1 DEF Fate, Early, Using, Stage, dbVars
  <2> QED BY <1>0, <2>1, <2>2, QuietData
<1>2. CASE PoolMade(t)
  <2>1. /\ \/ pc[t] = "pooling" /\ pc'[t] = "acquiring"
           \/ pc[t] = "callpooling" /\ pc'[t] = "callacquiring" /\ ctx' = ctx
        /\ UNCHANGED <<block, final, wconn, user, dbVars>>
    BY <1>2 DEF PoolMade, AcquireFor
  <2>2. CASE pc[t] = "pooling"
    <3>1. Fate(t)' /\ ~Using(t)
      BY <1>0, <2>1, <2>2 DEF Fate, Early, Using, Stage, Shape, dbVars, Entering
    <3> QED BY <1>0, <2>1, <2>2, <3>1, QuietData
  <2>3. CASE pc[t] = "callpooling"
    BY <1>0, <2>1, <2>3, IdleData
  <2> QED BY <2>1, <2>2, <2>3
<1>3. CASE TakeConn(t)
  <2>1. PICK c \in Conns : user[c] = NoTask /\ user' = [user EXCEPT ![c] = t]
    BY <1>3 DEF TakeConn, Free
  <2>2. /\ pc[t] = "acquiring" /\ block[t] = "entering" /\ final[t] = "open" /\ wconn[t] = NoConn
        /\ UNCHANGED <<block, final, dbVars>>
    BY <1>0, <1>3 DEF TakeConn, Stage, Entering
  <2>3. Fate(t)' /\ ~Using(t)
    BY <1>0, <2>2 DEF Fate, Early, Using, dbVars
  <2> QED BY <1>0, <2>1, <2>2, <2>3, QuietData
<1>4. CASE Started(t)
  <2> DEFINE z == State(wconn[t])
             s == StartedTx(z)
  <2>1. /\ pc[t] = "starting" /\ block[t] = "entering" /\ final[t] = "open"
        /\ pc'[t] = "run" /\ block'[t] = "open" /\ Becomes(wconn[t], s)
        /\ UNCHANGED <<ctx, final, wconn, user>>
    BY <1>0, <1>4 DEF Started, Stage, Entering
  <2>2. Using(t)
    BY <1>0, <2>1 DEF Using, Shape, Stage, Placed, OnWrapper
  <2>3. FateOf(t, z, "open", "entering") /\ z \in States /\ From(z, wconn[t], t)
    BY <2>1, <2>2, FateIs, StateType, FromState DEF Using
  <2> HIDE DEF z
  <2>4. s \in States /\ From(s, wconn[t], t) /\ s.rows = z.rows /\ s.durable = z.durable
        /\ s.lost = z.lost
    BY <2>3, FromKept, StatesClosed, MarkFields
  <2>5. s.status = "open"
    BY <2>3 DEF StartedTx, Atomic, States
  <2> HIDE DEF s
  <2>6. FateOf(t, s, "open", "open")
    BY <2>3, <2>4, <2>5 DEF FateOf
  <2> QED BY <1>0, <2>1, <2>2, <2>4, <2>6, WrapperData
<1>5. CASE EnterNested(t) \/ NestLocked(t)
  BY <1>0, <1>5, IdleData DEF EnterNested, NestLocked
<1> QED BY <1>1, <1>2, <1>3, <1>4, <1>5 DEF Enter

\* Who wrote a statement's rows, by way of what, and when.
LEMMA RowsOfFields ==
    ASSUME NEW t, NEW parts, NEW row \in RowsOf(t, parts)
    PROVE  /\ row.by = t /\ row.via = call[t].on
           /\ call[t].on # Client => (row.late <=> final[t] # "open")
<1> DEFINE late == call[t].on # Client /\ final[t] # "open"
<1>1. PICK n \in parts : row = [by |-> t, via |-> call[t].on, part |-> n, late |-> late]
  BY DEF RowsOf
<1> HIDE DEF late
<1>2. row.by = t /\ row.via = call[t].on /\ row.late = late
  BY <1>1
<1> QED BY <1>2 DEF late

\* A task whose statement goes to its wrapper is in a block, or in one that failed.
LEMMA WrapperConn ==
    ASSUME Atomic, Known, NEW t \in Tasks,
           (pc[t] \in Sending /\ call[t].on # Client) \/
              pc[t] \in {"committing", "rollingback"} \cup Manual
    PROVE  /\ Using(t) /\ ConnOf(t) \in {cconn[t], wconn[t]}
           /\ pc[t] \in Sending => ConnOf(t) = wconn[t] /\ call[t].on = t
           /\ block[t] \in {"open", "failed"}
<1>1. Stage(t) /\ (pc[t] \in Sending /\ call[t].on # Client => pc[t] = "stmt")
  BY DEF Known, StageInv, TInv, ControlTypes, Placed, Sending
<1>2. ctx[t] = t
  BY <1>1 DEF Stage
<1>3. wconn[t] \in Conns
  BY DEF Known, TInv, ControlTypes, Placed, OnWrapper
<1>4. pc[t] \notin Entering \cup {"releasing"}
  BY DEF Sending, Manual, Entering
<1>5. /\ Using(t) /\ ConnOf(t) \in {cconn[t], wconn[t]}
      /\ pc[t] \in Sending => ConnOf(t) = wconn[t] /\ call[t].on = t
  BY <1>1, <1>2, <1>3, <1>4, PooledAssumption DEF Using, ConnOf, Stage, Sending, Manual
<1>6. block[t] \in {"open", "failed"}
  BY <1>1, <1>2, <1>4, PooledAssumption DEF Stage, Known, TInv, ControlTypes, TaskTypes
<1> QED BY <1>5, <1>6

\* What an answered or failed statement leaves of its connection.
LEMMA SentFrom ==
    ASSUME Atomic, Known, NEW t \in Tasks, pc[t] \in Sending
    PROVE  \E rows \in SUBSET Rows :
              /\ rows \subseteq RowsOf(t, {0, 1, 2})
              /\ Sent(t) = Wrote(State(ConnOf(t)), rows)
              /\ ConnOf(t) \in Conns /\ State(ConnOf(t)) \in States
              /\ From(State(ConnOf(t)), ConnOf(t), call[t].on)
              /\ \A s \in {State(ConnOf(t)), Aborted(State(ConnOf(t))), Sent(t)} :
                    s \in States /\ From(s, ConnOf(t), call[t].on)
<1> USE DEF Known, TInv, ControlTypes, TaskTypes
<1> DEFINE z == State(ConnOf(t))
           rows == RowsOf(t, IF call[t].many THEN {1, 2} ELSE {0})
<1>1. ConnOf(t) \in Conns
  BY DEF Placed, ConnOf, Sending
<1>2. z \in States /\ From(z, ConnOf(t), call[t].on)
  BY <1>1, StateType, FromState
<1>3. /\ rows \in SUBSET Rows /\ rows \subseteq RowsOf(t, {0, 1, 2})
      /\ \A row \in rows : row.via = call[t].on
  <2>1. rows \subseteq RowsOf(t, {0, 1, 2})
    BY DEF RowsOf
  <2> QED BY <2>1, RowsOfType, RowsOfFields
<1>4. Sent(t) = Wrote(z, rows)
  BY DEF Sent, Atomic
<1> HIDE DEF z, rows
<1>5. /\ Aborted(z) \in States /\ From(Aborted(z), ConnOf(t), call[t].on)
      /\ Wrote(z, rows) \in States /\ From(Wrote(z, rows), ConnOf(t), call[t].on)
  BY <1>2, <1>3, FromKept, StatesClosed
<1> QED BY <1>1, <1>2, <1>3, <1>4, <1>5 DEF z

LEMMA SentData ==
    ASSUME Atomic, Known, NEW t \in Tasks, Alone(t), pc[t] \in Sending,
           UNCHANGED <<block, final, wconn, ctx>>,
           NEW s \in {State(ConnOf(t)), Aborted(State(ConnOf(t))), Sent(t)}, EndCall(t, s)
    PROVE  DataInv'
<1> USE DEF Known, TInv, ControlTypes, TaskTypes
<1> DEFINE z == State(ConnOf(t))
<1>1. PICK rows \in SUBSET Rows :
              /\ rows \subseteq RowsOf(t, {0, 1, 2})
              /\ Sent(t) = Wrote(z, rows)
              /\ ConnOf(t) \in Conns /\ z \in States /\ From(z, ConnOf(t), call[t].on)
              /\ \A r \in {z, Aborted(z), Sent(t)} :
                    r \in States /\ From(r, ConnOf(t), call[t].on)
  BY SentFrom
<1> HIDE DEF z
<1>2. s \in States /\ From(s, ConnOf(t), call[t].on) /\ s \in {z, Aborted(z), Wrote(z, rows)}
  BY <1>1 DEF z
<1>3. CASE call[t].on = Client
  <2>1. ConnOf(t) = cconn[t]
    BY <1>3 DEF ConnOf
  <2> QED BY <1>2, <1>3, <2>1, ClientEnds
<1>4. CASE call[t].on # Client
  <2>1. /\ Using(t) /\ ConnOf(t) = wconn[t] /\ call[t].on = t
        /\ block[t] \in {"open", "failed"}
    BY <1>4, WrapperConn
  <2>2. FateOf(t, z, final[t], block[t]) /\ z.auto
    BY <1>1, <2>1, FateIs DEF z, From
  <2>3. FateOf(t, Aborted(z), final[t], block[t])
    BY <1>1, <2>2, FateAborted
  <2>4. \A row \in rows : row.via = t /\ (row.late <=> final[t] # "open")
    BY <1>1, <1>4, <2>1, RowsOfFields
  <2>5. FateOf(t, Wrote(z, rows), final[t], block[t])
    BY <1>1, <2>1, <2>2, <2>4, FateWrote
  <2>6. FateOf(t, s, final[t], block[t])
    BY <1>2, <2>2, <2>3, <2>5
  <2>7. Becomes(wconn[t], s) /\ pc'[t] = "run" /\ UNCHANGED user
    BY <1>4, <2>1 DEF EndCall, Goto
  <2>8. pc[t] \notin {"bulkcommit", "bulkrollback"}
    BY <1>4 DEF Placed, Sending
  <2>9. From(s, wconn[t], t)
    BY <1>2, <2>1
  <2> QED BY <1>2, <2>1, <2>6, <2>7, <2>8, <2>9, WrapperData
<1> QED BY <1>3, <1>4

\* The rows of a bulk insert, or its first, are written on a connection that has no
\* others.
LEMMA BulkFrom ==
    ASSUME Atomic, Known, NEW t \in Tasks, BulkInserted(t) \/ BulkFailed(t)
    PROVE  \E s \in States :
              /\ From(s, cconn[t], Client) /\ Becomes(cconn[t], s)
              /\ \A row \in s.rows : row.via = Client /\ row.by = t
<1> USE PooledAssumption DEF Known, TInv, ControlTypes, TaskTypes
<1>1. pc[t] = "bulkrows" /\ pc[t] \in Sending /\ call[t].on = Client
  BY DEF BulkInserted, BulkFailed, Placed, Sending
<1>2. PICK c \in Conns : c = cconn[t] /\ user[c] = t
  BY <1>1, ClientConn
<1> DEFINE z == State(c)
<1>3. z \in States /\ From(z, c, Client)
  BY StateType, FromState
<1>4. z.rows = {}
  <2>1. z.rows = db[c].rows /\ user[c] \in {t, NoTask} /\ Located(c)
    BY <1>2, StateFields DEF DataInv
  <2>2. ASSUME NEW row \in db[c].rows
        PROVE  FALSE
    <3>1. row.via = Client /\ row.by = t
      BY <1>1, <1>2, <2>1, ClientConn, RowsOfUser
    <3> QED BY <1>1, <2>1, <3>1 DEF Located
  <2> QED BY <2>1, <2>2
<1>5. PICK rows : /\ rows \in SUBSET Rows /\ \A row \in rows : row.via = Client /\ row.by = t
                  /\ \E s \in {Wrote(z, rows), Aborted(Wrote(z, rows))} : Becomes(c, s)
  <2>1. \A parts \in {{1}, {1, 2}} :
           /\ RowsOf(t, parts) \in SUBSET Rows
           /\ \A row \in RowsOf(t, parts) : row.via = Client /\ row.by = t
    BY <1>1, RowsOfType, RowsOfFields
  <2> QED BY <1>2, <2>1 DEF BulkInserted, BulkFailed
<1> HIDE DEF z
<1> DEFINE w == Wrote(z, rows)
<1>6. w \in States /\ From(w, c, Client)
  BY <1>3, <1>5, FromKept, StatesClosed
<1>7. \A row \in w.rows : row \in rows
  BY <1>3, <1>4, <1>5, WroteFields DEF States
<1> HIDE DEF w
<1>8. Aborted(w) \in States /\ From(Aborted(w), c, Client) /\ Aborted(w).rows = w.rows
  BY <1>6, FromKept, StatesClosed, MarkFields
<1> QED BY <1>2, <1>5, <1>6, <1>7, <1>8 DEF w

LEMMA BulkData ==
    ASSUME Atomic, Known, NEW t \in Tasks, BulkInserted(t) \/ BulkFailed(t)
    PROVE  DataInv'
<1> USE PooledAssumption DEF Goto, Known, TInv, ControlTypes, TaskTypes
<1>0. Alone(t)
  BY StatementAlone DEF Statement
<1>1. pc[t] \in Sending /\ call[t].on = Client
  BY DEF BulkInserted, BulkFailed, Placed, Sending
<1>2. PICK c \in Conns : c = cconn[t] /\ user[c] = t
  BY <1>1, ClientConn
<1>3. PICK s \in States :
          /\ From(s, c, Client) /\ Becomes(c, s)
          /\ \A row \in s.rows : row.via = Client /\ row.by = t
  BY <1>2, BulkFrom
<1>4. /\ pc'[t] \in {"bulkcommit", "bulkrollback"} /\ cconn' = cconn
      /\ UNCHANGED <<block, final, wconn, ctx, user>>
  BY DEF BulkInserted, BulkFailed
<1>5. ConnClean(c)' /\ Located(c)'
  BY <1>2, <1>3, <1>4, BecomesFields DEF ConnClean, Located, From
<1> QED BY <1>0, <1>1, <1>2, <1>3, <1>4, <1>5, ClientData

LEMMA StatementData ==
    ASSUME Atomic, Known, NEW t \in Tasks, Statement(t)
    PROVE  DataInv'
<1> USE PooledAssumption DEF Goto, Known, TInv, ControlTypes, TaskTypes
<1>0. Alone(t)
  BY StatementAlone
<1>1. CASE Call(t)
  <2>1. /\ pc[t] = "run" /\ pc'[t] \in {"run", "callpooling", "callacquiring", "stmt"}
        /\ UNCHANGED <<ctx, block, final, wconn, user, dbVars>>
    BY <1>1 DEF Call
  <2> QED BY <1>0, <2>1, IdleData
<1>2. CASE CallTakeConn(t)
  <2>1. PICK c \in Conns :
          /\ user[c] = NoTask /\ user' = [user EXCEPT ![c] = t]
          /\ \/ /\ pc' = [pc EXCEPT ![t] = "bulkrows"]
                /\ Becomes(c, [State(c) EXCEPT !.status = "open"])
             \/ pc' = [pc EXCEPT ![t] = "stmt"] /\ UNCHANGED dbVars
    BY <1>2 DEF CallTakeConn, Free
  <2>2. pc[t] = "callacquiring" /\ UNCHANGED <<ctx, block, final, wconn>>
    BY <1>2 DEF CallTakeConn
  <2>3. \A d \in Conns : user'[d] = NoTask => user[d] = NoTask
    BY <2>1
  <2>4. CASE UNCHANGED dbVars /\ pc'[t] = "stmt"
    BY <1>0, <2>2, <2>3, <2>4, IdleData
  <2>5. CASE pc'[t] = "bulkrows" /\ Becomes(c, [State(c) EXCEPT !.status = "open"])
    <3> DEFINE z == State(c)
               s == [z EXCEPT !.status = "open"]
    <3>1. z \in States /\ From(z, c, Client) /\ db[c].rows = {}
      BY <2>1, StateType, FromState DEF DataInv, ConnClean
    <3>2. s \in States /\ s.status = "open" /\ s.rows = {}
          /\ s.durable = durable /\ s.lost = lost
      BY <3>1, StateFields DEF States, Statuses
    <3> HIDE DEF z
    <3>3. From(s, c, Client)
      BY <3>1, FromKept
    <3> HIDE DEF s
    <3>4. Becomes(c, s)
      BY <2>5 DEF s, z
    <3>5. /\ db'[c].rows = {} /\ db'[c].auto = s.auto /\ db'[c].status = "open"
          /\ durable' = durable /\ lost' = lost
          /\ \A d \in Conns \ {c} : db'[d] = db[d]
      BY <3>2, <3>4, BecomesFields
    <3>6. ConnClean(c)' /\ Located(c)'
      BY <2>1, <3>3, <3>5 DEF ConnClean, Located, From
    <3>7. Using(t) => wconn[t] # c /\ db'[wconn[t]] = db[wconn[t]]
      BY <2>1, <3>5, UsingOwns DEF Using
    <3>8. Fate(t)' /\ (Using(t) => Using(t)')
      BY <2>2, <2>5, <3>5, <3>7, SameFate DEF Early
    <3> QED BY <1>0, <2>1, <2>2, <2>3, <3>2, <3>3, <3>4, <3>6, <3>8, TouchData
  <2> QED BY <2>1, <2>4, <2>5
<1>3. CASE StmtDone(t)
  BY <1>0, <1>3, SentData DEF StmtDone, Sending
<1>4. CASE StmtFails(t)
  <2>1. pc[t] \in Sending /\ UNCHANGED <<block, final, wconn, ctx>>
    BY <1>4 DEF StmtFails, Sending
  <2>2. PICK s \in {State(ConnOf(t)), Aborted(State(ConnOf(t)))} : EndCall(t, s)
    BY <1>4 DEF StmtFails, AfterFailure, Atomic
  <2> QED BY <1>0, <2>1, <2>2, SentData
<1>5. CASE BulkInserted(t) \/ BulkFailed(t)
  BY <1>5, BulkData
<1>6. CASE BulkEnded(t)
  <2>1. /\ pc[t] \in Sending /\ call[t].on = Client
        /\ UNCHANGED <<block, final, wconn, ctx>>
    BY <1>6 DEF BulkEnded, Sending, Placed
  <2> DEFINE z == State(cconn[t])
  <2>2. z \in States /\ From(z, cconn[t], Client)
    BY <2>1, ClientConn, StateType, FromState
  <2>3. PICK s \in {Committed(z), RolledBack(z)} : EndCall(t, s)
    BY <1>6 DEF BulkEnded
  <2> HIDE DEF z
  <2>4. /\ Committed(z) \in States /\ From(Committed(z), cconn[t], Client)
        /\ RolledBack(z) \in States /\ From(RolledBack(z), cconn[t], Client)
    BY <2>2, FromKept, StatesClosed
  <2>5. s \in States /\ From(s, cconn[t], Client)
    BY <2>3, <2>4
  <2> QED BY <1>0, <2>1, <2>3, <2>5, ClientEnds
<1> QED BY <1>1, <1>2, <1>3, <1>4, <1>5, <1>6 DEF Statement

LEMMA ExitData ==
    ASSUME Atomic, Known, NEW t \in Tasks, Exit(t)
    PROVE  DataInv'
<1> USE PooledAssumption DEF Goto, Known, TInv, ControlTypes, TaskTypes
<1> DEFINE z == State(wconn[t])
<1>0. Alone(t) /\ Stage(t) /\ Shape(t) /\ Fate(t)
  BY ExitAlone DEF StageInv, OInv, DataInv
<1>1. Using(t) => FateOf(t, z, final[t], block[t]) /\ z \in States /\ From(z, wconn[t], t)
  BY FateIs, StateType, FromState DEF Using
<1> HIDE DEF z
<1>2. CASE ExitNested(t) \/ ExitBlock(t) \/ UserFinish(t)
  <2>1. /\ pc[t] = "run" /\ pc'[t] # "releasing"
        /\ UNCHANGED <<ctx, block, final, wconn, user, dbVars>>
    BY <1>2 DEF ExitNested, ExitBlock, UserFinish, InFrame, Manual
  <2> QED BY <1>0, <2>1, IdleData
<1>3. CASE ExitAsIs(t)
  <2>1. /\ pc[t] = "run" /\ OuterFrame(t) /\ GiveBack(t, z)
        /\ UNCHANGED <<ctx, wconn, final>> /\ block[t] = "open"
    BY <1>3 DEF ExitAsIs, InFrame, OuterFrame, z
  <2>2. Using(t)
    BY <1>0, <2>1 DEF Using, Shape, OuterFrame, Placed
  <2> QED BY <1>0, <1>1, <2>1, <2>2, GiveBackData
\* What a commit or a rollback that is done leaves
<1>4. ASSUME pc[t] \in {"committing", "rollingback"} \cup Manual,
             NEW how \in {"committed", "rolledback"}, NEW s,
             s = IF how = "committed" THEN CommittedTx(z) ELSE RolledBackTx(z),
             Finalise(t, how)
      PROVE  /\ Using(t) /\ s \in States /\ From(s, wconn[t], t) /\ final'[t] = how
             /\ FateOf(t, s, how, block[t])
  <2>1. Using(t) /\ block[t] \in {"open", "failed"} /\ final[t] = "open"
    BY <1>0, <1>4, WrapperConn DEF Stage
  <2>2. FateOf(t, Committed(z), "committed", block[t])
        /\ FateOf(t, RolledBack(z), "rolledback", block[t])
    BY <1>1, <2>1, FateCommitted, FateRolledBack
  <2>3. /\ Committed(z) \in States /\ From(Committed(z), wconn[t], t)
        /\ RolledBack(z) \in States /\ From(RolledBack(z), wconn[t], t)
        /\ CommittedTx(z) = Committed(z) /\ RolledBackTx(z) = RolledBack(z)
    BY <1>1, <2>1, FromKept, StatesClosed
  <2>4. final'[t] = how
    BY <1>4, <2>1 DEF Finalise
  <2> QED BY <1>4, <2>1, <2>2, <2>3, <2>4
<1>5. CASE ExitDone(t)
  <2> DEFINE how == IF pc[t] = "committing" THEN "committed" ELSE "rolledback"
             s == IF how = "committed" THEN CommittedTx(z) ELSE RolledBackTx(z)
  <2>1. /\ pc[t] \in {"committing", "rollingback"} /\ Finalise(t, how)
        /\ \/ OuterFrame(t) /\ GiveBack(t, s)
           \/ Becomes(wconn[t], s) /\ pc'[t] = "run" /\ UNCHANGED <<block, user>>
        /\ UNCHANGED <<ctx, wconn>>
    BY <1>5 DEF ExitDone, z
  <2>2. /\ Using(t) /\ s \in States /\ From(s, wconn[t], t) /\ final'[t] = how
        /\ FateOf(t, s, how, block[t])
    BY <1>4, <2>1
  <2> HIDE DEF s, how
  <2>3. CASE OuterFrame(t) /\ GiveBack(t, s)
    BY <1>0, <2>1, <2>2, <2>3, GiveBackData DEF OuterFrame
  <2>4. CASE Becomes(wconn[t], s) /\ pc'[t] = "run" /\ UNCHANGED <<block, user>>
    BY <1>0, <2>1, <2>2, <2>4, WrapperData
  <2> QED BY <2>1, <2>3, <2>4
<1>6. CASE Released(t)
  <2>1. /\ pc[t] = "releasing" /\ ctx'[t] = Client /\ block'[t] \in {"ok", "error"}
        /\ UNCHANGED <<final, wconn, user, dbVars>>
    BY <1>6 DEF Released
  <2>2. ~Using(t) /\ ~Using(t)' /\ block[t] = "open"
    BY <1>0, <2>1 DEF Using, Shape, OuterFrame
  <2>3. Fate(t)'
    BY <1>0, <2>1, <2>2 DEF Fate, Early, dbVars
  <2> QED BY <1>0, <2>1, <2>2, <2>3, QuietData
<1>7. CASE UserFinishDone(t)
  <2> DEFINE how == IF pc[t] = "usercommit" THEN "committed" ELSE "rolledback"
             s == IF how = "committed" THEN CommittedTx(z) ELSE RolledBackTx(z)
  <2>1. /\ pc[t] \in Manual /\ Finalise(t, how) /\ Becomes(wconn[t], s)
        /\ pc'[t] = "run" /\ UNCHANGED <<ctx, wconn, block, user>>
    BY <1>7 DEF UserFinishDone, Manual, z
  <2>2. /\ Using(t) /\ s \in States /\ From(s, wconn[t], t) /\ final'[t] = how
        /\ FateOf(t, s, how, block[t])
    BY <1>4, <2>1
  <2>3. pc[t] \notin {"bulkcommit", "bulkrollback"}
    BY <2>1 DEF Manual
  <2> HIDE DEF s, how
  <2> QED BY <1>0, <2>1, <2>2, <2>3, WrapperData
<1> QED BY <1>2, <1>3, <1>5, <1>6, <1>7 DEF Exit

LEMMA FaultData ==
    ASSUME Atomic, Known, NEW t \in Tasks, Fault(t)
    PROVE  DataInv'
<1> USE PooledAssumption, NoConnIsNone DEF Known, TInv, ControlTypes, TaskTypes
<1>0. Alone(t) /\ Stage(t) /\ Shape(t) /\ Fate(t)
  BY FaultAlone DEF StageInv, OInv, DataInv
<1>1. /\ pc[t] \in {"pooling", "callpooling", "starting", "rollingback", "userrollback"}
      /\ Abort(t, "err") /\ UNCHANGED <<user, dbVars>>
  BY AtomicIsSound DEF Fault, PoolFails, StartFails, FinishFails, Cancel
<1>2. /\ pc'[t] = "run" /\ block'[t] \in {block[t], "failed"}
      /\ UNCHANGED <<ctx, final, wconn>>
  BY <1>1 DEF Abort, Goto
<1>3. CASE block'[t] = block[t]
  BY <1>0, <1>1, <1>2, <1>3, IdleData
<1>4. CASE block'[t] = "failed"
  <2>1. Using(t) => Using(t)'
    BY <1>2 DEF Using
  <2>2. Using(t)' => Using(t)
    BY <1>1, <1>2 DEF Using
  <2>3. Fate(t)'
    BY <1>0, <1>1, <1>2, <1>4, <2>2 DEF Fate, Early, dbVars
  <2> QED BY <1>0, <1>1, <1>2, <2>1, <2>3, QuietData
<1> QED BY <1>2, <1>3, <1>4

LEMMA NextData ==
    ASSUME Atomic, Known, [Next]_vars
    PROVE  DataInv'
<1>1. CASE UNCHANGED vars
  BY <1>1 DEF vars, dbVars, Known, DataInv, Fate, Using, Early, ConnClean, Located
<1>2. ASSUME NEW t \in Tasks, User(t)
      PROVE  DataInv'
  <2>1. /\ pc[t] = "run" /\ pc'[t] # "releasing"
        /\ UNCHANGED <<ctx, block, final, wconn, user, dbVars>>
    BY <1>2 DEF User, Throw, Catch, Finish, InFrame, Goto, Known, TInv, ControlTypes, TaskTypes
  <2>2. Alone(t)
    BY <1>2, StepAlone DEF Step, Known
  <2> QED BY <2>1, <2>2, IdleData
<1>3. ASSUME NEW t \in Tasks, Step(t)
      PROVE  DataInv'
  BY <1>2, <1>3, EnterData, StatementData, ExitData, FaultData DEF Step
<1> QED BY <1>1, <1>3 DEF Next, Terminating, Step

LEMMA InitData == Init => DataInv
<1> SUFFICES ASSUME Init PROVE DataInv
  OBVIOUS
<1> QED BY PooledAssumption, NoConnIsNone
        DEF Init, DataInv, Fate, Using, Early, ConnClean, Located

LEMMA DataInvariant ==
    ASSUME Atomic
    PROVE  Spec => []Known
<1>1. Known /\ [Next]_vars => Known'
  BY NextTyped, NextOwns, NextStage, NextData, AtomicIsSound DEF Known
<1>2. Init /\ StageInv => Known
  BY InitTyped, InitOwns, InitData DEF Known
<1> QED BY <1>1, <1>2, StageInvariant, PTL DEF Spec

\* The rows that a block wrote before its wrapper was final are all durable or none is,
\* whichever statement, begin or rollback fails and however the block is left, and they
\* are durable only if its commit() was done or its start() was not.
THEOREM BlocksAtomic ==
    ASSUME Atomic
    PROVE  Spec => []BlockAllOrNothing
<1>1. Known => BlockAllOrNothing
  <2> SUFFICES ASSUME Known, NEW t \in Tasks, Early(t, durable) # {}
               PROVE  /\ Early(t, lost \cup Pending) = {}
                      /\ final[t] = "committed" \/ block[t] = "failed"
    BY DEF BlockAllOrNothing
  <2>1. /\ Early(t, lost) = {} /\ (Using(t) => db[wconn[t]].rows = {})
        /\ final[t] = "committed" \/ block[t] = "failed"
    BY DEF Known, DataInv, Fate, ConnClean, Using
  <2>2. ASSUME NEW row \in Early(t, Pending)
        PROVE  FALSE
    <3>1. PICK c \in Conns : row \in db[c].rows /\ row.via = t
      BY <2>2 DEF Early, Pending
    <3>2. Using(t) /\ wconn[t] = c
      BY <3>1, PooledAssumption DEF Known, DataInv, Located
    <3> QED BY <2>1, <3>1, <3>2
  <2> QED BY <2>1, <2>2 DEF Early
<1> QED BY <1>1, DataInvariant, PTL

-----------------------------------------------------------------------------
(* Blocks that neither nest nor are finished by hand *)

Flat == Features \cap {"nested", "manual"} = {}

\* Who is in a frame is in the frame of a block, and once the wrapper is final
\* nothing but the release is left.
FlatStage(t) ==
    /\ depth[t] > 0 => depth[t] = 1 /\ block[t] \in {"entering", "open"}
    /\ pc[t] \notin {"nestlocking"} \cup Manual
    /\ final[t] # "open" => pc[t] = "releasing" \/ block[t] \in {"ok", "error", "failed"}

\* Rows written on a final wrapper are those of a block whose release failed.
FlatRows(t) == \A row \in durable : row.via = t /\ row.late => block[t] = "failed"

FlatInv == \A t \in Tasks : FlatStage(t) /\ FlatRows(t)

LEMMA FlatStep ==
    ASSUME Atomic, Flat, Known, FlatInv, NEW t \in Tasks, Step(t)
    PROVE  /\ FlatStage(t)'
           /\ block[t] = "failed" => block'[t] = "failed"
<1> USE PooledAssumption
    DEF Known, TInv, ControlTypes, TaskTypes, Goto, Entering, Manual, Leaving
<1>0. Stage(t) /\ Shape(t) /\ FlatStage(t)
  BY DEF StageInv, OInv, FlatInv
<1>d. pc[t] \in Leaving => depth[t] > 0
  BY DEF Depths
<1>1. CASE Enter(t)
  <2>1. ~EnterNested(t) /\ ~NestLocked(t)
    BY <1>0, <1>1 DEF Flat, EnterNested, NestLocked, FlatStage
  <2>2. CASE EnterBlock(t)
    <3>1. /\ pc' \in {[pc EXCEPT ![t] = "pooling"], [pc EXCEPT ![t] = "acquiring"]}
          /\ block' = [block EXCEPT ![t] = "entering"] /\ block[t] = "none"
          /\ depth' = [depth EXCEPT ![t] = 1] /\ UNCHANGED final
      BY <2>2 DEF EnterBlock, AcquireFor
    <3> QED BY <1>0, <3>1 DEF Stage, FlatStage
  <2>3. CASE PoolMade(t)
    <3>1. /\ pc' \in {[pc EXCEPT ![t] = "callacquiring"], [pc EXCEPT ![t] = "acquiring"]}
          /\ pc[t] # "releasing" /\ UNCHANGED <<depth, block, final>>
      BY <2>3 DEF PoolMade, AcquireFor
    <3> QED BY <1>0, <3>1 DEF FlatStage
  <2>4. CASE TakeConn(t)
    BY <1>0, <2>4 DEF TakeConn, FlatStage
  <2>5. CASE Started(t)
    BY <1>0, <2>5 DEF Started, FlatStage, Stage
  <2> QED BY <1>1, <2>1, <2>2, <2>3, <2>4, <2>5 DEF Enter
<1>2. CASE Statement(t) \/ User(t)
  <2>1. /\ UNCHANGED <<depth, block, final>> /\ pc[t] # "releasing"
        /\ pc'[t] \notin {"nestlocking"} \cup Manual
    <3>1. CASE Call(t) \/ CallTakeConn(t) \/ BulkInserted(t) \/ BulkFailed(t) \/ User(t)
      <4>1. /\ UNCHANGED <<depth, block, final>> /\ pc[t] # "releasing"
            /\ \/ UNCHANGED pc
               \/ \E p \in {"callpooling", "callacquiring", "stmt", "bulkrows", "bulkcommit",
                            "bulkrollback", "done"} : pc' = [pc EXCEPT ![t] = p]
        BY <3>1 DEF Call, CallTakeConn, BulkInserted, BulkFailed, User, Throw, Catch, Finish,
                    InFrame
      <4> QED BY <1>0, <4>1 DEF FlatStage
    <3>2. CASE StmtDone(t) \/ StmtFails(t) \/ BulkEnded(t)
      BY <3>2 DEF StmtDone, StmtFails, BulkEnded, EndCall
    <3> QED BY <1>2, <3>1, <3>2 DEF Statement
  <2> QED BY <1>0, <2>1 DEF FlatStage
<1>3. CASE Exit(t)
  <2>1. ~UserFinish(t) /\ ~UserFinishDone(t)
    BY <1>0 DEF Flat, UserFinish, UserFinishDone, FlatStage
  <2>2. ~ExitNested(t)
    <3> SUFFICES ASSUME pc[t] = "run", depth[t] > 0 PROVE OuterFrame(t)
      BY DEF ExitNested, InFrame
    <3> QED BY <1>0 DEF FlatStage, OuterFrame, Stage
  <2>3. CASE ExitBlock(t)
    <3>1. /\ final[t] = "open" /\ UNCHANGED <<depth, block, final>>
          /\ pc' \in {[pc EXCEPT ![t] = "committing"], [pc EXCEPT ![t] = "rollingback"]}
      BY <2>3 DEF ExitBlock
    <3> QED BY <1>0, <3>1 DEF FlatStage
  <2>4. ASSUME NEW s, OuterFrame(t), GiveBack(t, s)
        PROVE  FlatStage(t)' /\ (block[t] = "failed" => block'[t] = "failed")
    <3>1. \/ pc' = [pc EXCEPT ![t] = "releasing"] /\ UNCHANGED <<block, depth>>
          \/ /\ pc' = [pc EXCEPT ![t] = "run"] /\ depth' = [depth EXCEPT ![t] = 0]
             /\ block' = [block EXCEPT ![t] = "failed"]
      BY <2>4 DEF GiveBack
    <3> QED BY <1>0, <2>4, <3>1 DEF FlatStage, OuterFrame
  <2>5. CASE ExitAsIs(t)
    BY <2>4, <2>5 DEF ExitAsIs
  <2>6. CASE ExitDone(t)
    <3>1. OuterFrame(t)
      BY <1>0, <1>d, <2>6 DEF ExitDone, FlatStage, OuterFrame, Stage
    <3> QED BY <2>4, <2>6, <3>1 DEF ExitDone
  <2>7. CASE Released(t)
    BY <1>0, <2>7 DEF Released, FlatStage, Shape, OuterFrame
  <2> QED BY <1>3, <2>1, <2>2, <2>3, <2>5, <2>6, <2>7 DEF Exit
<1>4. CASE Fault(t)
  <2>1. /\ pc[t] \in {"pooling", "callpooling", "starting", "rollingback", "userrollback"}
        /\ Abort(t, "err")
    BY <1>4, AtomicIsSound DEF Fault, PoolFails, StartFails, FinishFails, Cancel
  <2>2. pc[t] = "rollingback" => OuterFrame(t)
    BY <1>0, <1>d DEF FlatStage, OuterFrame, Stage
  <2>3. /\ pc' = [pc EXCEPT ![t] = "run"] /\ UNCHANGED final
        /\ \/ /\ block' = [block EXCEPT ![t] = "failed"]
              /\ depth' = [depth EXCEPT ![t] = 0]
           \/ UNCHANGED <<block, depth>>
    BY <1>0, <2>1, <2>2 DEF Abort, FlatStage
  <2> QED BY <1>0, <2>1, <2>3 DEF FlatStage
<1> QED BY <1>1, <1>2, <1>3, <1>4 DEF Step

\* What a step of t makes durable was written before, or is a statement of t.
LEMMA NewDurable ==
    ASSUME Atomic, Known, NEW t \in Tasks, Step(t)
    PROVE  \/ durable' \subseteq durable \cup Pending
           \/ /\ durable' \subseteq durable \cup Pending \cup RowsOf(t, {0, 1, 2})
              /\ pc[t] \in Sending /\ UNCHANGED block
<1> USE DEF Known, TInv, ControlTypes, TaskTypes
<1> DEFINE Before == durable \cup Pending
           Kept(s) == s \in States /\ s.durable \subseteq Before
<1>1. ASSUME NEW c \in Conns
      PROVE  LET z == State(c)
             IN /\ Kept(z) /\ Kept(Aborted(z)) /\ Kept(StartedTx(z))
                /\ Kept([z EXCEPT !.status = "open"]) /\ Kept(RolledBack(z))
                /\ Kept(Committed(z)) /\ Kept(RolledBackTx(z)) /\ Kept(CommittedTx(z))
  <2> DEFINE z == State(c)
  <2>1. z \in States /\ z.durable = durable /\ z.rows \subseteq Pending
    BY StateType, StateFields DEF Pending
  <2>2. From(z, c, Client)
    BY FromState
  <2> HIDE DEF z
  <2>3. CommittedTx(z) = Committed(z) /\ RolledBackTx(z) = RolledBack(z)
    BY <2>1, <2>2, FromKept
  <2>4. /\ Aborted(z) \in States /\ StartedTx(z) \in States /\ RolledBack(z) \in States
        /\ Committed(z) \in States
    BY <2>1, StatesClosed
  <2>5. [z EXCEPT !.status = "open"] \in States
    BY <2>1 DEF States, Statuses
  <2>6. /\ Aborted(z).durable = z.durable /\ StartedTx(z).durable = z.durable
        /\ [z EXCEPT !.status = "open"].durable = z.durable
    BY <2>1, MarkFields
  <2>7. RolledBack(z).durable = z.durable /\ Committed(z).durable \subseteq z.durable \cup z.rows
    BY <2>1, EndFields
  <2>8. Kept(z) /\ Kept(Aborted(z)) /\ Kept(StartedTx(z)) /\ Kept([z EXCEPT !.status = "open"])
    BY <2>1, <2>4, <2>5, <2>6
  <2>9. Kept(RolledBack(z)) /\ Kept(Committed(z))
    BY <2>1, <2>4, <2>7
  <2> QED BY <2>3, <2>8, <2>9 DEF z
<1>2. ASSUME NEW s, Kept(s)
      PROVE  Kept(Returned(s))
  <2>1. s \in States /\ s.durable \subseteq Before
    BY <1>2
  <2>2. Returned(s) \in States
    BY <2>1, StatesClosed
  <2>3. Returned(s).durable = s.durable
    BY <2>1, EndFields
  <2> QED BY <2>1, <2>2, <2>3
<1>3. ASSUME NEW c \in Conns, NEW s \in States, Becomes(c, s)
      PROVE  durable' = s.durable
  BY <1>3, BecomesFields
\* What a step makes of a connection
<1>4. ASSUME NEW c \in Conns, NEW s, Kept(s), Becomes(c, s)
      PROVE  durable' \subseteq Before
  BY <1>3, <1>4
<1>5. UNCHANGED dbVars => durable' \subseteq Before
  BY DEF dbVars
<1>6. ASSUME pc[t] \in Sending
      PROVE  ConnOf(t) \in Conns /\ (call[t].on = Client => ConnOf(t) = cconn[t])
  BY <1>6 DEF Placed, ConnOf, Sending
<1>7. ASSUME pc[t] \in Sending, NEW s \in States, EndCall(t, s)
      PROVE  durable' = s.durable
  <2>1. Returned(s) \in States /\ Returned(s).durable = s.durable
    BY EndFields, StatesClosed
  <2> QED BY <1>3, <1>6, <1>7, <2>1 DEF EndCall
<1>8. ASSUME wconn[t] \in Conns, NEW s, Kept(s), GiveBack(t, s)
      PROVE  durable' \subseteq Before
  <2>1. Becomes(wconn[t], s) \/ Becomes(wconn[t], Returned(s))
    BY <1>8 DEF GiveBack
  <2> HIDE DEF Kept
  <2> QED BY <1>2, <1>4, <1>8, <2>1
<1>k. \A s : Kept(s) => s \in States /\ s.durable \subseteq Before
  OBVIOUS
<1> HIDE DEF Kept
<1>9. CASE Enter(t)
  <2>1. CASE Started(t)
    <3>1. wconn[t] \in Conns /\ Becomes(wconn[t], StartedTx(State(wconn[t])))
      BY <2>1 DEF Started, Placed, OnWrapper
    <3> QED BY <1>1, <1>4, <3>1
  <2>2. CASE ~Started(t)
    BY <1>5, <1>9, <2>2
       DEF Enter, EnterBlock, PoolMade, TakeConn, EnterNested, NestLocked
  <2> QED BY <2>1, <2>2
<1>10. CASE Statement(t)
  <2>1. CASE Call(t)
    BY <1>5, <2>1 DEF Call
  <2>2. CASE CallTakeConn(t)
    <3>1. PICK c \in Conns : Becomes(c, [State(c) EXCEPT !.status = "open"]) \/ UNCHANGED dbVars
      BY <2>2 DEF CallTakeConn, Free
    <3> QED BY <1>1, <1>4, <1>5, <3>1
  <2>3. CASE StmtDone(t)
    <3>1. pc[t] \in Sending /\ EndCall(t, Sent(t)) /\ UNCHANGED block
      BY <2>3 DEF StmtDone, Sending
    <3>2. PICK rows \in SUBSET Rows :
             /\ rows \subseteq RowsOf(t, {0, 1, 2})
             /\ Sent(t) = Wrote(State(ConnOf(t)), rows)
             /\ State(ConnOf(t)) \in States /\ Sent(t) \in States
      BY <3>1, SentFrom
    <3>3. Sent(t).durable \subseteq durable \cup rows
      BY <3>2, WroteFields, StateFields
    <3> QED BY <1>7, <3>1, <3>2, <3>3
  <2>4. CASE StmtFails(t)
    <3>1. PICK s \in {State(ConnOf(t)), Aborted(State(ConnOf(t)))} : EndCall(t, s)
      BY <2>4 DEF StmtFails, AfterFailure, Atomic
    <3>2. pc[t] \in Sending /\ ConnOf(t) \in Conns
      BY <1>6, <2>4 DEF StmtFails, Sending
    <3>3. Kept(s)
      BY <1>1, <3>1, <3>2
    <3> QED BY <1>k, <1>7, <3>1, <3>2, <3>3
  <2>5. CASE BulkInserted(t) \/ BulkFailed(t)
    <3>1. pc[t] \in Sending /\ UNCHANGED block /\ cconn[t] \in Conns
      BY <2>5 DEF BulkInserted, BulkFailed, Sending, Placed
    <3> DEFINE z == State(cconn[t])
    <3>2. PICK rows \in {RowsOf(t, {1}), RowsOf(t, {1, 2})} :
             Becomes(cconn[t], Wrote(z, rows)) \/ Becomes(cconn[t], Aborted(Wrote(z, rows)))
      BY <2>5 DEF BulkInserted, BulkFailed
    <3>3. rows \in SUBSET Rows /\ rows \subseteq RowsOf(t, {0, 1, 2})
      <4>1. rows \subseteq RowsOf(t, {0, 1, 2})
        BY <3>2 DEF RowsOf
      <4> QED BY <4>1, RowsOfType
    <3>4. z \in States /\ z.durable = durable
      BY <3>1, StateType, StateFields
    <3> HIDE DEF z
    <3>w. Wrote(z, rows) \in States
      BY <3>3, <3>4, StatesClosed
    <3>5. /\ Wrote(z, rows) \in States /\ Wrote(z, rows).durable \subseteq durable \cup rows
      BY <3>3, <3>4, <3>w, WroteFields
    <3>6. /\ Aborted(Wrote(z, rows)).durable = Wrote(z, rows).durable
          /\ Aborted(Wrote(z, rows)) \in States
      BY <3>5, MarkFields, StatesClosed
    <3> QED BY <1>3, <3>1, <3>2, <3>3, <3>5, <3>6
  <2>6. CASE BulkEnded(t)
    <3>1. pc[t] \in Sending /\ cconn[t] \in Conns
      BY <2>6 DEF BulkEnded, Sending, Placed
    <3>2. PICK s \in {Committed(State(cconn[t])), RolledBack(State(cconn[t]))} : EndCall(t, s)
      BY <2>6 DEF BulkEnded
    <3>3. Kept(s)
      BY <1>1, <3>1, <3>2
    <3> QED BY <1>k, <1>7, <3>1, <3>2, <3>3
  <2> QED BY <1>10, <2>1, <2>2, <2>3, <2>4, <2>5, <2>6 DEF Statement
<1>11. CASE Exit(t)
  <2>1. CASE ExitAsIs(t)
    <3>1. wconn[t] \in Conns /\ GiveBack(t, State(wconn[t]))
      BY <2>1 DEF ExitAsIs, OuterFrame, Placed
    <3> QED BY <1>1, <1>8, <3>1
  <2>2. CASE ExitDone(t) \/ UserFinishDone(t)
    <3>1. wconn[t] \in Conns
      BY <2>2 DEF ExitDone, UserFinishDone, Placed, OnWrapper, Manual
    <3>2. PICK s \in {CommittedTx(State(wconn[t])), RolledBackTx(State(wconn[t]))} :
             GiveBack(t, s) \/ Becomes(wconn[t], s)
      BY <2>2 DEF ExitDone, UserFinishDone
    <3>3. Kept(s)
      BY <1>1, <3>1, <3>2
    <3> QED BY <1>4, <1>8, <3>1, <3>2, <3>3
  <2>3. CASE ExitNested(t) \/ ExitBlock(t) \/ Released(t) \/ UserFinish(t)
    BY <1>5, <2>3 DEF ExitNested, ExitBlock, Released, UserFinish
  <2> QED BY <1>11, <2>1, <2>2, <2>3 DEF Exit
<1>12. CASE User(t)
  BY <1>5, <1>12 DEF User, Throw, Catch, Finish
<1>13. CASE Fault(t)
  BY <1>5, <1>13, AtomicIsSound DEF Fault, PoolFails, StartFails, FinishFails, Cancel
<1> QED BY <1>9, <1>10, <1>11, <1>12, <1>13 DEF Step

LEMMA NextFlat ==
    ASSUME Atomic, Flat, Known, FlatInv, [Next]_vars
    PROVE  FlatInv'
<1>1. CASE UNCHANGED vars
  BY <1>1 DEF vars, dbVars, FlatInv, FlatStage, FlatRows
<1>2. ASSUME NEW t \in Tasks, Step(t)
      PROVE  FlatInv'
  <2>1. /\ FlatStage(t)' /\ (block[t] = "failed" => block'[t] = "failed")
        /\ Alone(t) /\ Stage(t) /\ FlatStage(t)
    BY <1>2, FlatStep, StepAlone DEF Known, StageInv, FlatInv
  <2>2. ASSUME NEW u \in Tasks \ {t}
        PROVE  FlatStage(u)' /\ block'[u] = block[u]
    BY <2>1 DEF Alone, Local, FlatStage, FlatInv
  <2>3. ASSUME NEW u \in Tasks, NEW row \in durable', row.via = u, row.late,
               row \notin durable
        PROVE  u = t /\ block'[t] = "failed"
    <3>1. row \notin Pending
      BY <2>3, PooledAssumption DEF Pending, Known, DataInv, Located
    <3>2. /\ row \in RowsOf(t, {0, 1, 2}) /\ pc[t] \in Sending /\ UNCHANGED block
      BY <1>2, <2>3, <3>1, NewDurable
    <3>3. row.via = call[t].on /\ call[t].on # Client /\ final[t] # "open"
      BY <2>3, <3>2, RowsOfFields, PooledAssumption
    <3>4. call[t].on = t /\ pc[t] = "stmt"
      BY <2>1, <3>2, <3>3 DEF Stage, Known, TInv, ControlTypes, Placed, Sending
    <3>5. ctx[t] = t /\ block[t] \in {"ok", "error", "failed"}
      BY <2>1, <3>3, <3>4 DEF Stage, FlatStage
    <3> QED BY <2>1, <2>3, <3>2, <3>3, <3>4, <3>5, PooledAssumption DEF Stage
  <2>4. ASSUME NEW u \in Tasks, NEW row \in durable', row.via = u, row.late
        PROVE  block'[u] = "failed"
    BY <2>1, <2>2, <2>3, <2>4 DEF FlatInv, FlatRows
  <2> QED BY <2>1, <2>2, <2>4 DEF FlatInv, FlatRows
<1> QED BY <1>1, <1>2 DEF Next, Terminating, Step

\* When an error leaves a block that neither nests nor was finished by hand, no row that
\* was written through its wrapper is durable.
THEOREM ErrorsRollBack ==
    ASSUME Atomic, Flat
    PROVE  Spec => []BlockErrorRollsBack
<1>1. Init => FlatInv
  BY PooledAssumption DEF Init, FlatInv, FlatStage, FlatRows, Manual
<1>2. Known /\ FlatInv /\ [Next]_vars => FlatInv'
  BY NextFlat
<1>3. Known /\ FlatInv => BlockErrorRollsBack
  <2> SUFFICES ASSUME Known, FlatInv, NEW t \in Tasks, NEW row \in durable, row.via = t,
                      block[t] = "error", final[t] # "committed"
               PROVE  FALSE
    BY DEF BlockErrorRollsBack
  <2>1. Early(t, durable) = {}
    BY DEF Known, DataInv, Fate
  <2> QED BY <2>1 DEF Early, FlatInv, FlatRows
<1> QED BY <1>1, <1>2, <1>3, DataInvariant, PTL DEF Spec

-----------------------------------------------------------------------------
(* PooledTransactions implements the abstract store of TransactionStore.   *)

\* The client connected before the tasks run, and no rollback fails.
Steady == Atomic /\ "rollback" \notin Faults /\ ~Cold

-----------------------------------------------------------------------------
(* One pool *)

\* Every connection that is given back comes from the client's pool.
HomeInv ==
    /\ pool = FirstPool
    /\ \A t \in Tasks :
          /\ pc[t] \notin {"pooling", "callpooling"}
          /\ want[t] \in {NoPool, FirstPool}
          /\ wconn[t] \in Conns => Home(wconn[t]) = FirstPool

LEMMA FirstPoolIsOne == FirstPool \in Pools /\ FirstPool # NoPool
BY PooledAssumption DEF FirstPool

LEMMA HomeStep ==
    ASSUME TInv, HomeInv, NEW t \in Tasks, Step(t)
    PROVE  HomeInv'
<1> USE FirstPoolIsOne, NoConnIsNone DEF HomeInv, TInv, ControlTypes, TaskTypes, Goto, poolVars
<1>1. CASE TakeConn(t)
  <2>1. PICK c \in Conns : Home(c) = want[t] /\ wconn' = [wconn EXCEPT ![t] = c]
    BY <1>1 DEF TakeConn, Free
  <2>2. Home(c) \in Pools
    BY DEF Conns, Home
  <2>3. Home(c) = FirstPool
    BY <2>1, <2>2, PooledAssumption
  <2>4. \A u \in Tasks : wconn'[u] \in Conns => Home(wconn'[u]) = FirstPool
    BY <2>1, <2>3
  <2> QED BY <1>1, <2>4 DEF TakeConn
<1>2. CASE EnterBlock(t) \/ Call(t)
  <2>1. /\ pc' = pc \/ \E p \in {"acquiring", "callacquiring", "stmt"} : pc' = [pc EXCEPT ![t] = p]
        /\ want' = want \/ want' = [want EXCEPT ![t] = pool]
        /\ UNCHANGED <<wconn, pool>>
    BY <1>2 DEF EnterBlock, AcquireFor, Call
  <2> QED BY <2>1
<1>3. ASSUME UNCHANGED <<pool, want, wconn>>, \E p \in PCs \ {"pooling", "callpooling"} :
                pc' = pc \/ pc' = [pc EXCEPT ![t] = p]
      PROVE  HomeInv'
  BY <1>3
<1>4. CASE PoolMade(t)
  BY <1>4 DEF PoolMade
<1>5. CASE Started(t) \/ EnterNested(t) \/ NestLocked(t)
  BY <1>3, <1>5 DEF Started, EnterNested, NestLocked, PCs
<1>6. CASE CallTakeConn(t) \/ StmtDone(t) \/ StmtFails(t)
  BY <1>3, <1>6 DEF CallTakeConn, StmtDone, StmtFails, EndCall, PCs, InCall
<1>7. CASE BulkInserted(t) \/ BulkFailed(t) \/ BulkEnded(t)
  BY <1>3, <1>7 DEF BulkInserted, BulkFailed, BulkEnded, EndCall, PCs, InCall
<1>8. CASE ExitNested(t) \/ ExitBlock(t) \/ Released(t)
  BY <1>3, <1>8 DEF ExitNested, ExitBlock, Released, PCs, Leaving
<1>9. CASE ExitAsIs(t) \/ ExitDone(t)
  BY <1>3, <1>9 DEF ExitAsIs, ExitDone, GiveBack, PCs, Leaving
<1>10. CASE UserFinish(t) \/ UserFinishDone(t)
  <2>1. /\ UNCHANGED <<pool, want, wconn>>
        /\ pc' = pc \/ \E p \in Manual \cup {"run"} : pc' = [pc EXCEPT ![t] = p]
    BY <1>10 DEF UserFinish, UserFinishDone
  <2> QED BY <1>3, <2>1 DEF PCs, Manual
<1>11. CASE User(t)
  BY <1>3, <1>11 DEF User, Throw, Catch, Finish, PCs
<1>12. CASE Fault(t)
  BY <1>3, <1>12 DEF Fault, PoolFails, StartFails, FinishFails, Cancel, Abort, PCs
<1> QED BY <1>1, <1>2, <1>4, <1>5, <1>6, <1>7, <1>8, <1>9, <1>10, <1>11, <1>12
        DEF Step, Enter, Statement, Exit

-----------------------------------------------------------------------------
(* What is staged *)

\* A wrapper that is not in an open block is in no transaction.
Settled(t) == block[t] \in {"entering", "failed"} /\ Using(t) => db[wconn[t]].status = "none"

SettledInv == \A t \in Tasks : Settled(t)

Good == Known /\ HomeInv /\ SettledInv

\* What a block has staged is what is on its wrapper's connection.
LEMMA StagedIs ==
    ASSUME Atomic, Known, NEW t \in Tasks
    PROVE  Early(t, Pending) = IF Using(t) THEN db[wconn[t]].rows ELSE {}
<1>1. ASSUME NEW row \in Early(t, Pending)
      PROVE  Using(t) /\ row \in db[wconn[t]].rows
  <2>1. PICK c \in Conns : row \in db[c].rows /\ row.via = t
    BY <1>1 DEF Early, Pending
  <2> QED BY <2>1, PooledAssumption DEF Known, DataInv, Located
<1>2. ASSUME Using(t), NEW row \in db[wconn[t]].rows
      PROVE  row \in Early(t, Pending)
  BY <1>2, RowsOfBlock DEF EarlyOnly, Early, Pending, Using
<1> QED BY <1>1, <1>2

\* A block that is over has staged nothing.
LEMMA OverIsEmpty ==
    ASSUME Atomic, Good, NEW t \in Tasks, Using(t)
    PROVE  /\ Over(t) <=> final[t] # "open" \/ block[t] = "failed"
           /\ Over(t) => db[wconn[t]].status = "none"
           /\ db[wconn[t]].status = "none" => db[wconn[t]].rows = {}
<1>1. Stage(t) /\ Fate(t) /\ ConnClean(wconn[t]) /\ Settled(t)
  BY DEF Good, Known, StageInv, DataInv, SettledInv, Using
<1> QED BY <1>1, PooledAssumption DEF Stage, Fate, ConnClean, Settled, Using, Over

-----------------------------------------------------------------------------
(* Steps of the store *)

\* A step of t that leaves what the others staged, and which of them are over.
Beside(t) == \A u \in Tasks \ {t} :
                Early(u, Pending)' = Early(u, Pending) /\ (Over(u)' <=> Over(u))

StoreVars == <<[t \in Tasks |-> Early(t, Pending)], {t \in Tasks : Over(t)}, durable>>

LEMMA StoreWrites ==
    ASSUME NEW t \in Tasks, Beside(t), ~Over(t), ~Over(t)', durable' = durable,
           NEW rows \in SUBSET Rows, \A row \in rows : row.via = t,
           Early(t, Pending)' = Early(t, Pending) \cup rows
    PROVE  Store!Next
<1>1. rows \in SUBSET {r \in Rows : RowOf(r, t)}
  BY DEF RowOf
<1>2. Store!Write(t)
  BY <1>1 DEF Store!Write, Beside
<1> QED BY <1>2 DEF Store!Next

LEMMA StoreCommits ==
    ASSUME NEW t \in Tasks, Beside(t), ~Over(t), Over(t)',
           durable' = durable \cup Early(t, Pending), Early(t, Pending)' = {}
    PROVE  Store!Next
<1>1. Store!Commit(t)
  BY DEF Store!Commit, Beside
<1> QED BY <1>1 DEF Store!Next

LEMMA StoreRollsBack ==
    ASSUME NEW t \in Tasks, Beside(t), ~Over(t), Over(t)',
           durable' = durable, Early(t, Pending)' = {}
    PROVE  Store!Next
<1>1. Store!Rollback(t)
  BY DEF Store!Rollback, Beside
<1> QED BY <1>1 DEF Store!Next

\* A step that stages nothing and ends nothing: what it makes durable is no row of a
\* block that is not over.
LEMMA StoreAutoCommits ==
    ASSUME NEW t \in Tasks, Beside(t), Over(t)' <=> Over(t), Early(t, Pending)' = Early(t, Pending),
           durable \subseteq durable',
           \A row \in durable' \ durable : row.via = Client \/ (row.via = t /\ Over(t))
    PROVE  Store!Next
<1>1. Store!AutoCommit
  BY PooledAssumption DEF Store!AutoCommit, Beside, RowOf
<1> QED BY <1>1 DEF Store!Next

-----------------------------------------------------------------------------
(* Every step is a step of the store *)

\* A step of t changes only connections that are its own.
Only(t) == \A d \in Conns : user[d] \notin {t, NoTask} => db'[d] = db[d]

\* What is known of a step of t that leaves a state in which the data is in order
Stepping(t) == Steady /\ Good /\ Known' /\ Alone(t) /\ Only(t)

LEMMA StagedAlways ==
    Atomic /\ Known => \A t \in Tasks :
        Early(t, Pending) = IF Using(t) THEN db[wconn[t]].rows ELSE {}
BY StagedIs

\* The same of the state after a step.
LEMMA StagedAfter ==
    (Atomic /\ Known => \A t \in Tasks :
        Early(t, Pending) = IF Using(t) THEN db[wconn[t]].rows ELSE {})'
BY StagedAlways, PTL

LEMMA SteadyIsAtomic == Steady => Atomic /\ "rollback" \notin Faults
BY DEF Steady

\* What t leaves of the others.
LEMMA SteppingBeside ==
    ASSUME NEW t \in Tasks, Stepping(t), Settled(t)'
    PROVE  Beside(t) /\ SettledInv'
<1>1. ASSUME NEW u \in Tasks \ {t}
      PROVE  Early(u, Pending)' = Early(u, Pending) /\ (Over(u)' <=> Over(u)) /\ Settled(u)'
  <2>1. /\ pc'[u] = pc[u] /\ block'[u] = block[u] /\ final'[u] = final[u]
        /\ ctx'[u] = ctx[u] /\ wconn'[u] = wconn[u]
    BY DEF Stepping, Alone, Local
  <2>2. Using(u)' <=> Using(u)
    BY <2>1 DEF Using
  <2>3. Using(u) => db'[wconn[u]] = db[wconn[u]]
    BY UsingOwns, PooledAssumption, SteadyIsAtomic DEF Stepping, Only, Using, Good, Known
  <2>4. Early(u, Pending)' = Early(u, Pending)
    BY <2>1, <2>2, <2>3, StagedIs, StagedAfter, SteadyIsAtomic DEF Stepping, Good
  <2>5. (Over(u)' <=> Over(u)) /\ Settled(u)'
    BY <2>1, <2>2, <2>3 DEF Over, Settled, Stepping, Good, SettledInv
  <2> QED BY <2>4, <2>5
<1> QED BY <1>1 DEF Beside, SettledInv

\* A step of t beside its block: it commits rows of the client alone.
LEMMA SideStore ==
    ASSUME NEW t \in Tasks, Stepping(t), Over(t)' <=> Over(t), Settled(t)',
           Using(t) <=> Using(t)',
           Using(t) => wconn'[t] = wconn[t] /\ db'[wconn[t]].rows = db[wconn[t]].rows,
           durable \subseteq durable', \A row \in durable' \ durable : row.via = Client
    PROVE  SettledInv' /\ Store!Next
<1>1. Early(t, Pending)' = Early(t, Pending)
  BY StagedIs, StagedAfter, SteadyIsAtomic DEF Stepping, Good
<1> QED BY <1>1, SteppingBeside, StoreAutoCommits

\* A step that leaves the database and the block alone.
LEMMA QuietStore ==
    ASSUME NEW t \in Tasks, Steady, Good, Known', Alone(t), UNCHANGED dbVars,
           pc[t] # "releasing", pc'[t] # "releasing",
           block'[t] = block[t], final'[t] = final[t], wconn'[t] = wconn[t], ctx'[t] = ctx[t]
    PROVE  SettledInv' /\ Store!Next
<1>1. Stepping(t)
  BY DEF Stepping, Only, dbVars
<1>2. (Over(t)' <=> Over(t)) /\ (Using(t) <=> Using(t)') /\ Settled(t)'
  BY DEF Over, Using, Settled, Good, SettledInv, dbVars
<1> QED BY <1>1, <1>2, SideStore DEF dbVars

\* A call on the client, in a block of the task or not.
LEMMA ClientStore ==
    ASSUME NEW t \in Tasks, Steady, Good, Known', Alone(t),
           NEW c \in Conns, user[c] \in {t, NoTask}, Using(t) => wconn[t] # c,
           NEW s \in States, From(s, c, Client), Becomes(c, s),
           \A row \in db[c].rows : row.via = Client,
           pc[t] # "releasing", pc'[t] # "releasing",
           block'[t] = block[t], final'[t] = final[t], wconn'[t] = wconn[t], ctx'[t] = ctx[t]
    PROVE  SettledInv' /\ Store!Next
<1>1. durable' = s.durable /\ \A d \in Conns \ {c} : db'[d] = db[d]
  BY BecomesFields DEF Good, Known, TInv
<1>2. Stepping(t)
  BY <1>1 DEF Stepping, Only
<1>3. Using(t) => db'[wconn[t]] = db[wconn[t]]
  BY <1>1 DEF Using
<1>4. (Over(t)' <=> Over(t)) /\ (Using(t) <=> Using(t)') /\ Settled(t)'
  BY <1>3 DEF Over, Using, Settled, Good, SettledInv
<1> QED BY <1>1, <1>2, <1>3, <1>4, SideStore DEF From

\* A request on the wrapper's connection: the rows of a statement are staged while
\* the block goes on, and are durable when it is over.
LEMMA WrapperStore ==
    ASSUME NEW t \in Tasks, Steady, Good, Known', Alone(t), Using(t),
           NEW s \in States, Becomes(wconn[t], s), NEW rows \in SUBSET Rows,
           \A row \in rows : row.via = t,
           IF db[wconn[t]].status = "none"
             THEN /\ s.rows = {} /\ s.status = "none"
                  /\ s.durable = durable \cup rows
             ELSE /\ s.rows = db[wconn[t]].rows \cup rows /\ s.status # "none"
                  /\ s.durable = durable,
           pc'[t] # "releasing",
           block'[t] = block[t], final'[t] = final[t], wconn'[t] = wconn[t], ctx'[t] = ctx[t],
           block[t] \in {"open", "failed"}
    PROVE  SettledInv' /\ Store!Next
<1> DEFINE c == wconn[t]
<1>1. /\ db'[c].status = s.status /\ db'[c].rows = s.rows /\ durable' = s.durable
      /\ \A d \in Conns \ {c} : db'[d] = db[d]
  BY BecomesFields DEF Good, Known, TInv, Using
<1>2. c \in Conns /\ user[c] = t /\ pc[t] # "releasing"
  BY UsingOwns, SteadyIsAtomic DEF Using, Good, Known
<1>3. Stepping(t)
  BY <1>1, <1>2 DEF Stepping, Only
<1>4. (Over(t)' <=> Over(t)) /\ Using(t)'
  BY <1>2 DEF Over, Using
<1>5. Settled(t)'
  <2>1. Settled(t)
    BY DEF Good, SettledInv
  <2> QED BY <1>1, <1>2, <2>1 DEF Settled
<1>6. Early(t, Pending) = db[c].rows /\ Early(t, Pending)' = s.rows
  BY <1>1, <1>4, StagedIs, StagedAfter, SteadyIsAtomic DEF Stepping, Good
<1>7. /\ Over(t) <=> final[t] # "open" \/ block[t] = "failed"
      /\ Over(t) => db[c].status = "none"
      /\ db[c].status = "none" => db[c].rows = {}
  BY OverIsEmpty, SteadyIsAtomic
<1>8. CASE db[c].status = "none"
  <2>1. Over(t)
    BY <1>7, <1>8 DEF Good, Known, DataInv, Fate
  <2> QED BY <1>1, <1>3, <1>4, <1>5, <1>6, <1>7, <1>8, <2>1, SteppingBeside, StoreAutoCommits
<1>9. CASE db[c].status # "none"
  BY <1>1, <1>3, <1>4, <1>5, <1>6, <1>7, <1>9, SteppingBeside, StoreWrites
<1> QED BY <1>8, <1>9

\* The end of a block, by hand or not: its rows are all durable, or none is.
LEMMA EndStore ==
    ASSUME NEW t \in Tasks, Steady, Good, Known', Alone(t), Using(t),
           NEW s \in States, Becomes(wconn[t], s), Over(t)',
           s.status = "none", s.rows = {},
           s.durable = durable \/ s.durable = durable \cup db[wconn[t]].rows,
           wconn'[t] = wconn[t], Over(t) => s.durable = durable
    PROVE  SettledInv' /\ Store!Next
<1> DEFINE c == wconn[t]
<1>1. /\ db'[c].status = s.status /\ db'[c].rows = s.rows /\ durable' = s.durable
      /\ \A d \in Conns \ {c} : db'[d] = db[d]
  BY BecomesFields DEF Good, Known, TInv, Using
<1>2. c \in Conns /\ user[c] = t
  BY UsingOwns, SteadyIsAtomic DEF Using, Good, Known
<1>3. Stepping(t)
  BY <1>1, <1>2 DEF Stepping, Only
<1>4. Settled(t)'
  BY <1>1 DEF Settled
<1>5. Early(t, Pending) = db[c].rows /\ Early(t, Pending)' = {}
  BY <1>1, StagedIs, StagedAfter, SteadyIsAtomic DEF Stepping, Good
<1>6. Over(t) => Early(t, Pending) = {}
  BY <1>5, OverIsEmpty, SteadyIsAtomic
<1>7. CASE Over(t)
  BY <1>1, <1>3, <1>4, <1>5, <1>6, <1>7, SteppingBeside, StoreAutoCommits
<1>8. CASE ~Over(t) /\ s.durable = durable
  BY <1>1, <1>3, <1>4, <1>5, <1>8, SteppingBeside, StoreRollsBack
<1>9. CASE ~Over(t) /\ s.durable = durable \cup db[c].rows
  BY <1>1, <1>3, <1>4, <1>5, <1>9, SteppingBeside, StoreCommits
<1> QED BY <1>7, <1>8, <1>9

LEMMA EnterStore ==
    ASSUME NEW t \in Tasks, Steady, Good, Known', Enter(t)
    PROVE  SettledInv' /\ Store!Next
<1> USE PooledAssumption, NoConnIsNone, SteadyIsAtomic
        DEF Good, Known, TInv, ControlTypes, TaskTypes, Goto
<1>0. Alone(t) /\ Shape(t) /\ Stage(t)
  BY EnterAlone DEF OInv, StageInv
<1>1. CASE EnterBlock(t)
  <2>1. /\ block[t] = "none" /\ block'[t] = "entering" /\ pc[t] = "run" /\ wconn[t] = NoConn
        /\ pc'[t] # "releasing" /\ UNCHANGED <<final, wconn, dbVars>>
    BY <1>0, <1>1 DEF EnterBlock, AcquireFor, Shape
  <2>2. ~Using(t) /\ ~Using(t)' /\ ~Over(t) /\ ~Over(t)'
    BY <1>0, <2>1 DEF Using, Over, Stage
  <2>3. Stepping(t) /\ Settled(t)'
    BY <1>0, <2>1, <2>2 DEF Stepping, Only, Settled, dbVars
  <2> QED BY <2>1, <2>2, <2>3, SideStore DEF dbVars
<1>2. CASE PoolMade(t)
  BY <1>2 DEF PoolMade, HomeInv
<1>3. CASE TakeConn(t)
  <2>1. PICK c \in Conns : user[c] = NoTask /\ wconn' = [wconn EXCEPT ![t] = c]
    BY <1>3 DEF TakeConn, Free
  <2>2. /\ pc[t] = "acquiring" /\ pc'[t] = "starting" /\ block[t] = "entering"
        /\ final[t] = "open" /\ wconn[t] = NoConn /\ UNCHANGED <<block, final, dbVars>>
    BY <1>0, <1>3 DEF TakeConn, Stage, Entering
  <2>3. ~Using(t) /\ ~Over(t) /\ ~Over(t)'
    BY <2>2 DEF Using, Over
  <2>4. db[c].status = "none" /\ db[c].rows = {}
    BY <2>1 DEF DataInv, ConnClean
  <2>5. Stepping(t) /\ Settled(t)'
    BY <1>0, <2>1, <2>2, <2>4 DEF Stepping, Only, Settled, dbVars
  <2>6. Early(t, Pending) = {} /\ Early(t, Pending)' = {}
    BY <2>1, <2>2, <2>3, <2>4, StagedIs, StagedAfter DEF dbVars
  <2> QED BY <2>2, <2>3, <2>5, <2>6, SteppingBeside, StoreAutoCommits DEF dbVars
<1>4. CASE Started(t)
  <2> DEFINE z == State(wconn[t])
             s == StartedTx(z)
  <2>1. /\ pc[t] = "starting" /\ block[t] = "entering" /\ final[t] = "open"
        /\ pc'[t] = "run" /\ block'[t] = "open" /\ Becomes(wconn[t], s)
        /\ UNCHANGED <<ctx, final, wconn, user>>
    BY <1>0, <1>4 DEF Started, Stage, Entering
  <2>2. Using(t)
    BY <1>0, <2>1 DEF Using, Shape, Stage, Placed, OnWrapper
  <2>3. /\ z \in States /\ z.rows = db[wconn[t]].rows /\ z.durable = durable
        /\ wconn[t] \in Conns
    BY <2>2, StateType, StateFields DEF Using
  <2> HIDE DEF z
  <2>4. s \in States /\ s.rows = z.rows /\ s.durable = z.durable
    BY <2>3, StatesClosed, MarkFields
  <2> HIDE DEF s
  <2>5. /\ db'[wconn[t]].rows = db[wconn[t]].rows /\ durable' = durable
        /\ \A d \in Conns \ {wconn[t]} : db'[d] = db[d]
    BY <2>1, <2>3, <2>4, BecomesFields DEF s, z
  <2>6. user[wconn[t]] = t
    BY <2>2, UsingOwns
  <2>7. Stepping(t) /\ Settled(t)' /\ Using(t)' /\ ~Over(t) /\ ~Over(t)'
    BY <1>0, <2>1, <2>2, <2>5, <2>6 DEF Stepping, Only, Settled, Using, Over
  <2> QED BY <2>1, <2>2, <2>5, <2>7, SideStore
<1>5. CASE EnterNested(t) \/ NestLocked(t)
  BY <1>0, <1>5, QuietStore DEF EnterNested, NestLocked
<1> QED BY <1>1, <1>2, <1>3, <1>4, <1>5 DEF Enter

\* The call of a statement on the client ends.
LEMMA ClientEndStore ==
    ASSUME NEW t \in Tasks, Steady, Good, Known', Alone(t), pc[t] \in Sending,
           call[t].on = Client, NEW s \in States, From(s, cconn[t], Client), EndCall(t, s),
           UNCHANGED <<block, final, wconn, ctx>>
    PROVE  SettledInv' /\ Store!Next
<1> USE SteadyIsAtomic DEF Good
<1>1. PICK c \in Conns :
          /\ c = cconn[t] /\ ConnOf(t) = c /\ user[c] = t
          /\ Using(t) => wconn[t] # c
          /\ \A row \in db[c].rows : row.via = Client
  BY ClientConn
<1>2. Becomes(c, Returned(s)) /\ pc'[t] = "run"
  BY <1>1 DEF EndCall, Goto, Known, TInv, ControlTypes, TaskTypes
<1>3. From(s, c, Client)
  BY <1>1
<1>4. Returned(s) \in States /\ From(Returned(s), c, Client)
  BY <1>3, StatesClosed, FromKept
<1> DEFINE r == Returned(s)
<1>5. r \in States /\ From(r, c, Client) /\ Becomes(c, r)
  BY <1>2, <1>4
<1> HIDE DEF r
<1>6. pc[t] # "releasing"
  BY DEF Sending
<1> QED BY <1>1, <1>2, <1>5, <1>6, ClientStore

LEMMA SentStore ==
    ASSUME NEW t \in Tasks, Steady, Good, Known', Alone(t), pc[t] \in Sending,
           UNCHANGED <<block, final, wconn, ctx>>,
           NEW s \in {State(ConnOf(t)), Aborted(State(ConnOf(t))), Sent(t)}, EndCall(t, s)
    PROVE  SettledInv' /\ Store!Next
<1> USE SteadyIsAtomic DEF Good
<1> DEFINE z == State(ConnOf(t))
<1>1. PICK rows \in SUBSET Rows :
              /\ rows \subseteq RowsOf(t, {0, 1, 2})
              /\ Sent(t) = Wrote(z, rows)
              /\ ConnOf(t) \in Conns /\ z \in States /\ From(z, ConnOf(t), call[t].on)
              /\ \A r \in {z, Aborted(z), Sent(t)} :
                    r \in States /\ From(r, ConnOf(t), call[t].on)
  BY SentFrom
<1> HIDE DEF z
<1>2. s \in States /\ From(s, ConnOf(t), call[t].on) /\ s \in {z, Aborted(z), Wrote(z, rows)}
  BY <1>1 DEF z
<1>3. CASE call[t].on = Client
  <2>1. ConnOf(t) = cconn[t]
    BY <1>3 DEF ConnOf
  <2> QED BY <1>2, <1>3, <2>1, ClientEndStore
<1>4. CASE call[t].on # Client
  <2>1. /\ Using(t) /\ ConnOf(t) = wconn[t] /\ call[t].on = t
        /\ block[t] \in {"open", "failed"}
    BY <1>4, WrapperConn
  <2>2. Becomes(wconn[t], s) /\ pc'[t] # "releasing"
    BY <1>4, <2>1 DEF EndCall, Goto, Known, TInv, ControlTypes, TaskTypes
  <2>3. /\ z.status = db[wconn[t]].status /\ z.rows = db[wconn[t]].rows
        /\ z.durable = durable /\ z.auto /\ (z.status = "none" => z.rows = {})
    BY <1>1, <2>1, StateFields DEF z, From
  <2>4. \A row \in rows : row.via = t
    BY <1>1, <2>1, RowsOfFields
  <2>5. CASE s = Wrote(z, rows)
    <3>1. IF z.status = "none"
            THEN s.rows = z.rows /\ s.status = "none" /\ s.durable = z.durable \cup rows
            ELSE s.rows = z.rows \cup rows /\ s.status # "none" /\ s.durable = z.durable
      BY <1>1, <2>3, <2>5, WroteFields
    <3> QED BY <1>2, <2>1, <2>2, <2>3, <2>4, <3>1, WrapperStore
  <2>6. CASE s \in {z, Aborted(z)}
    <3>1. s.rows = z.rows /\ s.durable = z.durable /\ (s.status = "none" <=> z.status = "none")
      BY <1>1, <2>3, <2>6, MarkFields DEF Aborted, States
    <3> DEFINE none == {}
    <3>2. /\ none \in SUBSET Rows /\ \A row \in none : row.via = t
          /\ s.rows \cup none = s.rows /\ s.durable \cup none = s.durable
      BY <1>2 DEF States
    <3>3. IF db[wconn[t]].status = "none"
            THEN /\ s.rows = {} /\ s.status = "none"
                 /\ s.durable = durable \cup none
            ELSE /\ s.rows = db[wconn[t]].rows \cup none /\ s.status # "none"
                 /\ s.durable = durable
      BY <2>3, <3>1, <3>2
    <3> HIDE DEF none
    <3> QED BY <1>2, <2>1, <2>2, <3>2, <3>3, WrapperStore
  <2> QED BY <1>2, <2>5, <2>6
<1> QED BY <1>3, <1>4

LEMMA StatementStore ==
    ASSUME NEW t \in Tasks, Steady, Good, Known', Statement(t)
    PROVE  SettledInv' /\ Store!Next
<1> USE PooledAssumption, SteadyIsAtomic DEF Good, Known, TInv, ControlTypes, TaskTypes, Goto
<1>0. Alone(t)
  BY StatementAlone
<1>1. CASE Call(t)
  <2>1. /\ pc[t] = "run" /\ pc'[t] # "releasing"
        /\ UNCHANGED <<ctx, block, final, wconn, dbVars>>
    BY <1>1 DEF Call
  <2> QED BY <1>0, <2>1, QuietStore
<1>2. CASE CallTakeConn(t)
  <2>1. PICK c \in Conns :
          /\ user[c] = NoTask
          /\ \/ pc' = [pc EXCEPT ![t] = "bulkrows"] /\ Becomes(c, [State(c) EXCEPT !.status = "open"])
             \/ pc' = [pc EXCEPT ![t] = "stmt"] /\ UNCHANGED dbVars
    BY <1>2 DEF CallTakeConn, Free
  <2>2. pc[t] = "callacquiring" /\ UNCHANGED <<ctx, block, final, wconn>>
    BY <1>2 DEF CallTakeConn
  <2>3. CASE UNCHANGED dbVars
    BY <1>0, <2>1, <2>2, <2>3, QuietStore
  <2>4. CASE Becomes(c, [State(c) EXCEPT !.status = "open"])
    <3> DEFINE z == State(c)
               s == [z EXCEPT !.status = "open"]
    <3>1. z \in States /\ From(z, c, Client) /\ db[c].rows = {}
      BY <2>1, StateType, FromState DEF DataInv, ConnClean
    <3>2. s \in States
      BY <3>1 DEF States, Statuses
    <3> HIDE DEF z
    <3>3. From(s, c, Client)
      BY <3>1, FromKept
    <3> HIDE DEF s
    <3>4. Becomes(c, s)
      BY <2>4 DEF s, z
    <3>5. Using(t) => wconn[t] # c
      BY <2>1, UsingOwns
    <3>6. pc'[t] # "releasing"
      BY <2>1
    <3> QED BY <1>0, <2>1, <2>2, <3>1, <3>2, <3>3, <3>4, <3>5, <3>6, ClientStore
  <2> QED BY <2>1, <2>3, <2>4
<1>3. CASE StmtDone(t)
  BY <1>0, <1>3, SentStore DEF StmtDone, Sending
<1>4. CASE StmtFails(t)
  <2>1. pc[t] \in Sending /\ UNCHANGED <<block, final, wconn, ctx>>
    BY <1>4 DEF StmtFails, Sending
  <2>2. PICK s \in {State(ConnOf(t)), Aborted(State(ConnOf(t)))} : EndCall(t, s)
    BY <1>4 DEF StmtFails, AfterFailure, Atomic
  <2> QED BY <1>0, <2>1, <2>2, SentStore
<1>5. CASE BulkInserted(t) \/ BulkFailed(t)
  <2>1. /\ pc[t] \in Sending /\ call[t].on = Client
        /\ pc[t] # "releasing" /\ pc'[t] # "releasing"
        /\ UNCHANGED <<block, final, wconn, ctx>>
    BY <1>5 DEF BulkInserted, BulkFailed, Placed, Sending
  <2>2. PICK c \in Conns :
          /\ c = cconn[t] /\ user[c] = t /\ (Using(t) => wconn[t] # c)
          /\ \A row \in db[c].rows : row.via = Client
    BY <2>1, ClientConn
  <2>3. PICK s \in States : From(s, c, Client) /\ Becomes(c, s)
    BY <1>5, <2>2, BulkFrom
  <2> QED BY <1>0, <2>1, <2>2, <2>3, ClientStore
<1>6. CASE BulkEnded(t)
  <2>1. /\ pc[t] \in Sending /\ call[t].on = Client
        /\ UNCHANGED <<block, final, wconn, ctx>>
    BY <1>6 DEF BulkEnded, Sending, Placed
  <2> DEFINE z == State(cconn[t])
  <2>2. z \in States /\ From(z, cconn[t], Client)
    BY <2>1, ClientConn, StateType, FromState
  <2>3. PICK s \in {Committed(z), RolledBack(z)} : EndCall(t, s)
    BY <1>6 DEF BulkEnded
  <2> HIDE DEF z
  <2>4. /\ Committed(z) \in States /\ From(Committed(z), cconn[t], Client)
        /\ RolledBack(z) \in States /\ From(RolledBack(z), cconn[t], Client)
    BY <2>2, FromKept, StatesClosed
  <2>5. s \in States /\ From(s, cconn[t], Client)
    BY <2>3, <2>4
  <2> QED BY <1>0, <2>1, <2>3, <2>5, ClientEndStore
<1> QED BY <1>1, <1>2, <1>3, <1>4, <1>5, <1>6 DEF Statement

LEMMA UserStore ==
    ASSUME NEW t \in Tasks, Steady, Good, Known', User(t)
    PROVE  SettledInv' /\ Store!Next
<1>1. /\ pc[t] = "run" /\ pc'[t] # "releasing"
      /\ UNCHANGED <<ctx, block, final, wconn, dbVars>>
  BY DEF User, Throw, Catch, Finish, InFrame, Goto, Good, Known, TInv, ControlTypes, TaskTypes
<1>2. Alone(t)
  BY StepAlone DEF Step, Good, Known
<1> QED BY <1>1, <1>2, QuietStore

\* The connection of a wrapper goes back to the pool it came from.
LEMMA GivenBack ==
    ASSUME NEW t \in Tasks, Steady, Good, Known', Alone(t), Using(t), OuterFrame(t),
           NEW s \in States, s.status = "none", GiveBack(t, s), wconn'[t] = wconn[t],
           s.rows = {}, s.durable = durable \/ s.durable = durable \cup db[wconn[t]].rows,
           Over(t) => s.durable = durable
    PROVE  SettledInv' /\ Store!Next
<1>1. Home(wconn[t]) = pool
  BY DEF Using, Good, HomeInv
<1>2. Returned(s) = s
  BY EndFields
<1>3. Becomes(wconn[t], s) /\ pc'[t] = "releasing"
  BY <1>1, <1>2 DEF GiveBack, Goto, Good, Known, TInv, ControlTypes, TaskTypes
<1> QED BY <1>3, EndStore DEF Over

\* Without psycopg, autocommit is on in a transaction as well.
LEMMA TxSame ==
    ASSUME Atomic, NEW c, NEW v, NEW s \in States, From(s, c, v)
    PROVE  CommittedTx(s) = Committed(s) /\ RolledBackTx(s) = RolledBack(s)
BY FromKept

LEMMA ExitStore ==
    ASSUME NEW t \in Tasks, Steady, Good, Known', Exit(t)
    PROVE  SettledInv' /\ Store!Next
<1> USE PooledAssumption, SteadyIsAtomic DEF Good, Known, TInv, ControlTypes, TaskTypes, Goto
<1> DEFINE z == State(wconn[t])
<1>0. Alone(t) /\ Stage(t) /\ Shape(t) /\ Fate(t)
  BY ExitAlone DEF StageInv, OInv, DataInv
<1>1. Using(t) => /\ z \in States /\ z.rows = db[wconn[t]].rows /\ z.durable = durable
                  /\ z.status = db[wconn[t]].status /\ From(z, wconn[t], t)
  BY StateType, StateFields, FromState DEF Using
<1> HIDE DEF z
<1>2. CASE ExitNested(t) \/ ExitBlock(t) \/ UserFinish(t)
  <2>1. /\ pc[t] = "run" /\ pc'[t] # "releasing"
        /\ UNCHANGED <<ctx, block, final, wconn, dbVars>>
    BY <1>2 DEF ExitNested, ExitBlock, UserFinish, InFrame, Manual
  <2> QED BY <1>0, <2>1, QuietStore
\* What the end of the transaction leaves
<1>3. ASSUME Using(t), NEW s \in {Committed(z), RolledBack(z), Returned(z)}
      PROVE  /\ s \in States /\ s.status = "none" /\ s.rows = {}
             /\ s.durable = durable \/ s.durable = durable \cup db[wconn[t]].rows
             /\ Over(t) => s.durable = durable
  <2>1. ConnClean(wconn[t]) /\ (Over(t) => db[wconn[t]].rows = {})
    BY <1>3, OverIsEmpty DEF DataInv, Using
  <2>2. s \in States
    BY <1>1, <1>3, StatesClosed
  <2>3. /\ z.status = "none" => z.rows = {}
        /\ Over(t) => z.rows = {}
    BY <1>1, <1>3, <2>1 DEF ConnClean
  <2>4. /\ s.status = "none"
        /\ s = z \/ s.rows = {}
        /\ s.durable = z.durable \/ s.durable = z.durable \cup z.rows
    BY <1>1, <1>3, EndFields
  <2> QED BY <1>1, <1>3, <2>2, <2>3, <2>4
<1>4. CASE ExitAsIs(t)
  <2>1. /\ pc[t] = "run" /\ OuterFrame(t) /\ GiveBack(t, z)
        /\ UNCHANGED <<ctx, wconn, final>> /\ block[t] = "open"
    BY <1>4 DEF ExitAsIs, InFrame, OuterFrame, z
  <2>2. Using(t)
    BY <1>0, <2>1 DEF Using, Shape, OuterFrame, Placed
  <2>3. Home(wconn[t]) = pool
    BY <2>2 DEF Using, HomeInv
  <2> DEFINE s == Returned(z)
  <2>4. Becomes(wconn[t], s) /\ pc'[t] = "releasing"
    BY <2>1, <2>3 DEF GiveBack
  <2>5. /\ s \in States /\ s.status = "none" /\ s.rows = {}
        /\ s.durable = durable \/ s.durable = durable \cup db[wconn[t]].rows
        /\ Over(t) => s.durable = durable
    BY <1>3, <2>2
  <2> HIDE DEF s
  <2> QED BY <1>0, <2>1, <2>2, <2>4, <2>5, EndStore DEF Over
<1>5. CASE ExitDone(t)
  <2>1. Using(t) /\ final[t] = "open"
    BY <1>0, <1>5, WrapperConn DEF ExitDone, Stage
  <2>2. CommittedTx(z) = Committed(z) /\ RolledBackTx(z) = RolledBack(z)
    BY <1>1, <2>1, TxSame
  <2>3. PICK s \in {Committed(z), RolledBack(z)} :
          /\ final'[t] # "open" /\ wconn' = wconn
          /\ (OuterFrame(t) /\ GiveBack(t, s)) \/ Becomes(wconn[t], s)
    BY <1>5, <2>1, <2>2 DEF ExitDone, Finalise, z
  <2>4. /\ s \in States /\ s.status = "none" /\ s.rows = {}
        /\ s.durable = durable \/ s.durable = durable \cup db[wconn[t]].rows
        /\ Over(t) => s.durable = durable
    BY <1>3, <2>1, <2>3
  <2> QED BY <1>0, <2>1, <2>3, <2>4, GivenBack, EndStore DEF Over
<1>6. CASE UserFinishDone(t)
  <2>1. Using(t) /\ final[t] = "open"
    BY <1>0, <1>6, WrapperConn DEF UserFinishDone, Stage, Manual
  <2>2. CommittedTx(z) = Committed(z) /\ RolledBackTx(z) = RolledBack(z)
    BY <1>1, <2>1, TxSame
  <2>3. PICK s \in {Committed(z), RolledBack(z)} :
          final'[t] # "open" /\ wconn' = wconn /\ Becomes(wconn[t], s)
    BY <1>6, <2>1, <2>2 DEF UserFinishDone, Finalise, z
  <2>4. /\ s \in States /\ s.status = "none" /\ s.rows = {}
        /\ s.durable = durable \/ s.durable = durable \cup db[wconn[t]].rows
        /\ Over(t) => s.durable = durable
    BY <1>3, <2>1, <2>3
  <2> QED BY <1>0, <2>1, <2>3, <2>4, EndStore DEF Over
<1>7. CASE Released(t)
  <2>1. /\ pc[t] = "releasing" /\ ctx'[t] = Client /\ block'[t] \in {"ok", "error"}
        /\ UNCHANGED <<final, wconn, dbVars>>
    BY <1>7 DEF Released
  <2>2. ~Using(t) /\ ~Using(t)' /\ Over(t) /\ Over(t)'
    BY <2>1 DEF Using, Over
  <2>3. Stepping(t) /\ Settled(t)'
    BY <1>0, <2>1, <2>2 DEF Stepping, Only, Settled, dbVars
  <2> QED BY <2>1, <2>2, <2>3, SideStore DEF dbVars
<1> QED BY <1>2, <1>4, <1>5, <1>6, <1>7 DEF Exit

LEMMA FaultStore ==
    ASSUME NEW t \in Tasks, Steady, Good, Known', Fault(t)
    PROVE  SettledInv' /\ Store!Next
<1> USE PooledAssumption, NoConnIsNone, SteadyIsAtomic
        DEF Good, Known, TInv, ControlTypes, TaskTypes
<1>0. Alone(t) /\ Stage(t) /\ Shape(t) /\ Fate(t)
  BY FaultAlone DEF StageInv, OInv, DataInv
<1>1. pc[t] = "starting" /\ Abort(t, "err") /\ UNCHANGED dbVars
  BY AtomicIsSound DEF Fault, PoolFails, StartFails, FinishFails, Cancel, HomeInv, Steady, Atomic
<1>2. /\ pc'[t] = "run" /\ block'[t] = "failed" /\ block[t] = "entering"
      /\ final[t] = "open" /\ UNCHANGED <<ctx, final, wconn, dbVars>>
  BY <1>0, <1>1 DEF Abort, Goto, Stage, Entering
<1>3. Using(t) /\ Using(t)'
  BY <1>0, <1>1, <1>2 DEF Using, Shape, Stage, Placed, OnWrapper
<1>4. db[wconn[t]].status = "none" /\ db[wconn[t]].rows = {} /\ ~Over(t) /\ Over(t)'
  BY <1>1, <1>2, <1>3 DEF SettledInv, Settled, DataInv, ConnClean, Using, Over
<1>5. Stepping(t) /\ Settled(t)'
  BY <1>0, <1>2, <1>4 DEF Stepping, Only, Settled, dbVars
<1>6. Early(t, Pending)' = {}
  BY <1>2, <1>4, StagedAfter DEF dbVars
<1> QED BY <1>2, <1>4, <1>5, <1>6, SteppingBeside, StoreRollsBack DEF dbVars

-----------------------------------------------------------------------------
(* The refinement *)

LEMMA NextStore ==
    ASSUME Steady, Good, Known', [Next]_vars
    PROVE  Good' /\ [Store!Next]_StoreVars
<1>1. CASE UNCHANGED vars
  <2>1. Good'
    BY <1>1 DEF vars, dbVars, poolVars, Good, HomeInv, SettledInv, Settled, Using
  <2>2. UNCHANGED StoreVars
    BY <1>1 DEF vars, dbVars, StoreVars, Early, Pending, Over
  <2> QED BY <2>1, <2>2
<1>2. ASSUME NEW t \in Tasks, Step(t)
      PROVE  Good' /\ [Store!Next]_StoreVars
  <2>1. HomeInv'
    BY <1>2, HomeStep DEF Good, Known
  <2>2. SettledInv' /\ Store!Next
    BY <1>2, EnterStore, StatementStore, ExitStore, UserStore, FaultStore DEF Step
  <2> QED BY <2>1, <2>2 DEF Good
<1> QED BY <1>1, <1>2 DEF Next, Terminating, Step

LEMMA InitStore ==
    ASSUME ~Cold, Init
    PROVE  HomeInv /\ SettledInv /\ Store!Init
<1>1. HomeInv
  BY FirstPoolIsOne, NoConnIsNone DEF Init, HomeInv
<1>2. SettledInv
  BY DEF Init, SettledInv, Settled
<1>3. Pending = {}
  BY DEF Init, Pending
<1>4. Store!Init
  BY <1>3 DEF Init, Store!Init, Early, Over
<1> QED BY <1>1, <1>2, <1>4

\* The client is a store of blocks that run side by side: a block's rows are staged
\* where no other block's step moves them, and its end makes all of them durable or
\* none.
THEOREM RefinesStore ==
    ASSUME Steady
    PROVE  Spec => StoreSpec
<1>1. Known /\ Known' /\ Good /\ [Next]_vars => Good' /\ [Store!Next]_StoreVars
  BY NextStore
<1>2. Init /\ Known => Good /\ Store!Init
  BY InitStore DEF Good, Steady
<1>3. Spec => []Known
  BY DataInvariant, SteadyIsAtomic
<1> QED BY <1>1, <1>2, <1>3, PTL DEF Spec, StoreSpec, Store!Spec, StoreVars
=============================================================================
