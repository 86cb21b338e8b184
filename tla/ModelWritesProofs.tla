-------------------------- MODULE ModelWritesProofs --------------------------
(***************************************************************************)
(* Proofs about ModelWrites, for every set of tasks and both kinds of      *)
(* database: the type invariant, that concurrent calls of get_or_create    *)
(* and update_or_create create one row and agree on it, that an error in a *)
(* block leaves nothing, and that no update under the lock is lost.        *)
(***************************************************************************)
EXTENDS ModelWrites, TLAPS

-----------------------------------------------------------------------------
(* The inductive invariant *)

\* Transactions that exclude each other, where the database serialises them.
Alone == Serialised => \A t, u \in tx : t = u

\* An inserted row waits for its commit alone, while there is no committed one.
InsertInv ==
    \A t \in Tasks : pc[t] = "inserted" =>
        /\ row = NoRow
        /\ draft[t] = inst[t] /\ draft[t] # NoRow
        /\ \A u \in Tasks : pc[u] = "inserted" => u = t

\* A row that update_or_create has selected is locked, and stays.
SelectInv ==
    \A t \in Tasks :
        /\ pc[t] \in {"selected", "updated"} =>
              Matches(inst[t]) /\ (Serialised \/ holder = t)
        /\ pc[t] = "updated" => draft[t] = inst[t] /\ draft[t] # NoRow

\* A result is there when the call is over; save() and delete() have an instance.
CallInv ==
    \A t \in Tasks :
        /\ pc[t] # "done" => result[t] = [is |-> "none", row |-> NoRow]
        /\ pc[t] \in {"save", "delete"} => op[t] = pc[t] /\ inst[t] # NoRow

BlockInv == TypeOK /\ Alone /\ InsertInv /\ SelectInv /\ CallInv

\* Unless a row was deleted, whoever has met the row meets it still.
MetInv ==
    \A t \in Tasks :
        /\ pc[t] \in {"save", "delete"} => Deleted \/ Matches(inst[t])
        /\ pc[t] \in {"conflict", "reget"} => Deleted \/ row # NoRow
        /\ result[t].is \in Returned => Deleted \/ Matches(result[t].row)

IInv == BlockInv /\ MetInv /\ CreatedOnce /\ RaceResolved

-----------------------------------------------------------------------------
(* Types *)

\* The values that rows and results are made of.
LEMMA NoRowIsRow == NoRow \in Rows
  BY DEF NoRow, Rows

\* A fresh identifier and its writer make a row that is not NoRow.
LEMMA NewRow ==
  ASSUME NEW t \in Tasks, NEW n \in Nat
  PROVE  [id |-> n, wrote |-> {t}] \in Rows \ {NoRow}
  BY DEF NoRow, Rows

\* Writing to a row leaves a row, with the same identifier.
LEMMA SetRow ==
  ASSUME NEW t \in Tasks, NEW r \in Rows
  PROVE  Set(t, r) \in Rows \ {NoRow} /\ Set(t, r).id = r.id
  BY DEF Set, Rows, NoRow

\* Every way a call ends, with any row, is a result.
LEMMA ResultTypes ==
  \A is \in Returned \cup Raised, r \in Rows : [is |-> is, row |-> r] \in Results
  BY DEF Results

\* The types hold before any call.
LEMMA TypeInit == Init => TypeOK
  BY ModelWritesAssumption DEF Init, TypeOK, PCs, InBlock, Searching, Creating,
     Rows, NoRow, Results, AllOps

\* Each step keeps the types, and the transactions belong to the open blocks.
LEMMA TypeStep == TypeOK /\ [Next]_vars => TypeOK'
<1> SUFFICES ASSUME TypeOK, [Next]_vars PROVE TypeOK'
  OBVIOUS
<1> USE NoRowIsRow, NewRow, SetRow, ResultTypes
    DEF TypeOK, PCs, InBlock, Searching, Creating, Goto, Return, dbVars,
        Returned, Raised
<1>1. ASSUME NEW t \in Tasks, Start(t) PROVE TypeOK'
  <2>1. PICK o \in Ops :
           /\ op' = [op EXCEPT ![t] = o]
           /\ pc' = [pc EXCEPT ![t] = IF o = "update_or_create" THEN "search" ELSE "get"]
    BY <1>1 DEF Start
  <2>2. tx' = {u \in Tasks : pc'[u] \in InBlock}
    BY <1>1, <2>1 DEF Start
  <2> QED
    BY <1>1, <2>1, <2>2, ModelWritesAssumption DEF Start
<1>2. ASSUME NEW t \in Tasks, Get(t) PROVE TypeOK'
  BY <1>2 DEF Get
<1>3. ASSUME NEW t \in Tasks, Enter(t) PROVE TypeOK'
  BY <1>3 DEF Enter
<1>4. ASSUME NEW t \in Tasks, Insert(t) PROVE TypeOK'
  BY <1>4 DEF Insert
<1>5. ASSUME NEW t \in Tasks, Created(t) PROVE TypeOK'
  BY <1>5 DEF Created, EndBlock
<1>6. ASSUME NEW t \in Tasks, Conflicted(t) PROVE TypeOK'
  BY <1>6 DEF Conflicted, EndBlock
<1>7. ASSUME NEW t \in Tasks, Reget(t) PROVE TypeOK'
  BY <1>7 DEF Reget
<1>8. ASSUME NEW t \in Tasks, Select(t) PROVE TypeOK'
  BY <1>8 DEF Select
<1>9. ASSUME NEW t \in Tasks, Update(t) PROVE TypeOK'
  BY <1>9 DEF Update
<1>10. ASSUME NEW t \in Tasks, Updated(t) PROVE TypeOK'
  BY <1>10 DEF Updated, EndBlock
<1>11. ASSUME NEW t \in Tasks, Unmatched(t) PROVE TypeOK'
  BY <1>11 DEF Unmatched, EndBlock
<1>12. ASSUME NEW t \in Tasks, Save(t) PROVE TypeOK'
  BY <1>12 DEF Save
<1>13. ASSUME NEW t \in Tasks, Delete(t) PROVE TypeOK'
  BY <1>13 DEF Delete
<1>14. ASSUME NEW t \in Tasks, ListenerFails(t) PROVE TypeOK'
  BY <1>14 DEF ListenerFails
<1>15. ASSUME NEW t \in Tasks, Fail(t) PROVE TypeOK'
  BY <1>15 DEF Fail
<1>16. ASSUME NEW t \in Tasks, Failed(t) PROVE TypeOK'
  BY <1>16 DEF Failed, EndBlock
<1>17. CASE UNCHANGED vars
  BY <1>17 DEF vars
<1> QED
  BY <1>1, <1>2, <1>3, <1>4, <1>5, <1>6, <1>7, <1>8, <1>9, <1>10, <1>11, <1>12,
     <1>13, <1>14, <1>15, <1>16, <1>17 DEF Next, Step, Progress, Terminating

\* The type invariant: what is locked or drafted belongs to an open block of
\* in_transaction, whatever fails.
THEOREM WritesTypeCorrect == Spec => []TypeOK
  BY TypeInit, TypeStep, PTL DEF Spec

-----------------------------------------------------------------------------
(* Blocks *)

\* No block is open before any call.
LEMMA BlockInit == Init => BlockInv
<1> SUFFICES ASSUME Init PROVE BlockInv
  OBVIOUS
<1>1. TypeOK
  BY TypeInit
<1>2. Alone /\ InsertInv /\ SelectInv /\ CallInv
  BY DEF Init, Alone, InsertInv, SelectInv, CallInv
<1> QED
  BY <1>1, <1>2 DEF BlockInv

\* Only a task that no open transaction keeps out begins one.
LEMMA AloneStep == BlockInv /\ [Next]_vars => Alone'
<1> SUFFICES ASSUME BlockInv, [Next]_vars, Serialised, NEW t \in tx', NEW u \in tx'
             PROVE  t = u
  BY DEF Alone
<1>1. tx' \subseteq tx \/ \E v \in Tasks : tx \subseteq {v} /\ tx' = tx \cup {v}
  BY DEF Next, Step, Progress, Terminating, vars, dbVars, Start, Get, Enter, Insert, Created,
     Conflicted, Reget, Select, Update, Updated, Unmatched, Save, Delete,
     ListenerFails, Fail, Failed, EndBlock, Admitted
<1> QED
  BY <1>1 DEF BlockInv, Alone

\* How a step may change the committed row.
LEMMA RowStep ==
  ASSUME BlockInv, [Next]_vars
  PROVE  \/ row' = row
         \/ row = NoRow /\ \E t \in Tasks : Created(t)
         \/ row' # NoRow /\ row # NoRow /\ row'.id = row.id
         \/ row # NoRow /\ row' = NoRow
              /\ \E t \in Tasks : Delete(t) /\ Matches(inst[t])
<1> USE DEF BlockInv, TypeOK
<1>1. ASSUME NEW t \in Tasks, Created(t) PROVE row = NoRow
  BY <1>1 DEF Created, InsertInv
<1>2. ASSUME NEW t \in Tasks, Updated(t)
      PROVE  row' # NoRow /\ row # NoRow /\ row'.id = row.id
  BY <1>2 DEF Updated, SelectInv, Matches
<1>3. ASSUME NEW t \in Tasks, Save(t), row' # row
      PROVE  row' # NoRow /\ row # NoRow /\ row'.id = row.id
  <2>1. Matches(inst[t]) /\ row' = Set(t, inst[t])
    BY <1>3 DEF Save
  <2> QED
    BY <2>1, SetRow DEF Matches
<1>4. ASSUME NEW t \in Tasks, Delete(t), row' # row
      PROVE  row # NoRow /\ row' = NoRow /\ Matches(inst[t])
  BY <1>4 DEF Delete, Matches
<1> QED
  BY <1>1, <1>2, <1>3, <1>4 DEF Next, Step, Progress, Terminating, vars, dbVars, Start, Get,
     Enter, Insert, Conflicted, Reget, Select, Update, Unmatched, ListenerFails,
     Fail, Failed

\* A task that has inserted is alone to have done so, and its draft is its row.
LEMMA InsertStep == BlockInv /\ [Next]_vars => InsertInv'
<1> SUFFICES ASSUME BlockInv, [Next]_vars,
                    NEW t \in Tasks, pc'[t] = "inserted"
             PROVE  /\ row' = NoRow
                    /\ draft'[t] = inst'[t] /\ draft'[t] # NoRow
                    /\ \A u \in Tasks : pc'[u] = "inserted" => u = t
  BY DEF InsertInv
<1> USE DEF BlockInv, TypeOK
<1>1. ASSUME Insert(t)
      PROVE  /\ row' = NoRow
             /\ draft'[t] = inst'[t] /\ draft'[t] # NoRow
             /\ \A u \in Tasks : pc'[u] = "inserted" => u = t
  <2>1. ~InsertWaits(t) /\ row = NoRow /\ row' = row
    BY <1>1 DEF Insert, Goto
  <2>2. draft'[t] = inst'[t] /\ draft'[t] # NoRow
    BY <1>1, <2>1, NewRow DEF Insert
  <2>3. \A u \in Tasks : pc[u] = "inserted" => u = t
    BY <2>1 DEF InsertWaits, InsertInv, Matches
  <2> QED
    BY <1>1, <2>1, <2>2, <2>3 DEF Insert, Goto
<1>2. ASSUME ~Insert(t)
      PROVE  /\ row' = NoRow
             /\ draft'[t] = inst'[t] /\ draft'[t] # NoRow
             /\ \A u \in Tasks : pc'[u] = "inserted" => u = t
  <2>1. pc[t] = "inserted" /\ draft'[t] = draft[t] /\ inst'[t] = inst[t] /\ ~Created(t)
    BY <1>2 DEF Next, Step, Progress, Terminating, vars, dbVars, Goto, Return, EndBlock, Start,
       Get, Enter, Insert, Created, Conflicted, Reget, Select, Update, Updated,
       Unmatched, Save, Delete, ListenerFails, Fail, Failed
  <2>2. ASSUME NEW u \in Tasks, Created(u) PROVE FALSE
    BY <2>1, <2>2 DEF Created, InsertInv
  <2>3. row' = NoRow
    BY <2>1, <2>2, RowStep DEF InsertInv
  <2>4. ASSUME NEW u \in Tasks, Insert(u), pc'[u] = "inserted" PROVE FALSE
    <3>1. u # t /\ ~InsertWaits(u) /\ row = NoRow
      BY <1>2, <2>4 DEF Insert, Goto
    <3> QED
      BY <2>1, <3>1 DEF InsertWaits, InsertInv, Matches
  <2>5. \A u \in Tasks : pc'[u] = "inserted" => pc[u] = "inserted"
    BY <2>4 DEF Next, Step, Progress, Terminating, vars, dbVars, Goto, Return, Start, Get, Enter,
       Insert, Created, Conflicted, Reget, Select, Update, Updated, Unmatched, Save,
       Delete, ListenerFails, Fail, Failed
  <2> QED
    BY <2>1, <2>3, <2>5 DEF InsertInv
<1> QED
  BY <1>1, <1>2

\* Nobody but its transaction touches a row that update_or_create has selected.
LEMMA SelectedAlone ==
  ASSUME BlockInv, NEW t \in Tasks, pc[t] \in {"selected", "updated"},
         NEW u \in Tasks, u # t
  PROVE  /\ pc[u] \in InBlock => ~Serialised
         /\ ~(Admitted(u) /\ Unlocked(u))
<1> USE DEF BlockInv, TypeOK, SelectInv, InBlock, Searching
<1>1. t \in tx
  OBVIOUS
<1>2. pc[u] \in InBlock => ~Serialised
  BY <1>1 DEF Alone
<1>3. ~(Admitted(u) /\ Unlocked(u))
  BY <1>1, ModelWritesAssumption DEF Admitted, Unlocked
<1> QED
  BY <1>2, <1>3

\* A task that has selected or updated still has the row it read, and the lock on it.
LEMMA SelectStep == BlockInv /\ [Next]_vars => SelectInv'
<1> SUFFICES ASSUME BlockInv, [Next]_vars,
                    NEW t \in Tasks, pc'[t] \in {"selected", "updated"}
             PROVE  /\ Matches(inst[t])' /\ (Serialised \/ holder' = t)
                    /\ pc'[t] = "updated" =>
                         draft'[t] = inst'[t] /\ draft'[t] # NoRow
  BY DEF SelectInv
<1> USE DEF BlockInv, TypeOK
<1>1. CASE Select(t)
  BY <1>1 DEF Select, Goto, Matches
<1>2. CASE Update(t)
  <2>1. Matches(inst[t]) /\ (Serialised \/ holder = t)
    BY <1>2 DEF Update, SelectInv
  <2>2. inst'[t] = Set(t, inst[t]) /\ draft'[t] = inst'[t]
    BY <1>2, <2>1 DEF Update
  <2>3. draft'[t] # NoRow /\ inst'[t].id = inst[t].id
    BY <2>2, SetRow
  <2> QED
    BY <1>2, <2>1, <2>2, <2>3 DEF Update, Matches
<1>3. CASE ~Select(t) /\ ~Update(t)
  <2>1. pc[t] = pc'[t] /\ draft'[t] = draft[t] /\ inst'[t] = inst[t]
    BY <1>3 DEF Next, Step, Progress, Terminating, vars, dbVars, Goto, Return, EndBlock, Start,
       Get, Enter, Insert, Created, Conflicted, Reget, Select, Update, Updated,
       Unmatched, Save, Delete, ListenerFails, Fail, Failed
  <2>2. Matches(inst[t]) /\ (Serialised \/ holder = t)
    BY <2>1 DEF SelectInv
  <2>3. ASSUME NEW u \in Tasks, Delete(u), Matches(inst[u]) PROVE FALSE
    BY <2>1, <2>3, SelectedAlone DEF Delete, Goto
  <2>4. Matches(inst[t])'
    BY <2>1, <2>2, <2>3, RowStep DEF Matches
  <2>5. Serialised \/ holder' = t
    BY <2>1, <2>2, SelectedAlone DEF Next, Step, Progress, Terminating, vars, dbVars, Goto,
       Return, EndBlock, Start, Get, Enter, Insert, Created, Conflicted, Reget, Select,
       Update, Updated, Unmatched, Save, Delete, ListenerFails, Fail, Failed, Admitted
  <2> QED
    BY <2>1, <2>4, <2>5 DEF SelectInv
<1> QED
  BY <1>1, <1>2, <1>3

\* A task has no result before its call ends, and saves or deletes what it read.
LEMMA CallStep == BlockInv /\ [Next]_vars => CallInv'
  BY DEF BlockInv, CallInv, TypeOK, Next, Step, Progress, Terminating, vars, dbVars, Goto, Return,
     Start, Get, Enter, Insert, Created, Conflicted, Reget, Select, Update, Updated,
     Unmatched, Save, Delete, ListenerFails, Fail, Failed

\* What the blocks hold is inductive: the four parts together.
LEMMA BlockStep == BlockInv /\ [Next]_vars => BlockInv'
  BY TypeStep, AloneStep, InsertStep, SelectStep, CallStep DEF BlockInv

-----------------------------------------------------------------------------
(* One row, whatever the number of tasks *)

\* A delete() that found its row stays so: its result is final.
LEMMA DeletedStep ==
  ASSUME BlockInv, [Next]_vars, Deleted
  PROVE  Deleted'
<1>1. PICK t \in Tasks : op[t] = "delete" /\ result[t].row # NoRow
  BY DEF Deleted
<1>2. pc[t] = "done"
  BY <1>1 DEF BlockInv, CallInv
<1>3. op'[t] = op[t] /\ result'[t] = result[t]
  BY <1>2 DEF BlockInv, TypeOK, Next, Step, Progress, Terminating, vars, dbVars, Goto, Return,
     Start, Get, Enter, Insert, Created, Conflicted, Reget, Select, Update, Updated,
     Unmatched, Save, Delete, ListenerFails, Fail, Failed
<1> QED
  BY <1>1, <1>3 DEF Deleted

\* A row that is there keeps its primary key until somebody deletes it.
LEMMA RowKept ==
  ASSUME BlockInv, [Next]_vars, row # NoRow
  PROVE  Deleted' \/ (row' # NoRow /\ row'.id = row.id)
<1>1. ASSUME NEW t \in Tasks, Delete(t), Matches(inst[t]) PROVE Deleted'
  <2>1. op'[t] = "delete" /\ inst[t] # NoRow
    BY <1>1 DEF Delete, BlockInv, CallInv
  <2>2. result'[t].row = inst[t]
    BY <1>1 DEF Delete, Return, BlockInv, TypeOK
  <2> QED
    BY <2>1, <2>2 DEF Deleted
<1> QED
  BY <1>1, RowStep

\* A row a task has met is still the table's row, unless it was deleted.
LEMMA MetKept ==
  ASSUME BlockInv, [Next]_vars, NEW r, Deleted \/ Matches(r)
  PROVE  (Deleted \/ Matches(r))'
<1>1. CASE Deleted
  BY <1>1, DeletedStep
<1>2. CASE Matches(r)
  BY <1>2, RowKept DEF Matches
<1> QED
  BY <1>1, <1>2

\* Steps keep what every task has met, saved, lost or returned.
LEMMA MetStep == BlockInv /\ MetInv /\ [Next]_vars => MetInv'
<1> SUFFICES ASSUME BlockInv, MetInv, [Next]_vars, NEW t \in Tasks
             PROVE  /\ pc'[t] \in {"save", "delete"} => (Deleted \/ Matches(inst[t]))'
                    /\ pc'[t] \in {"conflict", "reget"} => Deleted' \/ row' # NoRow
                    /\ result'[t].is \in Returned => (Deleted \/ Matches(result[t].row))'
  BY DEF MetInv
<1> USE DEF BlockInv, TypeOK
<1>1. ASSUME pc'[t] \in {"save", "delete"} PROVE (Deleted \/ Matches(inst[t]))'
  <2>1. CASE Get(t)
    BY <1>1, <2>1 DEF Get, Goto, Return, Matches, dbVars
  <2>2. CASE ~Get(t)
    <3>1. pc[t] = pc'[t] /\ inst'[t] = inst[t]
      BY <1>1, <2>2 DEF Next, Step, Progress, Terminating, vars, dbVars, Goto, Return, Start, Get,
         Enter, Insert, Created, Conflicted, Reget, Select, Update, Updated, Unmatched,
         Save, Delete, ListenerFails, Fail, Failed
    <3> QED
      BY <1>1, <3>1, MetKept DEF MetInv, Matches
  <2> QED
    BY <2>1, <2>2
<1>2. ASSUME pc'[t] \in {"conflict", "reget"} PROVE Deleted' \/ row' # NoRow
  <2>1. CASE Insert(t)
    BY <1>2, <2>1 DEF Insert, Goto
  <2>2. CASE ~Insert(t)
    <3>1. pc[t] \in {"conflict", "reget"}
      BY <1>2, <2>2 DEF Next, Step, Progress, Terminating, vars, dbVars, Goto, Return, Start, Get,
         Enter, Insert, Created, Conflicted, Reget, Select, Update, Updated, Unmatched,
         Save, Delete, ListenerFails, Fail, Failed
    <3> QED
      BY <3>1, DeletedStep, RowKept DEF MetInv
  <2> QED
    BY <2>1, <2>2
<1>3. ASSUME result'[t].is \in Returned PROVE (Deleted \/ Matches(result[t].row))'
  <2>1. CASE result'[t] = result[t]
    BY <1>3, <2>1, MetKept DEF MetInv, Matches
  <2>2. CASE Get(t) \/ Reget(t)
    BY <1>3, <2>1, <2>2 DEF Get, Reget, Goto, Return, Matches, dbVars, Returned
  <2>3. CASE Created(t)
    BY <2>3 DEF Created, Return, InsertInv, Matches
  <2>4. CASE Updated(t)
    BY <2>4 DEF Updated, Return, SelectInv, Matches
  <2>5. CASE Save(t)
    <3>1. inst'[t] = Set(t, inst[t]) /\ result'[t].row = inst'[t]
      BY <2>5 DEF Save, Return
    <3>2. Deleted \/ Matches(inst[t])
      BY <2>5 DEF Save, MetInv
    <3> QED
      BY <3>1, <3>2, MetKept, SetRow DEF Matches
  <2>6. CASE Delete(t)
    <3>1. result'[t].row = inst[t]
      BY <2>6 DEF Delete, Return
    <3>2. Deleted \/ Matches(inst[t])
      BY <2>6 DEF Delete, MetInv
    <3> QED
      BY <3>1, <3>2, MetKept DEF Matches
  <2>7. CASE ListenerFails(t) \/ Failed(t)
    BY <1>3, <2>7 DEF ListenerFails, Failed, Return, Returned
  <2>8. \/ result'[t] = result[t]
        \/ Get(t) \/ Reget(t) \/ Created(t) \/ Updated(t) \/ Save(t) \/ Delete(t)
        \/ ListenerFails(t) \/ Failed(t)
    BY DEF Next, Step, Progress, Terminating, vars, dbVars, Goto, Return, Start, Get, Enter,
       Insert, Created, Conflicted, Reget, Select, Update, Updated, Unmatched, Save,
       Delete, ListenerFails, Fail, Failed
  <2> QED
    BY <2>1, <2>2, <2>3, <2>4, <2>5, <2>6, <2>7, <2>8
<1> QED
  BY <1>1, <1>2, <1>3

\* A step makes no second creation while no delete() ran.
LEMMA CreatedStep == IInv /\ [Next]_vars /\ MetInv' => CreatedOnce'
<1> SUFFICES ASSUME IInv, [Next]_vars, MetInv', ~Deleted',
                    NEW t \in Tasks, NEW u \in Tasks, t # u,
                    result'[t].is = "created", result'[u].is \in Returned
             PROVE  result'[u].is # "created" /\ result'[u].row.id = result'[t].row.id
  BY DEF CreatedOnce
<1> USE DEF IInv, BlockInv, TypeOK
<1>1. result'[u].row.id = result'[t].row.id
  BY DEF MetInv, Matches, Returned
<1>2. ASSUME NEW v \in Tasks, result'[v].is = "created"
      PROVE  result'[v] = result[v] \/ Created(v)
  BY <1>2 DEF Next, Step, Progress, Terminating, vars, dbVars, Goto, Return, Start, Get, Enter,
     Insert, Created, Conflicted, Reget, Select, Update, Updated, Unmatched, Save,
     Delete, ListenerFails, Fail, Failed
<1>3. ASSUME NEW v \in Tasks, Created(v), NEW w \in Tasks, w # v, result'[w].is = "created"
      PROVE  FALSE
  <2>1. row = NoRow
    BY <1>3 DEF Created, InsertInv
  <2>2. result[w] = result'[w]
    BY <1>3 DEF Created, Return
  <2>3. Deleted
    BY <1>3, <2>1, <2>2 DEF MetInv, Matches, Returned
  <2> QED
    BY <2>3, DeletedStep
<1>4. ~Deleted
  BY DeletedStep
<1> QED
  BY <1>1, <1>2, <1>3, <1>4 DEF CreatedOnce, Returned

\* A step raises IntegrityError to the caller only after a delete().
LEMMA RaceStep == IInv /\ [Next]_vars => RaceResolved'
<1> SUFFICES ASSUME IInv, [Next]_vars, NEW t \in Tasks, result'[t].is = "IntegrityError"
             PROVE  Deleted'
  BY DEF RaceResolved
<1> USE DEF IInv, BlockInv, TypeOK
<1>1. result'[t] = result[t] \/ (Reget(t) /\ row = NoRow)
  BY DEF Next, Step, Progress, Terminating, vars, dbVars, Goto, Return, Start, Get, Enter,
     Insert, Created, Conflicted, Reget, Select, Update, Updated, Unmatched, Save,
     Delete, ListenerFails, Fail, Failed
<1>2. Deleted
  BY <1>1 DEF Reget, RaceResolved, MetInv
<1> QED
  BY <1>2, DeletedStep

\* The inductive invariant holds before any call.
LEMMA InvInit == Init => IInv
  BY BlockInit DEF IInv, Init, MetInv, CreatedOnce, RaceResolved, Returned

\* Every step keeps the inductive invariant.
LEMMA InvStep == IInv /\ [Next]_vars => IInv'
  BY BlockStep, MetStep, CreatedStep, RaceStep DEF IInv

\* The inductive invariant: where each task is in its call determines what it has
\* locked and drafted, and what it read has not gone unless a delete() ran.
THEOREM WritesInvariant == Spec => []IInv
  BY InvInit, InvStep, PTL DEF Spec

\* Tasks that call get_or_create or update_or_create at once come to one row,
\* which one of them at most created, until somebody deletes it.
THEOREM OneCreation == Spec => []CreatedOnce
  BY WritesInvariant, PTL DEF IInv

\* A task that loses the race in _create_or_get gets the winner's row: the
\* IntegrityError reaches its caller only when that row was deleted again.
THEOREM LostRaceResolved == Spec => []RaceResolved
  BY WritesInvariant, PTL DEF IInv

-----------------------------------------------------------------------------
(* Errors *)

\* A task whose call is under way, or raised in its block, has published nothing.
Unpublished(t) ==
    \/ pc[t] # "done"
    \/ result[t].is \in Raised /\ op[t] \in {"get_or_create", "update_or_create"}

\* What is not published is in no other task's instance or draft, nor in the table.
SecretInv ==
    \A t \in Tasks : Unpublished(t) =>
        /\ t \notin row.wrote
        /\ \A u \in Tasks \ {t} : t \notin inst[u].wrote /\ t \notin draft[u].wrote

\* Nothing is written before any call.
LEMMA SecretInit == Init => SecretInv
  BY DEF Init, SecretInv, NoRow

\* A task publishes what it wrote with the step that ends its call, if at all.
LEMMA UnpublishedStep ==
  ASSUME BlockInv, [Next]_vars, NEW t \in Tasks, Unpublished(t)'
  PROVE  /\ Unpublished(t)
         /\ ~Created(t) /\ ~Updated(t) /\ ~Save(t)
<1> USE DEF BlockInv, TypeOK, Unpublished, Raised
<1>1. ~Created(t) /\ ~Updated(t)
  BY DEF Created, Updated, Return, Goto
<1>2. ~Save(t)
  BY DEF Save, Return, Goto, CallInv
<1>3. pc[t] = "done" => op'[t] = op[t] /\ result'[t] = result[t] /\ pc'[t] = "done"
  BY DEF Next, Step, Progress, Terminating, vars, dbVars, Goto, Return, Start, Get, Enter,
     Insert, Created, Conflicted, Reget, Select, Update, Updated, Unmatched, Save,
     Delete, ListenerFails, Fail, Failed
<1> QED
  BY <1>1, <1>2, <1>3

\* Steps keep secrets: what is read is the table, and what is written is read.
LEMMA SecretStep == BlockInv /\ SecretInv /\ [Next]_vars => SecretInv'
<1> SUFFICES ASSUME BlockInv, SecretInv, [Next]_vars, NEW t \in Tasks, Unpublished(t)'
             PROVE  /\ t \notin row'.wrote
                    /\ \A u \in Tasks \ {t} : t \notin inst'[u].wrote /\ t \notin draft'[u].wrote
  BY DEF SecretInv
<1> USE DEF BlockInv, TypeOK
<1>1. /\ t \notin row.wrote
      /\ \A u \in Tasks \ {t} : t \notin inst[u].wrote /\ t \notin draft[u].wrote
      /\ ~Created(t) /\ ~Updated(t) /\ ~Save(t)
  BY UnpublishedStep DEF SecretInv
<1>2. t \notin NoRow.wrote
  BY DEF NoRow
<1>3. \A u \in Tasks \ {t} : t \notin Set(u, inst[u]).wrote
  BY <1>1 DEF Set, Rows
<1>4. t \notin row'.wrote
  BY <1>1, <1>2, <1>3 DEF Next, Step, Progress, Terminating, vars, dbVars, Start, Get, Enter,
     Insert, Created, Conflicted, Reget, Select, Update, Updated, Unmatched, Save,
     Delete, ListenerFails, Fail, Failed
<1>5. ASSUME NEW u \in Tasks \ {t} PROVE t \notin inst'[u].wrote
  BY <1>1, <1>3 DEF Next, Step, Progress, Terminating, vars, dbVars, Start, Get, Enter,
     Insert, Created, Conflicted, Reget, Select, Update, Updated, Unmatched, Save,
     Delete, ListenerFails, Fail, Failed
<1>6. ASSUME NEW u \in Tasks \ {t} PROVE t \notin draft'[u].wrote
  BY <1>1, <1>2, <1>3 DEF Next, Step, Progress, Terminating, vars, dbVars, EndBlock, Start, Get,
     Enter, Insert, Created, Conflicted, Reget, Select, Update, Updated, Unmatched, Save,
     Delete, ListenerFails, Fail, Failed
<1> QED
  BY <1>4, <1>5, <1>6

\* A get_or_create or update_or_create that raised, in its block or for the lost
\* race, has left nothing of its own in the table.
THEOREM ErrorsUndone == Spec => []ErrorLeavesNothing
<1>1. SecretInv => ErrorLeavesNothing
  BY DEF SecretInv, ErrorLeavesNothing, Unpublished
<1> QED
  BY <1>1, BlockInit, BlockStep, SecretInit, SecretStep, PTL DEF Spec

-----------------------------------------------------------------------------
(* Updates *)

\* The keys of rows have been generated, and that of an inserted row is nobody's yet.
FreshInv ==
    /\ nextid > 0 /\ row.id < nextid
    /\ \A t \in Tasks : inst[t].id < nextid /\ result[t].row.id < nextid
    /\ \A t \in Tasks : pc[t] = "inserted" =>
          /\ inst[t].id > 0
          /\ \A u \in Tasks \ {t} : inst[u].id # inst[t].id /\ result[u].row.id # inst[t].id

\* What a task has selected has every value of the row, and what it has written its own.
HeldInv ==
    \A t \in Tasks :
        /\ pc[t] \in {"selected", "updated"} => row.wrote \subseteq inst[t].wrote
        /\ pc[t] \in {"inserted", "updated"} => t \in inst[t].wrote

KeptInv == BlockInv /\ FreshInv /\ HeldInv /\ ValueKept

\* There are no calls to keep anything of at first.
LEMMA KeptInit == Init => KeptInv
  BY BlockInit DEF KeptInv, Init, FreshInv, HeldInv, ValueKept, NoRow

\* A new row has a new key; every other row is one that there was.
LEMMA FreshStep == BlockInv /\ FreshInv /\ [Next]_vars => FreshInv'
<1> SUFFICES ASSUME BlockInv, FreshInv, [Next]_vars PROVE FreshInv'
  OBVIOUS
<1> USE DEF BlockInv, TypeOK
<1>1. \A r \in Rows : r.id \in Nat
  BY DEF Rows
<1>2. NoRow.id = 0
  BY DEF NoRow
<1>3. \A t \in Tasks : result[t] \in Results => result[t].row \in Rows
  BY DEF Results
<1>4. \A t \in Tasks : Set(t, inst[t]).id = inst[t].id
  BY SetRow
<1>5. nextid' \in {nextid, nextid + 1} /\ nextid' > 0
  BY DEF FreshInv, Next, Step, Progress, Terminating, vars, dbVars, Start, Get, Enter,
     Insert, Created, Conflicted, Reget, Select, Update, Updated, Unmatched, Save,
     Delete, ListenerFails, Fail, Failed
<1>6. row'.id < nextid'
  <2>1. row' \in {row, NoRow} \/ \E t \in Tasks : row' \in {inst[t], Set(t, inst[t])}
    BY DEF InsertInv, SelectInv, Next, Step, Progress, Terminating, vars, dbVars, Start, Get,
       Enter, Insert, Created, Conflicted, Reget, Select, Update, Updated, Unmatched, Save,
       Delete, ListenerFails, Fail, Failed
  <2> QED
    BY <1>1, <1>2, <1>4, <1>5, <2>1 DEF FreshInv
<1>7. ASSUME NEW t \in Tasks
      PROVE  \/ inst'[t].id \in {inst[t].id, row.id}
             \/ Insert(t) /\ inst'[t].id = nextid /\ nextid' = nextid + 1
  BY <1>4 DEF Next, Step, Progress, Terminating, vars, dbVars, Start, Get, Enter, Insert,
     Created, Conflicted, Reget, Select, Update, Updated, Unmatched, Save, Delete,
     ListenerFails, Fail, Failed
<1>8. ASSUME NEW t \in Tasks PROVE result'[t].row.id \in {result[t].row.id, inst[t].id, row.id, 0}
  BY <1>2, <1>4 DEF Next, Step, Progress, Terminating, vars, dbVars, Return, Start, Get, Enter,
     Insert, Created, Conflicted, Reget, Select, Update, Updated, Unmatched, Save,
     Delete, ListenerFails, Fail, Failed
<1>9. \A t \in Tasks : inst'[t].id < nextid' /\ result'[t].row.id < nextid'
  BY <1>1, <1>3, <1>5, <1>7, <1>8 DEF FreshInv
<1>10. ASSUME NEW t \in Tasks, pc'[t] = "inserted"
       PROVE  /\ inst'[t].id > 0
              /\ \A u \in Tasks \ {t} : inst'[u].id # inst'[t].id /\ result'[u].row.id # inst'[t].id
  <2>1. CASE Insert(t)
    <3>1. inst'[t].id = nextid /\ \A u \in Tasks \ {t} : inst'[u] = inst[u] /\ result'[u] = result[u]
      BY <1>10, <2>1 DEF Insert, Goto
    <3> QED
      BY <1>1, <1>3, <3>1 DEF FreshInv
  <2>2. CASE ~Insert(t)
    <3>1. pc[t] = "inserted" /\ inst'[t] = inst[t]
      BY <1>10, <2>2 DEF Next, Step, Progress, Terminating, vars, dbVars, Goto, Return, Start,
         Get, Enter, Insert, Created, Conflicted, Reget, Select, Update, Updated, Unmatched,
         Save, Delete, ListenerFails, Fail, Failed
    <3>2. row.id = 0 /\ draft[t] = inst[t] /\ inst[t].id > 0
      BY <1>2, <3>1 DEF InsertInv, FreshInv
    <3>3. ASSUME NEW u \in Tasks \ {t}
          PROVE  inst'[u].id # inst'[t].id /\ result'[u].row.id # inst'[t].id
      <4>1. inst[u].id # inst[t].id /\ result[u].row.id # inst[t].id
        BY <3>1 DEF FreshInv
      <4>2. ~Insert(u) \/ inst'[u] = inst[u]
        BY <3>1, <3>2 DEF Insert, InsertWaits, InsertInv, Matches
      <4>3. inst'[u].id \in {inst[u].id, row.id}
        BY <1>7, <4>2
      <4> QED
        BY <1>8, <3>1, <3>2, <4>1, <4>3
    <3> QED
      BY <3>1, <3>2, <3>3
  <2> QED
    BY <2>1, <2>2
<1> QED
  BY <1>5, <1>6, <1>9, <1>10 DEF FreshInv

\* The row of a task that has selected it changes for nobody else.
LEMMA HeldRow ==
  ASSUME BlockInv, [Next]_vars, NEW t \in Tasks, pc[t] \in {"selected", "updated"},
         row' # row
  PROVE  Updated(t)
<1> USE DEF BlockInv, TypeOK
<1>1. PICK u \in Tasks : Created(u) \/ Updated(u) \/ Save(u) \/ Delete(u)
  BY DEF Next, Step, Progress, Terminating, vars, dbVars, Start, Get, Enter, Insert, Created,
     Conflicted, Reget, Select, Update, Updated, Unmatched, Save, Delete, ListenerFails,
     Fail, Failed
<1>2. row # NoRow
  BY DEF SelectInv, Matches
<1>3. ~Created(u)
  BY <1>2 DEF Created, InsertInv
<1>4. u # t => ~Save(u) /\ ~Delete(u)
  BY SelectedAlone DEF Save, Delete
<1>5. u # t => ~Updated(u)
  <2> SUFFICES ASSUME u # t, Updated(u) PROVE FALSE
    OBVIOUS
  <2>1. pc[u] = "updated"
    BY DEF Updated
  <2>2. ~Serialised
    BY <2>1, SelectedAlone DEF InBlock, Searching
  <2> QED
    BY <2>1, <2>2 DEF SelectInv
<1>6. ~Save(t) /\ ~Delete(t)
  BY DEF Save, Delete
<1> QED
  BY <1>1, <1>3, <1>4, <1>5, <1>6

\* What is selected stays whole while it is held.
LEMMA HeldStep == BlockInv /\ HeldInv /\ [Next]_vars => HeldInv'
<1> SUFFICES ASSUME BlockInv, HeldInv, [Next]_vars, NEW t \in Tasks
             PROVE  /\ pc'[t] \in {"selected", "updated"} => row'.wrote \subseteq inst'[t].wrote
                    /\ pc'[t] \in {"inserted", "updated"} => t \in inst'[t].wrote
  BY DEF HeldInv
<1> USE DEF BlockInv, TypeOK
<1>1. Set(t, inst[t]).wrote = inst[t].wrote \cup {t}
  BY DEF Set, Rows
<1>2. CASE Select(t) \/ Insert(t)
  BY <1>2 DEF Select, Insert, Goto
<1>3. CASE Update(t)
  <2>1. inst'[t].wrote = inst[t].wrote \cup {t} /\ row' = row /\ pc[t] = "selected"
    BY <1>1, <1>3 DEF Update
  <2> QED
    BY <2>1 DEF HeldInv
<1>4. CASE ~Select(t) /\ ~Insert(t) /\ ~Update(t)
  <2>1. pc'[t] \in {"selected", "updated", "inserted"} => pc[t] = pc'[t] /\ inst'[t] = inst[t]
    BY <1>4 DEF Next, Step, Progress, Terminating, vars, dbVars, Goto, Return, Start, Get,
       Enter, Insert, Created, Conflicted, Reget, Select, Update, Updated, Unmatched,
       Save, Delete, ListenerFails, Fail, Failed
  <2>2. pc'[t] \in {"selected", "updated"} => ~Updated(t)
    BY DEF Updated, Return, Goto
  <2> QED
    BY <2>1, <2>2, HeldRow DEF HeldInv
<1> QED
  BY <1>2, <1>3, <1>4

\* A save() that wrote the row stays so.
LEMMA SavedStep ==
  ASSUME BlockInv, [Next]_vars, Saved
  PROVE  Saved'
<1>1. PICK t \in Tasks : op[t] = "save" /\ result[t].row # NoRow
  BY DEF Saved
<1>2. pc[t] = "done"
  BY <1>1 DEF BlockInv, CallInv
<1>3. op'[t] = op[t] /\ result'[t] = result[t]
  BY <1>2 DEF BlockInv, TypeOK, Next, Step, Progress, Terminating, vars, dbVars, Goto, Return,
     Start, Get, Enter, Insert, Created, Conflicted, Reget, Select, Update, Updated,
     Unmatched, Save, Delete, ListenerFails, Fail, Failed
<1> QED
  BY <1>1, <1>3 DEF Saved

\* A step replaces the row by one with the values it had, or saves, or makes a row
\* that nobody has met.
LEMMA KeptStep == KeptInv /\ [Next]_vars => ValueKept'
<1> SUFFICES ASSUME KeptInv, [Next]_vars, NEW t \in Tasks, ~Saved',
                    result'[t].is \in {"created", "updated"}, Matches(result[t].row)'
             PROVE  t \in row'.wrote
  BY DEF ValueKept
<1> USE DEF KeptInv, BlockInv, TypeOK
<1>1. ~Saved
  BY SavedStep
<1>2. CASE Created(t)
  BY <1>2 DEF Created, InsertInv, HeldInv
<1>3. CASE Updated(t)
  BY <1>3 DEF Updated, SelectInv, HeldInv
<1>4. CASE ~Created(t) /\ ~Updated(t)
  <2>1. result'[t] = result[t]
    BY <1>4 DEF Next, Step, Progress, Terminating, vars, dbVars, Goto, Return, Start, Get,
       Enter, Insert, Created, Conflicted, Reget, Select, Update, Updated, Unmatched,
       Save, Delete, ListenerFails, Fail, Failed
  <2>2. ASSUME NEW u \in Tasks \ {t}, Created(u) PROVE FALSE
    <3>1. row' = inst[u] /\ pc[u] = "inserted"
      BY <2>2 DEF Created, InsertInv
    <3> QED
      BY <2>1, <3>1 DEF FreshInv, Matches
  <2>3. row # NoRow /\ row.id = result[t].row.id
    BY <1>4, <2>1, <2>2, RowStep DEF Matches
  <2>4. t \in row.wrote
    BY <1>1, <2>1, <2>3 DEF ValueKept, Matches
  <2>5. ASSUME NEW u \in Tasks, Updated(u) PROVE t \in row'.wrote
    BY <2>4, <2>5 DEF Updated, SelectInv, HeldInv
  <2>6. ASSUME NEW u \in Tasks, Save(u), row' # row PROVE FALSE
    <3>1. op'[u] = "save" /\ result'[u].row = Set(u, inst[u])
      BY <2>6 DEF Save, Return, CallInv
    <3>2. Set(u, inst[u]) # NoRow
      BY SetRow
    <3> QED
      BY <3>1, <3>2 DEF Saved
  <2>7. ASSUME NEW u \in Tasks, Delete(u), row' # row PROVE FALSE
    BY <2>7 DEF Delete, Matches
  <2>8. row' = row \/ \E u \in Tasks : Created(u) \/ Updated(u) \/ Save(u) \/ Delete(u)
    BY DEF Next, Step, Progress, Terminating, vars, dbVars, Start, Get, Enter, Insert,
       Created, Conflicted, Reget, Select, Update, Updated, Unmatched, Save, Delete,
       ListenerFails, Fail, Failed
  <2> QED
    BY <1>4, <2>2, <2>4, <2>5, <2>6, <2>7, <2>8
<1> QED
  BY <1>2, <1>3, <1>4

\* What update_or_create wrote under its lock, or create() inserted, stays in the
\* row until somebody saves an instance or deletes the row.
THEOREM UpdatesKept == Spec => []ValueKept
<1>1. KeptInv /\ [Next]_vars => KeptInv'
  BY BlockStep, FreshStep, HeldStep, KeptStep DEF KeptInv
<1>2. KeptInv => ValueKept
  BY DEF KeptInv
<1> QED
  BY <1>1, <1>2, KeptInit, PTL DEF Spec
=============================================================================
