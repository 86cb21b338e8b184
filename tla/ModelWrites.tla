----------------------------- MODULE ModelWrites -----------------------------
(***************************************************************************)
(* Model.get_or_create, update_or_create, save and delete, called by tasks *)
(* that run side by side, for the row of one value of a unique field.      *)
(*                                                                         *)
(*   models.py                  Model                                      *)
(*   queryset.py                QuerySet.get, get_or_none, _execute        *)
(*   backends/base/executor.py  execute_insert, execute_update,            *)
(*                              execute_delete                             *)
(*                                                                         *)
(* A block of in_transaction is a transaction of its own, as the modules   *)
(* SqliteTransactions and PooledTransactions show of tasks that do not     *)
(* share one.  The database (external) is read committed with row locks,   *)
(* or it serialises the transactions, as the lock of SqliteClient does.    *)
(*                                                                         *)
(* Each task has a column of its own, which it writes: a row is told by    *)
(* its primary key and by the tasks whose values its columns hold.         *)
(***************************************************************************)
EXTENDS Naturals, FiniteSets

CONSTANTS
    Tasks,
    NoTask,
    Ops,        \* the methods that the tasks may call, of AllOps
    Serialised  \* a transaction excludes every other statement

AllOps == {"get_or_create", "update_or_create", "save", "delete"}

ASSUME ModelWritesAssumption ==
    /\ NoTask \notin Tasks
    /\ Ops \subseteq AllOps
    /\ Serialised \in BOOLEAN

VARIABLES
    pc,      \* what a task awaits next
    op,      \* the method a task calls (one call each: a bound)
    inst,    \* the instance the task works on
    result,  \* what the call came to
    row,     \* the committed row
    nextid,  \* the next generated primary key
    draft,   \* the row as an open transaction has written it
    tx,      \* tasks with an open transaction
    holder   \* the transaction that has locked the committed row

dbVars == <<row, nextid, draft, tx, holder>>
vars   == <<pc, op, inst, result, dbVars>>

-----------------------------------------------------------------------------
(* Domains *)

Rows  == [id : Nat, wrote : SUBSET Tasks]
NoRow == [id |-> 0, wrote |-> {}]

Searching == {"select", "selected", "updated", "unmatched"}
Creating  == {"insert", "inserted", "conflict"}
InBlock   == Searching \cup Creating \cup {"failing"}
PCs       == {"idle", "get", "search", "enter", "reget", "save", "delete", "done"}
                \cup InBlock

Returned == {"found", "created", "updated", "saved", "deleted"}
Raised   == {"DoesNotExist", "IntegrityError", "error"}
Results  == [is : {"none"} \cup Returned \cup Raised, row : Rows]

-----------------------------------------------------------------------------
(* The database, and small steps that several actions share *)

Goto(t, p) == pc' = [pc EXCEPT ![t] = p]

Return(t, is, r) ==
    /\ Goto(t, "done")
    /\ result' = [result EXCEPT ![t] = [is |-> is, row |-> r]]

\* A statement of t can be sent: the client's lock, where there is one, is free.
Admitted(t) == Serialised => tx \subseteq {t}

\* No other transaction has locked the committed row.
Unlocked(t) == holder \in {NoTask, t}

\* The row with the primary key of r is there.
Matches(r) == row # NoRow /\ row.id = r.id

\* The insert of t has to wait for a transaction that has inserted the value.
InsertWaits(t) ==
    \E u \in Tasks \ {t} : draft[u] # NoRow /\ ~Matches(draft[u])

\* A bug: the locks of a transaction outlive it.
EndBlockHolding(t) ==
    /\ tx' = tx \ {t}
    /\ draft' = [draft EXCEPT ![t] = NoRow]
    /\ holder' = holder

\* The transaction of t is over.
EndBlock(t) ==
    /\ tx' = tx \ {t}
    /\ draft' = [draft EXCEPT ![t] = NoRow]
    /\ holder' = IF holder = t THEN NoTask ELSE holder

\* The instance with the values that t passes (update_from_dict, setattr).
Set(t, r) == [r EXCEPT !.wrote = @ \cup {t}]

-----------------------------------------------------------------------------
(* The calls, and get() *)

Start(t) ==
    /\ pc[t] = "idle"
    /\ \E o \in Ops :
          /\ op' = [op EXCEPT ![t] = o]
          /\ Goto(t, IF o = "update_or_create" THEN "search" ELSE "get")
    /\ UNCHANGED <<inst, result, dbVars>>

\* await cls.filter(**kwargs).using_db(db).get(), of get_or_create and of the
\* code that saves or deletes what it got.
Get(t) ==
    /\ pc[t] = "get" /\ Admitted(t)
    /\ inst' = [inst EXCEPT ![t] = row]
    /\ \/ /\ row = NoRow /\ op[t] = "get_or_create"
          /\ Goto(t, "enter") /\ UNCHANGED result
       \/ /\ row = NoRow /\ op[t] \in {"save", "delete"}
          /\ Return(t, "DoesNotExist", NoRow)
       \/ /\ row # NoRow /\ op[t] = "get_or_create"
          /\ Return(t, "found", row)
       \/ /\ row # NoRow /\ op[t] \in {"save", "delete"}
          /\ Goto(t, op[t]) /\ UNCHANGED result
    /\ UNCHANGED <<op, dbVars>>

\* async with in_transaction(): the search of update_or_create, or the create()
\* of _create_or_get.
Enter(t) ==
    /\ Admitted(t)
    /\ \/ pc[t] = "search" /\ Goto(t, "select")
       \/ pc[t] = "enter" /\ Goto(t, "insert")
    /\ tx' = tx \cup {t}
    /\ UNCHANGED <<op, inst, result, row, nextid, draft, holder>>

-----------------------------------------------------------------------------
(* _create_or_get *)

\* A bug: the instance is created on the client, outside of the block.
InsertOutside(t) ==
    /\ pc[t] = "insert" /\ ~InsertWaits(t)
    /\ IF row # NoRow
         THEN Goto(t, "conflict") /\ UNCHANGED <<inst, row, nextid, draft>>
         ELSE LET new == [id |-> nextid, wrote |-> {t}]
              IN /\ inst' = [inst EXCEPT ![t] = new]
                 /\ draft' = [draft EXCEPT ![t] = new]
                 /\ row' = new
                 /\ nextid' = nextid + 1
                 /\ Goto(t, "inserted")
    /\ UNCHANGED <<op, result, tx, holder>>

\* create(): save(force_create=True) inserts, or raises IntegrityError.
Insert(t) ==
    /\ pc[t] = "insert" /\ ~InsertWaits(t)
    /\ IF row # NoRow
         THEN Goto(t, "conflict") /\ UNCHANGED <<inst, nextid, draft>>
         ELSE LET new == [id |-> nextid, wrote |-> {t}]
              IN /\ inst' = [inst EXCEPT ![t] = new]
                 /\ draft' = [draft EXCEPT ![t] = new]
                 /\ nextid' = nextid + 1
                 /\ Goto(t, "inserted")
    /\ UNCHANGED <<op, result, row, tx, holder>>

\* The block ends without an error.
Created(t) ==
    /\ pc[t] = "inserted"
    /\ row' = draft[t]
    /\ EndBlock(t)
    /\ Return(t, "created", inst[t])
    /\ UNCHANGED <<op, inst, nextid>>

\* except IntegrityError, once the block has rolled back.
Conflicted(t) ==
    /\ pc[t] = "conflict"
    /\ EndBlock(t)
    /\ Goto(t, "reget")
    /\ UNCHANGED <<op, inst, result, row, nextid>>

\* A bug: the row that somebody else created is returned as created.
RegetCreated(t) ==
    /\ pc[t] = "reget" /\ Admitted(t)
    /\ inst' = [inst EXCEPT ![t] = row]
    /\ IF row # NoRow THEN Return(t, "created", row)
                      ELSE Return(t, "IntegrityError", NoRow)
    /\ UNCHANGED <<op, dbVars>>

\* A bug: the error is not caught.
RegetNot(t) ==
    /\ pc[t] = "reget" /\ Admitted(t)
    /\ Return(t, "IntegrityError", NoRow)
    /\ UNCHANGED <<op, inst, dbVars>>

\* return await cls.filter(**kwargs).using_db(db).get(), False
Reget(t) ==
    /\ pc[t] = "reget" /\ Admitted(t)
    /\ inst' = [inst EXCEPT ![t] = row]
    /\ IF row # NoRow THEN Return(t, "found", row)
                      ELSE Return(t, "IntegrityError", NoRow)
    /\ UNCHANGED <<op, dbVars>>

-----------------------------------------------------------------------------
(* The search of update_or_create *)

\* A bug: get_or_none() without select_for_update().
SelectPlain(t) ==
    /\ pc[t] = "select"
    /\ inst' = [inst EXCEPT ![t] = row]
    /\ Goto(t, IF row = NoRow THEN "unmatched" ELSE "selected")
    /\ UNCHANGED <<op, result, dbVars>>

\* select_for_update().get_or_none(); SQLite has no FOR UPDATE.
Select(t) ==
    /\ pc[t] = "select" /\ Unlocked(t)
    /\ inst' = [inst EXCEPT ![t] = row]
    /\ holder' = IF row = NoRow \/ Serialised THEN holder ELSE t
    /\ Goto(t, IF row = NoRow THEN "unmatched" ELSE "selected")
    /\ UNCHANGED <<op, result, row, nextid, draft, tx>>

\* update_from_dict(defaults).save(using_db=connection), of every column.
Update(t) ==
    /\ pc[t] = "selected" /\ Unlocked(t)
    /\ inst' = [inst EXCEPT ![t] = Set(t, @)]
    /\ draft' = [draft EXCEPT ![t] = IF Matches(inst[t]) THEN inst'[t] ELSE NoRow]
    /\ Goto(t, "updated")
    /\ UNCHANGED <<op, result, row, nextid, tx, holder>>

Updated(t) ==
    /\ pc[t] = "updated"
    /\ row' = IF draft[t] # NoRow THEN draft[t] ELSE row
    /\ EndBlock(t)
    /\ Return(t, "updated", inst[t])
    /\ UNCHANGED <<op, inst, nextid>>

\* Nothing was found: the first block ends, _create_or_get begins another.
Unmatched(t) ==
    /\ pc[t] = "unmatched"
    /\ EndBlock(t)
    /\ Goto(t, "enter")
    /\ UNCHANGED <<op, inst, result, row, nextid>>

-----------------------------------------------------------------------------
(* save() and delete() of an instance, outside of a block *)

\* UPDATE of every column WHERE pk = ...; that no row matched is no error.  A
\* post_save listener may raise when the row has been written.
Save(t) ==
    /\ pc[t] = "save" /\ Admitted(t) /\ Unlocked(t)
    /\ inst' = [inst EXCEPT ![t] = Set(t, @)]
    /\ row' = IF Matches(inst[t]) THEN inst'[t] ELSE row
    /\ \E is \in {"saved", "error"} : Return(t, is, inst'[t])
    /\ UNCHANGED <<op, nextid, draft, tx, holder>>

Delete(t) ==
    /\ pc[t] = "delete" /\ Admitted(t) /\ Unlocked(t)
    /\ row' = IF Matches(inst[t]) THEN NoRow ELSE row
    /\ \E is \in {"deleted", "error"} : Return(t, is, inst[t])
    /\ UNCHANGED <<op, inst, nextid, draft, tx, holder>>

\* A pre_save or pre_delete listener raises before the statement.
ListenerFails(t) ==
    /\ pc[t] \in {"save", "delete"}
    /\ Return(t, "error", NoRow)
    /\ UNCHANGED <<op, inst, dbVars>>

\* A listener, or a statement, raises inside of a block ...
Fail(t) ==
    /\ pc[t] \in {"insert", "inserted", "select", "selected", "updated"}
    /\ Goto(t, "failing")
    /\ UNCHANGED <<op, inst, result, dbVars>>

\* ... which rolls back.
Failed(t) ==
    /\ pc[t] = "failing"
    /\ EndBlock(t)
    /\ Return(t, "error", NoRow)
    /\ UNCHANGED <<op, inst, row, nextid>>

-----------------------------------------------------------------------------

Init ==
    /\ pc = [t \in Tasks |-> "idle"]
    /\ op = [t \in Tasks |-> "none"]
    /\ inst = [t \in Tasks |-> NoRow]
    /\ result = [t \in Tasks |-> [is |-> "none", row |-> NoRow]]
    /\ row \in {NoRow, [id |-> 1, wrote |-> {}]}
    /\ nextid = 2
    /\ draft = [t \in Tasks |-> NoRow]
    /\ tx = {}
    /\ holder = NoTask

\* The steps of t that the event loop and the database bring about.
Progress(t) == Start(t) \/ Get(t) \/ Enter(t)
                 \/ Insert(t) \/ Created(t) \/ Conflicted(t) \/ Reget(t)
                 \/ Select(t) \/ Update(t) \/ Updated(t) \/ Unmatched(t)
                 \/ Save(t) \/ Delete(t) \/ Failed(t)

Step(t) == Progress(t) \/ ListenerFails(t) \/ Fail(t)

Terminating ==
    /\ \A t \in Tasks : pc[t] = "done"
    /\ UNCHANGED vars

Next == (\E t \in Tasks : Step(t)) \/ Terminating

Spec == Init /\ [][Next]_vars

\* The event loop and the database go on, and locks are granted in order; no
\* listener has to fail.
Fairness == \A t \in Tasks : SF_vars(Progress(t))

FairSpec == Spec /\ Fairness

-----------------------------------------------------------------------------
(* Properties *)

\* The type invariant; what is locked or drafted belongs to an open transaction.
TypeOK ==
    /\ pc \in [Tasks -> PCs]
    /\ op \in [Tasks -> AllOps \cup {"none"}]
    /\ inst \in [Tasks -> Rows]
    /\ result \in [Tasks -> Results]
    /\ row \in Rows
    /\ nextid \in Nat
    /\ draft \in [Tasks -> Rows]
    /\ tx = {t \in Tasks : pc[t] \in InBlock}
    /\ holder \in tx \cup {NoTask}
    /\ \A t \in Tasks \ tx : draft[t] = NoRow

\* A delete() or a save() has sent its statement.
Deleted == \E t \in Tasks : op[t] = "delete" /\ result[t].row # NoRow
Saved   == \E t \in Tasks : op[t] = "save" /\ result[t].row # NoRow

\* However many tasks call get_or_create or update_or_create at once, they come
\* to the same row and one of them at most is told that it created it, unless a
\* row was deleted (test_concurrent_get_or_create).
CreatedOnce ==
    \A t, u \in Tasks :
        ~Deleted /\ t # u
            /\ result[t].is = "created" /\ result[u].is \in Returned =>
                result[u].is # "created" /\ result[u].row.id = result[t].row.id

\* get_or_create resolves the race it lost: IntegrityError reaches the caller
\* only when the row that was in the way is deleted before it is fetched.
RaceResolved ==
    \A t \in Tasks : result[t].is = "IntegrityError" => Deleted

\* What update_or_create wrote, or create(), stays in its row: no concurrent
\* update_or_create overwrites it, only a save() of an instance read before.
ValueKept ==
    \A t \in Tasks :
        result[t].is \in {"created", "updated"} /\ Matches(result[t].row) =>
            t \in row.wrote \/ Saved

\* A call that raised inside of its block leaves nothing of what it wrote.
ErrorLeavesNothing ==
    \A t \in Tasks :
        result[t].is \in Raised /\ op[t] \in {"get_or_create", "update_or_create"} =>
            t \notin row.wrote

\* Every call comes to an end: the tasks do not wait for each other's locks in
\* a circle, and no lock outlives its transaction.
CallsEnd ==
    \A t \in Tasks : pc[t] # "idle" ~> pc[t] = "done"

\* update_or_create is for "updating an object with the given kwargs, creating a
\* new one if necessary": what it returns holds the values it was given.
DefaultsApplied ==
    \A t \in Tasks :
        op[t] = "update_or_create" /\ result[t].is \in Returned =>
            t \in result[t].row.wrote

=============================================================================
