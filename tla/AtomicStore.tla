----------------------------- MODULE AtomicStore -----------------------------
(***************************************************************************)
(* What a database client promises to the tasks that share it: at most one *)
(* of them has a transaction open, only that one's rows are staged, staged *)
(* rows become durable all together or vanish all together, and what is    *)
(* durable stays.  SqliteTransactions implements it.                       *)
(***************************************************************************)
CONSTANTS
    Owners,         \* those who may open a transaction
    Nobody,         \* not one of them
    Row,            \* the rows they may write
    Belongs(_, _)   \* whether a row is written on behalf of an owner

VARIABLES
    active,     \* whose transaction is open
    staged,     \* rows written in it
    durable     \* rows committed

Init == active = Nobody /\ staged = {} /\ durable = {}

Begin(w) ==
    /\ active = Nobody
    /\ active' = w
    /\ UNCHANGED <<staged, durable>>

\* The open transaction writes rows of its owner.
Write ==
    /\ active # Nobody
    /\ staged \subseteq staged' /\ staged' \subseteq Row
    /\ \A r \in staged' \ staged : Belongs(r, active)
    /\ UNCHANGED <<active, durable>>

\* A statement outside of any transaction commits by itself.
AutoCommit ==
    /\ active = Nobody
    /\ durable \subseteq durable' /\ durable' \subseteq Row
    /\ UNCHANGED <<active, staged>>

Commit ==
    /\ active # Nobody
    /\ active' = Nobody
    /\ durable' = durable \cup staged
    /\ staged' = {}

Rollback ==
    /\ active # Nobody
    /\ active' = Nobody
    /\ staged' = {}
    /\ UNCHANGED durable

Next == \/ \E w \in Owners : Begin(w)
        \/ Write
        \/ AutoCommit
        \/ Commit
        \/ Rollback

Spec == Init /\ [][Next]_<<active, staged, durable>>

=============================================================================
