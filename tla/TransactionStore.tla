--------------------------- MODULE TransactionStore ---------------------------
(***************************************************************************)
(* What in_transaction() promises on a client with a pool of connections:  *)
(* blocks run side by side, each one stages rows of its own, and ends once, *)
(* with all of its rows durable or with none.  Rows written after that, or *)
(* outside of any block, are durable by themselves.                        *)
(***************************************************************************)
CONSTANTS
    Blocks,         \* the blocks that may run
    Row,            \* the rows they may write
    Belongs(_, _)   \* whether a row is written on behalf of a block

VARIABLES
    staged,     \* the rows each block has written and not ended with
    ended,      \* the blocks that are over
    durable     \* rows committed

Init ==
    /\ staged = [w \in Blocks |-> {}]
    /\ ended = {}
    /\ durable = {}

Write(w) ==
    /\ w \notin ended
    /\ \E rows \in SUBSET {r \in Row : Belongs(r, w)} :
          staged' = [staged EXCEPT ![w] = @ \cup rows]
    /\ UNCHANGED <<ended, durable>>

AutoCommit ==
    /\ durable \subseteq durable'
    /\ \A r \in durable' \ durable : \A w \in Blocks \ ended : ~Belongs(r, w)
    /\ UNCHANGED <<staged, ended>>

Commit(w) ==
    /\ w \notin ended
    /\ ended' = ended \cup {w}
    /\ durable' = durable \cup staged[w]
    /\ staged' = [staged EXCEPT ![w] = {}]

Rollback(w) ==
    /\ w \notin ended
    /\ ended' = ended \cup {w}
    /\ staged' = [staged EXCEPT ![w] = {}]
    /\ UNCHANGED durable

Next == \/ \E w \in Blocks : Write(w) \/ Commit(w) \/ Rollback(w)
        \/ AutoCommit

Spec == Init /\ [][Next]_<<staged, ended, durable>>

=============================================================================
