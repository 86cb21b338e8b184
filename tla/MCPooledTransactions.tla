------------------------ MODULE MCPooledTransactions ------------------------
(* Instances of PooledTransactions for TLC: see the cfg files. *)
EXTENDS PooledTransactions, TLC

CONSTANTS a, b, p, q

TaskSymmetry == Permutations(Tasks)

\* States that differ only in which rows exist are taken to be the same, apart
\* from the rows of bulk inserts on the client.
BulkRows(rows) == {row \in rows : row.part # 0 /\ row.via = Client}
ControlView ==
    <<pc, depth, exc, ctx, call, want, cconn, block, final, wconn, trx, poolVars, user,
      [x \in DOMAIN db |-> <<db[x].status, db[x].auto, BulkRows(db[x].rows)>>],
      BulkRows(durable), cancelled>>
=============================================================================
