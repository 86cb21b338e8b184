------------------------ MODULE MCSqliteTransactions ------------------------
(* Instances of SqliteTransactions for TLC: see the cfg files. *)
EXTENDS SqliteTransactions

CONSTANTS a, b

\* States that differ only in which rows exist are taken to be the same.
ControlView == <<taskVars, final, lockVars, conn, queue, dbtx, cancelled>>
=============================================================================
