---------------------------- MODULE MCTransactions ----------------------------
(***************************************************************************)
(* The runs about waiting, of both kinds of clients: part says which one a *)
(* behaviour is about, and the variables of the other keep their initial   *)
(* values.  The pooled client is that of PooledTransactions, S is the      *)
(* SQLite client.                                                          *)
(***************************************************************************)
EXTENDS PooledTransactions

CONSTANTS a, b, p, SqliteFaults

VARIABLES
    part,
    spc, sdepth, sexc, sctx, scall, sblock, sfinal, lock, wlock, conn, queue, dbtx, dirty,
    sdurable, slost, scancelled

S == INSTANCE SqliteTransactions WITH
        Roots <- Tasks, Faults <- SqliteFaults, Features <- {}, Joined <- TRUE,
        pc <- spc, depth <- sdepth, exc <- sexc, ctx <- sctx, call <- scall, block <- sblock,
        final <- sfinal, durable <- sdurable, lost <- slost, cancelled <- scancelled

sqliteVars ==
    <<spc, sdepth, sexc, sctx, scall, sblock, sfinal, lock, wlock, conn, queue, dbtx, dirty,
      sdurable, slost, scancelled>>

PartsInit == part \in {"sqlite", "pooled"} /\ S!Init /\ Init
InSqlite == part = "sqlite" /\ UNCHANGED <<part, vars>>
InPooled == part = "pooled" /\ UNCHANGED <<part, sqliteVars>>
PartsNext == (S!Next /\ InSqlite) \/ (Next /\ InPooled)
allVars == <<part, sqliteVars, vars>>

\* S!Fairness and Fairness.  Fairness of each part is stated at once, as a
\* behaviour is about one of them; no block is nested here.
GoesOn(t)      == (S!Progress(t) /\ InSqlite) \/ (Progress(t) /\ InPooled)
BlockServed(t) == (S!AcquireBlock(t) /\ InSqlite) \/ (TakeConn(t) /\ InPooled)
CallServed(t)  == (S!CallSubmit(t) /\ InSqlite) \/ (CallTakeConn(t) /\ InPooled)
Ends(t)        == (S!End(t) /\ InSqlite) \/ (End(t) /\ InPooled)
PartsSpec ==
    /\ PartsInit /\ [][PartsNext]_allVars
    /\ WF_allVars(S!OrphanDone /\ InSqlite)
    /\ \A t \in Tasks :
         /\ WF_allVars(GoesOn(t))
         /\ SF_allVars(BlockServed(t)) /\ SF_allVars(CallServed(t)) /\ SF_allVars(Ends(t))

\* SqliteTransactions!WaitersServed: a task that waits for the client's lock, or
\* for a wrapper's, gets it.
WaitersServed == S!WaitersServed
=============================================================================
