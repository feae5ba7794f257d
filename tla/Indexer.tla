------------------------------- MODULE Indexer -------------------------------
(***************************************************************************)
(* The process in hybrid mode: main.rs joins run_backfill, run_live and    *)
(* the API server with try_join!, over one database; the first error of    *)
(* any of the three drops the others where they are, and the process       *)
(* exits.  How the workers' awaits and statements interleave is            *)
(* IndexerTx's.                                                            *)
(***************************************************************************)
EXTENDS Backfill, Live

indexerVars == <<chainVars, db, bvars, lvars>>

IndexerTypeOK == BackfillTypeOK /\ LiveTypeOK

IndexerInit ==
  /\ ChainInit
  /\ db = MigratedDatabase
  /\ BackfillLocalsInit
  /\ LiveLocalsInit

\* A worker asks for a block the chain does not have.
ExitNotFound ==
  /\ BackfillMisses \/ LiveMisses
  /\ BackfillGoTo("down")
  /\ LiveGoTo("down")
  /\ UNCHANGED db

\* Any other error of a worker or of the API server, or the process is killed.
ExitErr ==
  /\ bpc # "down"
  /\ ~BackfillMisses /\ ~LiveMisses
  /\ BackfillGoTo("down")
  /\ LiveGoTo("down")
  /\ UNCHANGED db

IndexerRestart ==
  /\ bpc = "down"
  /\ BackfillGoTo("latest")
  /\ LiveGoTo("latest")
  /\ UNCHANGED db
=============================================================================
