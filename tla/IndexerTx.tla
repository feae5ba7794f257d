------------------------------ MODULE IndexerTx ------------------------------
(***************************************************************************)
(* The hybrid process with its transactions taken apart: each statement of *)
(* commit_finalized_range, rollback_from_block, commit_hot_range,          *)
(* rollback_hot_from_block and prune_hot_before_block on the hot lane is a *)
(* step of its own, and so is the COMMIT.  The other awaits of the two     *)
(* loops are the steps of Backfill and Live.                               *)
(***************************************************************************)
EXTENDS Indexer, Transactions

indexerTxVars == <<indexerVars, tx>>

IndexerTxTypeOK == IndexerTypeOK /\ tx \in [Workers -> Transaction]

IndexerTxInit == IndexerInit /\ tx = [w \in Workers |-> NoTransaction]

From(n) == {m \in Heights : m >= n}

\* Mutant: a promotion deletes one hot block too many.
backfill_statements_OnePast ==
  CASE bpc = "commit"   -> DeleteFromHot(bpayload.from .. bpayload.upto + 1)
    [] bpc = "rollback" -> DeleteFromHot(From(bcursor)) \o UpdateLiveCheckpoint
    [] OTHER            -> <<>>

backfill_statements ==
  CASE bpc = "commit"   -> DeleteFromHot(bpayload.from .. bpayload.upto)
    [] bpc = "rollback" -> DeleteFromHot(From(bcursor)) \o UpdateLiveCheckpoint
    [] OTHER            -> <<>>

\* Mutant: the live worker's rollback deletes blocks before transfers.
live_statements_BlocksFirst ==
  CASE lpc = "prune"    -> DeleteFromHot({m \in Heights : m < lstart})
    [] lpc = "rollback" -> DeleteBlocksFirst(From(lcursor)) \o UpdateLiveCheckpoint
    [] lpc = "commit"   -> InsertIntoHot(lpayload.transfer_records, lpayload.indexed_blocks)
                             \o UpdateLiveCheckpoint
    [] OTHER            -> <<>>

live_statements ==
  CASE lpc = "prune"    -> DeleteFromHot({m \in Heights : m < lstart})
    [] lpc = "rollback" -> DeleteFromHot(From(lcursor)) \o UpdateLiveCheckpoint
    [] lpc = "commit"   -> InsertIntoHot(lpayload.transfer_records, lpayload.indexed_blocks)
                             \o UpdateLiveCheckpoint
    [] OTHER            -> <<>>

-----------------------------------------------------------------------------

BackfillStatement ==
  /\ Execute("backfill", backfill_statements)
  /\ UNCHANGED <<db, bvars>>

\* tx.commit() of the backfill worker, after which it is at the start of its loop.
BackfillCommits ==
  /\ bpc \in {"commit", "rollback"}
  /\ tx["backfill"].step = Len(backfill_statements)
  /\ db' = CommitOf("backfill",
             IF bpc = "commit"
             THEN commit_finalized_range(db, bpayload.transfer_records,
                    bpayload.indexed_blocks, bpayload.from, bpayload.upto)
             ELSE rollback_from_block(db, bcursor))
  /\ tx' = [tx EXCEPT !["backfill"] = NoTransaction]
  /\ BackfillGoTo("latest")

LiveStatement ==
  /\ Execute("live", live_statements)
  /\ UNCHANGED <<db, lvars>>

LiveCommitsPrune ==
  /\ lpc = "prune"
  /\ tx["live"].step = Len(live_statements)
  /\ db' = CommitOf("live", prune_hot_before_block(db, lstart))
  /\ tx' = [tx EXCEPT !["live"] = NoTransaction]
  /\ lpc' = "window"
  /\ UNCHANGED <<llatest, lstart, lcursor, lend, lstored, lpayload>>

\* tx.commit() of a range or of a rollback, the ends of the live worker's loop.
LiveCommits ==
  /\ lpc \in {"rollback", "commit"}
  /\ tx["live"].step = Len(live_statements)
  /\ db' = CommitOf("live",
             IF lpc = "commit"
             THEN commit_hot_range(db, lpayload.transfer_records,
                    lpayload.indexed_blocks, lpayload.upto)
             ELSE rollback_hot_from_block(db, lcursor))
  /\ tx' = [tx EXCEPT !["live"] = NoTransaction]
  /\ LiveGoTo("latest")

\* The awaits of the two loops that are no transaction.
BackfillReads ==
  ReadLatest \/ ReconcileMatch \/ ReconcileMismatch \/ Plan \/ Fetch \/ FetchLogs \/ Validate

LiveReads ==
  LiveReadLatest \/ LiveWindow \/ LiveReadStored \/ LiveCompare \/ LivePlan \/ LiveFetch
    \/ LiveFetchLogs \/ LiveValidate

\* A step of one worker, whatever the other is at.
BackfillTxLoop ==
  \/ BackfillReads /\ UNCHANGED tx
  \/ BackfillStatement
  \/ BackfillCommits

LiveTxLoop ==
  \/ LiveReads /\ UNCHANGED tx
  \/ LiveStatement
  \/ LiveCommitsPrune
  \/ LiveCommits

\* A transaction dropped with its worker is rolled back.
ExitDropsTransactions ==
  /\ ExitNotFound \/ ExitErr
  /\ tx' = [w \in Workers |-> NoTransaction]

IndexerTxNext ==
  \/ BackfillTxLoop /\ UNCHANGED <<chainVars, lvars>>
  \/ LiveTxLoop /\ UNCHANGED <<chainVars, bvars>>
  \/ ExitDropsTransactions /\ UNCHANGED chainVars
  \/ IndexerRestart /\ UNCHANGED <<chainVars, tx>>
  \/ ChainNext /\ UNCHANGED <<db, bvars, lvars, tx>>

IndexerTxSpec == IndexerTxInit /\ [][IndexerTxNext]_indexerTxVars

\* The runtime polls both workers, every await returns, a worker whose request is for a
\* block that is not there fails, and a supervisor restarts the process.
IndexerTxFairSpec ==
  /\ IndexerTxSpec
  /\ WF_indexerTxVars(BackfillTxLoop /\ UNCHANGED <<chainVars, lvars>>)
  /\ WF_indexerTxVars(LiveTxLoop /\ UNCHANGED <<chainVars, bvars>>)
  /\ WF_indexerTxVars(ExitDropsTransactions /\ ExitNotFound /\ UNCHANGED chainVars)
  /\ WF_indexerTxVars(IndexerRestart /\ UNCHANGED <<chainVars, tx>>)
=============================================================================
