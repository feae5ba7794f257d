------------------------- MODULE BackfillProperties -------------------------
(***************************************************************************)
(* What run_backfill and the transactions of crates/storage guarantee.     *)
(***************************************************************************)
EXTENDS Backfill

\* The lane holds exactly the blocks from START_BLOCK up to the checkpoint, over
\* every crash between fetching and committing and every rollback
\* (commit_finalized_range and rollback_from_block move both together).
ColdContiguous ==
  \A n \in Heights :
    db.cold.blocks[n] # NoHash <=> StartBlock <= n /\ n <= db.checkpoint

\* A transfer row belongs to the block stored at its height, although hashes, logs
\* and rows are fetched and written at different times and an insert keeps the
\* row it finds (ON CONFLICT DO NOTHING).
ColdRowsBelongToBlocks ==
  \A n \in Heights : \A r \in db.cold.transfers[n] : r.block_hash = db.cold.blocks[n]

\* insert_transfers_into_tx makes a partition for every row it is about to insert, a
\* range that crosses a multiple of BLOCK_PARTITION_SIZE included; without one the
\* insert fails, and after the restart fails again.
RowsHavePartitions ==
  bpc = "commit" =>
    \A n \in Heights : bpayload.transfer_records[n] # {} =>
      \E p \in PartitionsFor(bpayload.transfer_records) : InPartition(n, p)

\* handle_finalized_reorg deletes from a block only if the chain replaced it: a
\* block that is merely not served (fetch_block_metadata's NotFound) is no reorg.
\* A block canonical again at that moment takes a second reorg.
RollbackJustified ==
  bpc = "rollback" /\ db.cold.blocks[bcursor] = chain.hash[bcursor] => reorgs >= 2

Prefix ==
  INSTANCE IndexedPrefix WITH
    Numbers <- Heights, Hash <- Hashes, None <- NoHash,
    First <- StartBlock, Batch <- BLOCK_BATCH_SIZE,
    tip <- db.checkpoint, blocks <- db.cold.blocks, rows <- db.cold.transfers

\* Seen through indexed_blocks, erc20_transfers and the checkpoint, the worker with
\* its retries, crashes and restarts only ever appends a batch or cuts a suffix.
ImplementsPrefix == Prefix!Spec

-----------------------------------------------------------------------------
(* With CONFIRMATION_DEPTH at least as deep as the chain can reorganize.   *)

\* The cold lane is the canonical chain: its hashes, and exactly its transfers,
\* although each range is put together from answers given at different times.
ColdCanonical ==
  \A n \in Heights :
    StartBlock <= n /\ n <= db.checkpoint =>
      /\ db.cold.blocks[n] = chain.hash[n]
      /\ {r.key : r \in db.cold.transfers[n]} = TransferKeys(chain.hash[n])

\* Nothing finalized is ever taken back: no step of the worker lowers the
\* checkpoint (rollback_from_block is never reached).
FinalizedIsFinal == [][db'.checkpoint >= db.checkpoint]_db

-----------------------------------------------------------------------------
(* With a chain that reorganizes deeper than CONFIRMATION_DEPTH.           *)

ColdCaughtUp ==
  /\ \A n \in Heights : StartBlock <= n /\ n <= db.checkpoint =>
       db.cold.blocks[n] = chain.hash[n]
  /\ db.checkpoint >= safe_head(chain.head)

\* Once the errors stop, every block the chain replaced is found by
\* reconcile_finalized_history, however far below the lookback window it
\* reaches, and the lane follows the chain up to the safe head.  While the head
\* is below the checkpoint the worker can only restart and fail again.
BackfillConverges ==
  <>[][~BackfillErrs]_backfillVars => <>[](db.checkpoint <= chain.head => ColdCaughtUp)

\* README, Historical backfill: "Indexes from a configurable START_BLOCK and
\* resumes from persisted checkpoints."  Once the errors stop, and with
\* START_BLOCK below the safe head for good, block START_BLOCK is indexed.
BackfillBegins ==
  <>[][~BackfillErrs]_backfillVars /\ <>[](StartBlock <= safe_head(chain.head))
    => <>(db.cold.blocks[StartBlock] # NoHash)
=============================================================================
