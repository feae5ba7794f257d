--------------------------- MODULE LiveProperties ---------------------------
(***************************************************************************)
(* What run_live guarantees when it runs alone (INDEXER_MODE=live).        *)
(***************************************************************************)
EXTENDS Live

\* The hot lane is one run of blocks that ends at the live checkpoint: the window
\* that slides with the head (prune_hot_before_block), the rollbacks and the ranges
\* that start at max(live_checkpoint + 1, live_start_block) never leave a hole.
HotContiguous ==
  \A m, n \in Heights :
    db.hot.blocks[m] # NoHash =>
      /\ m <= db.liveCheckpoint
      /\ m <= n /\ n <= db.liveCheckpoint => db.hot.blocks[n] # NoHash

\* A hot transfer row belongs to the block stored at its height, although hashes,
\* logs and rows are fetched and written at different times.
HotRowsBelongToBlocks ==
  \A n \in Heights : \A r \in db.hot.transfers[n] : r.block_hash = db.hot.blocks[n]

\* handle_hot_reorg deletes from a block only if the chain replaced it; to be
\* canonical again at that moment takes a second reorg.
HotRollbackJustified ==
  lpc = "rollback" /\ db.hot.blocks[lcursor] = chain.hash[lcursor] => reorgs >= 2

Window ==
  INSTANCE ServedChain WITH
    Numbers <- Heights, Hash <- Hashes, None <- NoHash,
    First <- StartBlock, Batch <- BLOCK_BATCH_SIZE,
    final <- 0, served <- db.hot.blocks

\* Seen through hot_indexed_blocks, the worker with its crashes and restarts only ever
\* adds a batch at the end of the run it has, or takes blocks from one end: a block it
\* keeps is never overwritten, whatever the chain does between its awaits.
ImplementsWindow == Window!Spec

-----------------------------------------------------------------------------

HotFollowsHead ==
  /\ db.liveCheckpoint = chain.head
  /\ \A n \in Heights : db.hot.blocks[n] \in {NoHash, chain.hash[n]}
  /\ chain.head >= StartBlock => db.hot.blocks[chain.head] # NoHash

\* Once the errors stop, the hot lane reaches the head and holds no block the chain
\* has replaced: reconcile_hot_history finds each of them in time.  While the head
\* is below the live checkpoint the worker waits or fails.
LiveConverges ==
  <>[][~LiveErrs]_liveVars => <>[](db.liveCheckpoint <= chain.head => HotFollowsHead)

\* Once the errors stop, the transfers of every hot block are those of the canonical
\* block of its height.
LiveRowsConverge ==
  <>[][~LiveErrs]_liveVars =>
    <>[](HotFollowsHead => \A n \in Heights :
           db.hot.blocks[n] # NoHash =>
             {r.key : r \in db.hot.transfers[n]} = TransferKeys(chain.hash[n]))
=============================================================================
