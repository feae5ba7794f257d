-------------------------- MODULE IndexerProperties --------------------------
(***************************************************************************)
(* What the two workers guarantee together, to a reader of both lanes.     *)
(***************************************************************************)
EXTENDS Indexer

C == INSTANCE BackfillProperties

InSomeLane(n) == db.cold.blocks[n] # NoHash \/ db.hot.blocks[n] # NoHash

\* From the lowest hot block to the live checkpoint every block is in one of the
\* lanes, although the backfill worker removes hot blocks at any moment of the
\* live worker's loop (delete_range_between_blocks_tx).
NoGapBetweenLanes ==
  \A m, n \in Heights :
    db.hot.blocks[m] # NoHash /\ m <= n /\ n <= db.liveCheckpoint => InSomeLane(n)

\* A promotion (commit_finalized_range) loses nothing: a block leaves both lanes only
\* when the live worker itself prunes it or rolls it back.
PromotionLosesNothing ==
  [][\A n \in Heights : InSomeLane(n) /\ ~InSomeLane(n)' =>
       /\ lpc' # lpc
       /\ \/ lpc = "prune" /\ n < lstart
          \/ lpc = "rollback" /\ n >= lcursor]_db

\* The block under number n, to a reader who takes the cold lane's where it has one.
BlockServed(n) == IF db.cold.blocks[n] # NoHash THEN db.cold.blocks[n] ELSE db.hot.blocks[n]

Served ==
  INSTANCE ServedChain WITH
    Numbers <- Heights, Hash <- Hashes, None <- NoHash,
    First <- StartBlock, Batch <- BLOCK_BATCH_SIZE,
    final <- db.checkpoint, served <- [n \in Heights |-> BlockServed(n)]

\* Seen through indexed_blocks, hot_indexed_blocks and the checkpoint, the two workers
\* with their overlapping transactions only ever finalize a batch, make the run of
\* recent blocks longer at its end, or cut it at one end: what one of them is about to
\* write never lands beside, or in the middle of, what the other has left.
ImplementsServed == Served!Spec

\* No hot block is above the live checkpoint, whichever worker wrote it last: the
\* live worker never finds a row where it is about to insert one, so DO NOTHING
\* never keeps a row of a replaced block.
HotBelowLiveCheckpoint ==
  \A n \in Heights : db.hot.blocks[n] # NoHash => n <= db.liveCheckpoint

\* README, Hot/cold architecture: "Recent reorg-prone blocks live in hot storage;
\* matured blocks are promoted automatically into cold storage."  A block
\* is in one lane (the API adds up the rows of both, with UNION ALL).
OneLanePerBlock ==
  \A n \in Heights : db.cold.blocks[n] = NoHash \/ db.hot.blocks[n] = NoHash
=============================================================================
