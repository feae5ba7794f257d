------------------------------ MODULE Storage ------------------------------
(***************************************************************************)
(* crates/storage: the PostgreSQL tables and the transactions over them.   *)
(* An operator maps the database a transaction starts from to the one its  *)
(* COMMIT leaves; a transaction that fails, or whose process dies, leaves  *)
(* the database as it was.                                                 *)
(*                                                                         *)
(* A lane is one pair of tables, cold (erc20_transfers, indexed_blocks) or *)
(* hot (hot_erc20_transfers, hot_indexed_blocks).  blocks[n] is the hash   *)
(* stored for block n; transfers[n] the transfer rows with block_number n, *)
(* of which only the primary key and the block hash are kept.              *)
(***************************************************************************)
EXTENDS Chain

CONSTANT BLOCK_PARTITION_SIZE  \* heights in a partition of a transfers table

ASSUME PartitionAssumption == BLOCK_PARTITION_SIZE \in Nat \ {0}

VARIABLE db

Row == [key : Keys, block_hash : Hashes]
Lane == [blocks : [Heights -> HashOrNone], transfers : [Heights -> SUBSET Row]]
Database == [cold : Lane, hot : Lane, checkpoint : Heights, liveCheckpoint : Heights]

NoBlocks == [n \in Heights |-> NoHash]
NoTransfers == [n \in Heights |-> {}]
EmptyLane == [blocks |-> NoBlocks, transfers |-> NoTransfers]

\* Migrations 001 to 005: empty tables, both checkpoints at 0.
MigratedDatabase ==
  [cold |-> EmptyLane, hot |-> EmptyLane, checkpoint |-> 0, liveCheckpoint |-> 0]

-----------------------------------------------------------------------------
(* Statements. *)

\* Mutant: the partition of the last block is left out.
ensure_partitions_for_range_ButLast(first, last) ==
  {BLOCK_PARTITION_SIZE * k :
    k \in first \div BLOCK_PARTITION_SIZE .. Monus(last \div BLOCK_PARTITION_SIZE, 1)}

\* The first heights of the partitions made for a range of rows.
ensure_partitions_for_range_tx(first, last) ==
  {BLOCK_PARTITION_SIZE * k :
    k \in first \div BLOCK_PARTITION_SIZE .. last \div BLOCK_PARTITION_SIZE}

\* Those made for records: from their lowest height to their highest.
PartitionsFor(records) ==
  LET heights == {n \in Heights : records[n] # {}}
      lowest  == {m \in heights : \A n \in heights : m <= n}
      highest == {m \in heights : \A n \in heights : n <= m}
  IN  UNION {ensure_partitions_for_range_tx(first, last) : first \in lowest, last \in highest}

InPartition(n, p) == p <= n /\ n < p + BLOCK_PARTITION_SIZE

\* ON CONFLICT (txn_hash, log_index, block_number) DO NOTHING
insert_transfers_into_tx(lane, records) ==
  [blocks    |-> lane.blocks,
   transfers |-> [n \in Heights |->
                   lane.transfers[n] \cup
                     {r \in records[n] : \A q \in lane.transfers[n] : q.key # r.key}]]

\* ON CONFLICT (block_number) DO UPDATE
insert_blocks_into_tx(lane, indexed_blocks) ==
  [blocks    |-> [n \in Heights |->
                   IF indexed_blocks[n] # NoHash THEN indexed_blocks[n] ELSE lane.blocks[n]],
   transfers |-> lane.transfers]

\* Mutant: the transfers of the deleted blocks stay.
delete_range_from_lane_KeepsTransfers(lane, from) ==
  [blocks    |-> [n \in Heights |-> IF n >= from THEN NoHash ELSE lane.blocks[n]],
   transfers |-> lane.transfers]

delete_range_from_lane_tx(lane, from) ==
  [blocks    |-> [n \in Heights |-> IF n >= from THEN NoHash ELSE lane.blocks[n]],
   transfers |-> [n \in Heights |-> IF n >= from THEN {} ELSE lane.transfers[n]]]

delete_range_between_blocks_tx(lane, from, upto) ==
  [blocks    |-> [n \in Heights |-> IF n \in from .. upto THEN NoHash ELSE lane.blocks[n]],
   transfers |-> [n \in Heights |-> IF n \in from .. upto THEN {} ELSE lane.transfers[n]]]

-----------------------------------------------------------------------------
(* Transactions. *)

\* Mutant: the checkpoint is not written in the same transaction.
commit_finalized_range_NoCheckpoint(d, records, indexed_blocks, from, upto) ==
  [cold |-> insert_blocks_into_tx(insert_transfers_into_tx(d.cold, records), indexed_blocks),
   hot |-> delete_range_between_blocks_tx(d.hot, from, upto),
   checkpoint |-> d.checkpoint,
   liveCheckpoint |-> d.liveCheckpoint]

commit_finalized_range(d, records, indexed_blocks, from, upto) ==
  [cold |-> insert_blocks_into_tx(insert_transfers_into_tx(d.cold, records), indexed_blocks),
   hot |-> delete_range_between_blocks_tx(d.hot, from, upto),
   checkpoint |-> upto,
   liveCheckpoint |-> d.liveCheckpoint]

commit_hot_range(d, records, indexed_blocks, upto) ==
  [cold |-> d.cold,
   hot |-> insert_blocks_into_tx(insert_transfers_into_tx(d.hot, records), indexed_blocks),
   checkpoint |-> d.checkpoint,
   liveCheckpoint |-> upto]

\* Mutant: the checkpoints stay on the first deleted block.
rollback_from_block_OffByOne(d, n) ==
  [cold |-> delete_range_from_lane_tx(d.cold, n),
   hot |-> delete_range_from_lane_tx(d.hot, n),
   checkpoint |-> n,
   liveCheckpoint |-> n]

rollback_from_block(d, n) ==
  [cold |-> delete_range_from_lane_tx(d.cold, n),
   hot |-> delete_range_from_lane_tx(d.hot, n),
   checkpoint |-> Monus(n, 1),
   liveCheckpoint |-> Monus(n, 1)]

\* Mutant: the live checkpoint stays.
rollback_hot_from_block_KeepsCheckpoint(d, n) ==
  [cold |-> d.cold,
   hot |-> delete_range_from_lane_tx(d.hot, n),
   checkpoint |-> d.checkpoint,
   liveCheckpoint |-> d.liveCheckpoint]

\* Mutant: the live checkpoint goes one block too far down.
rollback_hot_from_block_OneBelow(d, n) ==
  [cold |-> d.cold,
   hot |-> delete_range_from_lane_tx(d.hot, n),
   checkpoint |-> d.checkpoint,
   liveCheckpoint |-> Monus(n, 2)]

rollback_hot_from_block(d, n) ==
  [cold |-> d.cold,
   hot |-> delete_range_from_lane_tx(d.hot, n),
   checkpoint |-> d.checkpoint,
   liveCheckpoint |-> Monus(n, 1)]

prune_hot_before_block(d, n) ==
  [cold |-> d.cold,
   hot |-> [blocks    |-> [m \in Heights |-> IF m < n THEN NoHash ELSE d.hot.blocks[m]],
            transfers |-> [m \in Heights |-> IF m < n THEN {} ELSE d.hot.transfers[m]]],
   checkpoint |-> d.checkpoint,
   liveCheckpoint |-> d.liveCheckpoint]
=============================================================================
