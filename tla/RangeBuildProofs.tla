-------------------------- MODULE RangeBuildProofs --------------------------
(***************************************************************************)
(* What the workers are built from: what the transactions of               *)
(* crates/storage leave behind, row by row, for every database they can    *)
(* start from, and what a payload holds after each answer.                 *)
(***************************************************************************)
EXTENDS RangeBuild, TLAPS, WellFoundedInduction

-----------------------------------------------------------------------------
(* The chain. *)

\* Every move leads to a chain of the tree.
LEMMA ChainMoves ==
  ASSUME ChainTypeOK, ChainNext
  PROVE  ChainTypeOK'
<1>1. \A c \in Chains : c.head \in Heights
  BY ChainsAssumption
<1>2. CASE Extend
  BY <1>1, <1>2, BoundsAssumption DEF ChainTypeOK, Extend, MoveTo, Larger, Monus, Heights
<1>3. CASE Reorg
  BY <1>1, <1>3, BoundsAssumption DEF ChainTypeOK, Reorg, MoveTo, Larger, Monus, Heights
<1> QED
  BY <1>2, <1>3 DEF ChainNext

\* It starts at one.
LEMMA ChainStarts == ChainInit => ChainTypeOK
BY BoundsAssumption, ChainsAssumption DEF ChainInit, ChainTypeOK, Heights, Monus

\* An extension keeps every block; anything else is counted.
LEMMA ChainExtends ==
  ASSUME ChainTypeOK, ChainNext, reorgs' = reorgs
  PROVE  /\ chain.head <= chain'.head
         /\ \A n \in Heights : chain.hash[n] # NoHash => chain'.hash[n] = chain.hash[n]
<1>1. /\ chain \in Chains /\ chain' \in Chains /\ reorgs \in Nat
      /\ chain.head \in Heights /\ chain'.head \in Heights
  BY ChainMoves, ChainsAssumption, BoundsAssumption DEF ChainTypeOK
<1>2. Extend
  BY <1>1 DEF ChainNext, Reorg
<1>3. /\ chain'.head > chain.head
      /\ \A n \in Heights : n <= chain.head => chain'.hash[n] = chain.hash[n]
  BY <1>1, <1>2, BoundsAssumption DEF Extend, MoveTo, Agrees, Heights
<1> QED
  BY <1>1, <1>3, ChainsAssumption, BoundsAssumption DEF Heights

\* Anything else is counted once.
LEMMA ReorgCounts ==
  ASSUME ChainTypeOK, ChainNext
  PROVE  reorgs' = reorgs \/ reorgs' = reorgs + 1
BY DEF ChainNext, Extend, Reorg
-----------------------------------------------------------------------------
(* Transactions. *)

\* Database e is d with the blocks stored in the cold lane, the checkpoint at upto,
\* and those records added whose key is not taken.
ColdCommitted(d, records, blocks, upto, e) ==
  /\ e \in Database
  /\ e.checkpoint = upto
  /\ \A n \in Heights :
       /\ e.cold.blocks[n] = IF blocks[n] # NoHash THEN blocks[n] ELSE d.cold.blocks[n]
       /\ e.cold.transfers[n] =
            d.cold.transfers[n] \cup
              {r \in records[n] : \A q \in d.cold.transfers[n] : q.key # r.key}

\* That is what commit_finalized_range does.
LEMMA CommitFinalizedEffect ==
  ASSUME NEW d \in Database,
         NEW records \in [Heights -> SUBSET Row],
         NEW blocks \in [Heights -> HashOrNone],
         NEW from \in Nat, NEW upto \in Heights
  PROVE  ColdCommitted(d, records, blocks, upto,
           commit_finalized_range(d, records, blocks, from, upto))
<1> DEFINE e == commit_finalized_range(d, records, blocks, from, upto)
           newBlocks == [n \in Heights |->
                           IF blocks[n] # NoHash THEN blocks[n] ELSE d.cold.blocks[n]]
           newRows == [n \in Heights |->
                         d.cold.transfers[n] \cup
                           {r \in records[n] : \A q \in d.cold.transfers[n] : q.key # r.key}]
<1>1. insert_blocks_into_tx(insert_transfers_into_tx(d.cold, records), blocks)
        = [blocks |-> newBlocks, transfers |-> newRows]
  BY DEF insert_blocks_into_tx, insert_transfers_into_tx
<1>2. [blocks |-> newBlocks, transfers |-> newRows] \in Lane
  <2>1. newBlocks \in [Heights -> HashOrNone]
    BY DEF Database, Lane
  <2>2. newRows \in [Heights -> SUBSET Row]
    BY DEF Database, Lane
  <2> QED
    BY <2>1, <2>2 DEF Lane
<1>3. delete_range_between_blocks_tx(d.hot, from, upto) \in Lane
  BY DEF delete_range_between_blocks_tx, Database, Lane, HashOrNone
<1>4. e = [cold |-> [blocks |-> newBlocks, transfers |-> newRows],
           hot |-> delete_range_between_blocks_tx(d.hot, from, upto),
           checkpoint |-> upto, liveCheckpoint |-> d.liveCheckpoint]
  BY <1>1 DEF commit_finalized_range
<1> HIDE DEF e
<1>5. e \in Database
  BY <1>2, <1>3, <1>4 DEF Database
<1>6. e.checkpoint = upto /\ e.cold.blocks = newBlocks /\ e.cold.transfers = newRows
  BY <1>4
<1> QED
  BY <1>5, <1>6 DEF e, ColdCommitted

\* Database e is d without the cold rows from block n on, its checkpoint below n.
ColdCut(d, n, e) ==
  /\ e \in Database
  /\ e.checkpoint = Monus(n, 1)
  /\ \A m \in Heights :
       /\ e.cold.blocks[m] = IF m >= n THEN NoHash ELSE d.cold.blocks[m]
       /\ e.cold.transfers[m] = IF m >= n THEN {} ELSE d.cold.transfers[m]

\* That is what rollback_from_block does.
LEMMA RollbackEffect ==
  ASSUME NEW d \in Database, NEW n \in Heights
  PROVE  ColdCut(d, n, rollback_from_block(d, n))
<1>1. Monus(n, 1) \in Heights
  BY BoundsAssumption DEF Monus, Heights
<1>2. /\ delete_range_from_lane_tx(d.cold, n) \in Lane
      /\ delete_range_from_lane_tx(d.hot, n) \in Lane
  BY DEF delete_range_from_lane_tx, Database, Lane, HashOrNone
<1> QED
  BY <1>1, <1>2 DEF ColdCut, rollback_from_block, delete_range_from_lane_tx, Database

\* Seen in the hot lane's blocks and the live checkpoint, database e is d ...

\* ... without the blocks below n,
HotPruned(d, n, e) ==
  /\ e \in Database
  /\ e.liveCheckpoint = d.liveCheckpoint
  /\ \A m \in Heights : e.hot.blocks[m] = IF m < n THEN NoHash ELSE d.hot.blocks[m]

\* ... without the blocks from n on, the checkpoint below n,
HotCut(d, n, e) ==
  /\ e \in Database
  /\ e.liveCheckpoint = Monus(n, 1)
  /\ \A m \in Heights : e.hot.blocks[m] = IF m >= n THEN NoHash ELSE d.hot.blocks[m]

\* ... with the blocks stored and the checkpoint at upto,
HotCommitted(d, blocks, upto, e) ==
  /\ e \in Database
  /\ e.liveCheckpoint = upto
  /\ \A m \in Heights :
       e.hot.blocks[m] = IF blocks[m] # NoHash THEN blocks[m] ELSE d.hot.blocks[m]

\* ... without some of its blocks.
HotThinned(d, e) ==
  /\ e \in Database
  /\ e.liveCheckpoint = d.liveCheckpoint
  /\ \A m \in Heights : e.hot.blocks[m] \in {NoHash, d.hot.blocks[m]}

\* The rows of hot block m are gone, or are there as before beside the same block.
RowsKeptOrGone(d, e, m) ==
  \/ e.hot.transfers[m] = {}
  \/ e.hot.transfers[m] = d.hot.transfers[m] /\ e.hot.blocks[m] = d.hot.blocks[m]

\* What prune_hot_before_block does.
LEMMA PruneHotEffect ==
  ASSUME NEW d \in Database, NEW n \in Nat
  PROVE  LET e == prune_hot_before_block(d, n) IN
           /\ HotPruned(d, n, e)
           /\ e.cold = d.cold /\ e.checkpoint = d.checkpoint
           /\ \A m \in Heights : RowsKeptOrGone(d, e, m)
BY DEF prune_hot_before_block, HotPruned, RowsKeptOrGone, Database, Lane, HashOrNone

\* What rollback_hot_from_block does.
LEMMA RollbackHotEffect ==
  ASSUME NEW d \in Database, NEW n \in Heights
  PROVE  LET e == rollback_hot_from_block(d, n) IN
           /\ HotCut(d, n, e)
           /\ e.cold = d.cold /\ e.checkpoint = d.checkpoint
           /\ \A m \in Heights : RowsKeptOrGone(d, e, m)
<1>1. Monus(n, 1) \in Heights
  BY BoundsAssumption DEF Monus, Heights
<1> QED
  BY <1>1
     DEF rollback_hot_from_block, delete_range_from_lane_tx, HotCut, RowsKeptOrGone,
         Database, Lane, HashOrNone

\* What commit_hot_range does.
LEMMA CommitHotEffect ==
  ASSUME NEW d \in Database,
         NEW records \in [Heights -> SUBSET Row],
         NEW blocks \in [Heights -> HashOrNone],
         NEW upto \in Heights
  PROVE  LET e == commit_hot_range(d, records, blocks, upto) IN
           /\ HotCommitted(d, blocks, upto, e)
           /\ e.cold = d.cold /\ e.checkpoint = d.checkpoint
           /\ \A m \in Heights : e.hot.transfers[m] \subseteq d.hot.transfers[m] \cup records[m]
<1> DEFINE e == commit_hot_range(d, records, blocks, upto)
           newBlocks == [n \in Heights |->
                           IF blocks[n] # NoHash THEN blocks[n] ELSE d.hot.blocks[n]]
           newRows == [n \in Heights |->
                         d.hot.transfers[n] \cup
                           {r \in records[n] : \A q \in d.hot.transfers[n] : q.key # r.key}]
<1>1. e = [cold |-> d.cold, hot |-> [blocks |-> newBlocks, transfers |-> newRows],
           checkpoint |-> d.checkpoint, liveCheckpoint |-> upto]
  BY DEF commit_hot_range, insert_blocks_into_tx, insert_transfers_into_tx
<1>2. newBlocks \in [Heights -> HashOrNone] /\ newRows \in [Heights -> SUBSET Row]
  BY DEF Database, Lane
<1>3. /\ \A m \in Heights : newRows[m] \subseteq d.hot.transfers[m] \cup records[m]
      /\ \A m \in Heights : newBlocks[m] = IF blocks[m] # NoHash THEN blocks[m] ELSE d.hot.blocks[m]
  OBVIOUS
<1> HIDE DEF newBlocks, newRows, e
<1>4. /\ e \in Database /\ e.liveCheckpoint = upto
      /\ e.cold = d.cold /\ e.checkpoint = d.checkpoint
      /\ e.hot.blocks = newBlocks /\ e.hot.transfers = newRows
  BY <1>1, <1>2 DEF Database, Lane
<1> QED
  BY <1>3, <1>4 DEF HotCommitted, e

\* The migrated database is a database.
LEMMA MigratedEffect == MigratedDatabase \in Database
BY BoundsAssumption
   DEF MigratedDatabase, Database, Lane, EmptyLane, NoBlocks, NoTransfers, HashOrNone, Heights

-----------------------------------------------------------------------------
(* Partitions. *)

\* Integer division by a partition's size rounds down to its partition.
LEMMA DivBounds ==
  ASSUME NEW n \in Nat, NEW size \in Nat \ {0}
  PROVE  /\ n \div size \in Nat
         /\ size * (n \div size) <= n
         /\ n < size * (n \div size) + size
OBVIOUS

\* It keeps the order.
LEMMA DivMonotone ==
  ASSUME NEW m \in Nat, NEW n \in Nat, NEW size \in Nat \ {0}, m <= n
  PROVE  m \div size <= n \div size
OBVIOUS

\* A set of naturals that has an element has a least one.
LEMMA LeastOf ==
  ASSUME NEW T, T \subseteq Nat, T # {}
  PROVE  \E m \in T : \A n \in T : m <= n
<1>1. PICK m \in T : \A n \in T : ~ (<<n, m>> \in OpToRel(<, Nat))
  BY WFMin, NatLessThanWellFounded
<1>2. \A n \in T : ~ (n < m)
  BY <1>1 DEF OpToRel
<1> QED
  BY <1>2

\* A set of heights that has an element has a greatest one.
LEMMA GreatestOf ==
  ASSUME NEW T, T \subseteq Heights, T # {}
  PROVE  \E m \in T : \A n \in T : n <= m
<1> DEFINE below == {d \in Nat : MaxBlock - d \in T}
<1>1. \A n \in T : n \in Nat /\ n <= MaxBlock
  BY BoundsAssumption DEF Heights
<1>2. PICK t \in T : TRUE
  OBVIOUS
<1>3. MaxBlock - t \in Nat /\ MaxBlock - (MaxBlock - t) = t
  BY <1>1, BoundsAssumption
<1>4. below \subseteq Nat /\ below # {}
  BY <1>3
<1>5. PICK d \in below : \A e \in below : d <= e
  <2> HIDE DEF below
  <2> QED
    BY <1>4, LeastOf
<1>6. ASSUME NEW n \in T
      PROVE  n <= MaxBlock - d
  <2>1. n \in Nat /\ n <= MaxBlock /\ MaxBlock \in Nat
    BY <1>1, BoundsAssumption
  <2>2. MaxBlock - n \in Nat /\ MaxBlock - (MaxBlock - n) = n
    BY <2>1
  <2>3. d <= MaxBlock - n
    BY <1>5, <2>2
  <2> QED
    BY <2>1, <2>3
<1> QED
  BY <1>5, <1>6

\* ensure_partitions_for_range_tx makes the partition of every height of its range.
LEMMA PartitionsCoverRange ==
  ASSUME NEW first \in Nat, NEW last \in Nat, NEW n \in first .. last
  PROVE  \E p \in ensure_partitions_for_range_tx(first, last) : InPartition(n, p)
<1> DEFINE k == n \div BLOCK_PARTITION_SIZE
<1>1. n \in Nat /\ first <= n /\ n <= last
  OBVIOUS
<1>2. k \in Nat /\ first \div BLOCK_PARTITION_SIZE \in Nat
        /\ last \div BLOCK_PARTITION_SIZE \in Nat
  BY <1>1, DivBounds, PartitionAssumption
<1>3. first \div BLOCK_PARTITION_SIZE <= k /\ k <= last \div BLOCK_PARTITION_SIZE
  BY <1>1, DivMonotone, PartitionAssumption
<1>4. k \in first \div BLOCK_PARTITION_SIZE .. last \div BLOCK_PARTITION_SIZE
  BY <1>2, <1>3
<1>5. BLOCK_PARTITION_SIZE * k \in ensure_partitions_for_range_tx(first, last)
  BY <1>4 DEF ensure_partitions_for_range_tx
<1>6. InPartition(n, BLOCK_PARTITION_SIZE * k)
  BY <1>1, DivBounds, PartitionAssumption DEF InPartition
<1> QED
  BY <1>5, <1>6

\* Every record has its partition before insert_transfers_into_tx inserts it.
LEMMA PartitionsCoverRecords ==
  ASSUME NEW records, NEW n \in Heights, records[n] # {}
  PROVE  \E p \in PartitionsFor(records) : InPartition(n, p)
<1> DEFINE heights == {m \in Heights : records[m] # {}}
<1>1. heights \subseteq Heights /\ heights # {} /\ heights \subseteq Nat
  BY BoundsAssumption DEF Heights
<1>2. PICK first \in heights : \A m \in heights : first <= m
  BY <1>1, LeastOf
<1>3. PICK last \in heights : \A m \in heights : m <= last
  BY <1>1, GreatestOf
<1>4. first \in Nat /\ last \in Nat /\ n \in first .. last
  BY <1>1, <1>2, <1>3
<1>5. PICK p \in ensure_partitions_for_range_tx(first, last) : InPartition(n, p)
  BY <1>4, PartitionsCoverRange
<1>6. p \in PartitionsFor(records)
  BY <1>2, <1>3, <1>5 DEF PartitionsFor
<1> QED
  BY <1>5, <1>6
-----------------------------------------------------------------------------
(* Payloads. *)

\* A new payload is an empty one over a range of at most a batch.
LEMMA NextRangeEffect ==
  ASSUME NEW from \in Nat, NEW last \in Heights, from <= last
  PROVE  LET p == NextRange(from, last) IN
           /\ p \in RangePayload
           /\ p.from = from
           /\ p.upto \in Heights /\ from <= p.upto /\ p.upto <= last
           /\ p.upto <= from + BLOCK_BATCH_SIZE - 1
           /\ \A n \in Heights : p.indexed_blocks[n] = NoHash /\ p.transfer_records[n] = {}
<1>1. /\ Smaller(from + BLOCK_BATCH_SIZE - 1, last) \in from .. last
      /\ Smaller(from + BLOCK_BATCH_SIZE - 1, last) <= from + BLOCK_BATCH_SIZE - 1
  BY EngineAssumption, BoundsAssumption DEF Smaller, Heights
<1>2. NoBlocks \in [Heights -> HashOrNone] /\ NoTransfers \in [Heights -> SUBSET Row]
  BY DEF NoBlocks, NoTransfers, HashOrNone
<1> QED
  BY <1>1, <1>2, BoundsAssumption
     DEF NextRange, NewPayload, RangePayload, Heights, NoBlocks, NoTransfers

\* No payload is a payload.
LEMMA NoPayloadType == NoPayload \in RangePayload
BY DEF NoPayload, NewPayload, RangePayload, NoBlocks, NoTransfers, HashOrNone

\* A chain answers every height with a hash or with nothing.
LEMMA AnswerType ==
  ASSUME chain \in Chains, NEW n \in Heights
  PROVE  /\ get_block_metadata(n) \in HashOrNone
         /\ chain.head \in Heights
         /\ get_block_metadata(n) # NoHash <=> n <= chain.head
BY ChainsAssumption DEF get_block_metadata

\* An answer changes one entry of the payload.
LEMMA WithBlockEffect ==
  ASSUME NEW p \in RangePayload, NEW n \in Heights, chain \in Chains
  PROVE  LET q == WithBlock(p, n) IN
           /\ q \in RangePayload
           /\ q.from = p.from /\ q.upto = p.upto
           /\ q.transfer_records = p.transfer_records
           /\ \A m \in Heights :
                q.indexed_blocks[m] =
                  IF m = n THEN get_block_metadata(n) ELSE p.indexed_blocks[m]
BY AnswerType DEF WithBlock, RangePayload

\* The logs give records under the payload's own hashes, in its range only.
LEMMA WithLogsEffect ==
  ASSUME NEW p \in RangePayload, p.upto \in Heights, AllFetched(p), chain \in Chains
  PROVE  LET q == WithLogs(p) IN
           /\ q \in RangePayload
           /\ q.from = p.from /\ q.upto = p.upto
           /\ q.indexed_blocks = p.indexed_blocks
           /\ \A n \in Heights :
                q.transfer_records[n] =
                  IF n \in p.from .. p.upto
                  THEN {[key |-> l.key, block_hash |-> p.indexed_blocks[n]] :
                          l \in {m \in fetch_erc20_transfer_logs(n) : decode_erc20_transfer(m)}}
                  ELSE {}
<1> DEFINE recs(n) == {[key |-> l.key, block_hash |-> p.indexed_blocks[n]] :
                         l \in {m \in fetch_erc20_transfer_logs(n) : decode_erc20_transfer(m)}}
           rows == [n \in Heights |-> IF n \in p.from .. p.upto THEN recs(n) ELSE {}]
<1>1. \A n \in Heights : n \in p.from .. p.upto => recs(n) \subseteq Row
  <2> SUFFICES ASSUME NEW n \in Heights, n \in p.from .. p.upto
               PROVE  recs(n) \subseteq Row
    OBVIOUS
  <2>1. p.indexed_blocks[n] \in Hashes
    BY DEF AllFetched, RangePayload, HashOrNone
  <2>2. \A l \in fetch_erc20_transfer_logs(n) : l.key \in Keys
    <3>1. chain.hash[n] \in Hashes => \A l \in Logs[chain.hash[n]] : l.key \in Keys
      BY LogsAssumption DEF Log
    <3>2. chain.hash[n] \in HashOrNone
      BY ChainsAssumption
    <3> QED
      BY <3>1, <3>2 DEF fetch_erc20_transfer_logs, LogsMatching, HashOrNone
  <2> QED
    BY <2>1, <2>2 DEF Row
<1>2. rows \in [Heights -> SUBSET Row]
  BY <1>1
<1>3. WithLogs(p) = [p EXCEPT !.transfer_records = rows]
  BY DEF WithLogs
<1> HIDE DEF rows
<1>4. /\ WithLogs(p) \in RangePayload
      /\ WithLogs(p).from = p.from /\ WithLogs(p).upto = p.upto
      /\ WithLogs(p).indexed_blocks = p.indexed_blocks
      /\ WithLogs(p).transfer_records = rows
  BY <1>2, <1>3 DEF RangePayload
<1> QED
  BY <1>4 DEF rows

\* So each record carries the hash of its height.
LEMMA WithLogsHashes ==
  ASSUME NEW p \in RangePayload, p.upto \in Heights, AllFetched(p), chain \in Chains
  PROVE  LET q == WithLogs(p) IN
           /\ q \in RangePayload
           /\ q.from = p.from /\ q.upto = p.upto
           /\ q.indexed_blocks = p.indexed_blocks
           /\ \A n \in Heights : \A r \in q.transfer_records[n] :
                r.block_hash = p.indexed_blocks[n]
<1> DEFINE q == WithLogs(p)
<1>1. /\ q \in RangePayload
      /\ q.from = p.from /\ q.upto = p.upto
      /\ q.indexed_blocks = p.indexed_blocks
  BY WithLogsEffect
<1>2. ASSUME NEW n \in Heights, NEW r \in q.transfer_records[n]
      PROVE  r.block_hash = p.indexed_blocks[n]
  <2> DEFINE transfers == {m \in fetch_erc20_transfer_logs(n) : decode_erc20_transfer(m)}
  <2>1. q.transfer_records[n] =
          IF n \in p.from .. p.upto
          THEN {[key |-> l.key, block_hash |-> p.indexed_blocks[n]] : l \in transfers}
          ELSE {}
    BY WithLogsEffect
  <2> HIDE DEF transfers, q
  <2>2. PICK l \in transfers : r = [key |-> l.key, block_hash |-> p.indexed_blocks[n]]
    BY <1>2, <2>1
  <2> QED
    BY <2>2
<1> QED
  BY <1>1, <1>2
=============================================================================
