----------------------------- MODULE RangeBuild -----------------------------
(***************************************************************************)
(* build_range_payload of crates/ingestion, the part both workers share:   *)
(* the payload of a range of blocks as it is put together out of answers   *)
(* the provider gives at different times.                                  *)
(*                                                                         *)
(* Its constants are what the configuration gives both workers.            *)
(*                                                                         *)
(* A payload is a record: the range, the hash answered for each height so  *)
(* far (indexed_blocks) and the transfer records of each height.           *)
(***************************************************************************)
EXTENDS RpcClient, Storage

CONSTANTS
  StartBlock,                   \* START_BLOCK
  ReorgLookback,                \* REORG_LOOKBACK
  BLOCK_BATCH_SIZE,             \* blocks per range
  MAX_CONCURRENT_BLOCK_FETCHES  \* block requests in flight at once

ASSUME EngineAssumption ==
  /\ StartBlock \in Nat
  /\ ReorgLookback \in Nat
  /\ BLOCK_BATCH_SIZE \in Nat \ {0}
  /\ MAX_CONCURRENT_BLOCK_FETCHES \in Nat \ {0}

RangePayload ==
  [from : Nat, upto : Nat,
   indexed_blocks : [Heights -> HashOrNone],
   transfer_records : [Heights -> SUBSET Row]]

NewPayload(from, upto) ==
  [from |-> from, upto |-> upto,
   indexed_blocks |-> NoBlocks, transfer_records |-> NoTransfers]

NoPayload == NewPayload(0, 0)

\* The range that follows block tip and does not pass block last.
NextRange(from, last) == NewPayload(from, Smaller(from + BLOCK_BATCH_SIZE - 1, last))

\* buffered(MAX_CONCURRENT_BLOCK_FETCHES): requests start in order, at most so
\* many are past the first that has not been answered, answers come in any order.
InFlight(p) ==
  {n \in p.from .. p.upto :
    /\ p.indexed_blocks[n] = NoHash
    /\ \A m \in p.from .. n :
         p.indexed_blocks[m] = NoHash => n < m + MAX_CONCURRENT_BLOCK_FETCHES}

\* Mutant: the logs are asked for after the first answer.
AllFetched_Some(p) == \E n \in p.from .. p.upto : p.indexed_blocks[n] # NoHash

AllFetched(p) == \A n \in p.from .. p.upto : p.indexed_blocks[n] # NoHash

WithBlock(p, n) == [p EXCEPT !.indexed_blocks[n] = get_block_metadata(n)]

\* Each decoded log becomes a record under the hash fetched for its height; the
\* hash in the log itself is not read.
WithLogs(p) ==
  [p EXCEPT !.transfer_records =
    [n \in Heights |->
      IF n \in p.from .. p.upto
      THEN {[key |-> l.key, block_hash |-> p.indexed_blocks[n]] :
              l \in {m \in fetch_erc20_transfer_logs(n) : decode_erc20_transfer(m)}}
      ELSE {}]]
=============================================================================
