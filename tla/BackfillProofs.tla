--------------------------- MODULE BackfillProofs ---------------------------
(***************************************************************************)
(* Theorems about the backfill worker, for every block tree, every depth   *)
(* of reorganization and every configuration with START_BLOCK at least 1.  *)
(*                                                                         *)
(* IInv is inductive: it says what the cold lane holds and, for each await *)
(* the worker can be at, what its locals know about the lane.  Nothing is  *)
(* said of the hot lane.  JInv, inductive given IInv, relates what is      *)
(* stored to the chain as long as it has reorganized at most once.         *)
(*                                                                         *)
(* ColdNext is what a step of any process that contains the worker may do. *)
(* The invariants are shown to survive ColdNext, so that they hold of the  *)
(* worker alone and, in IndexerProofs, of the hybrid process.              *)
(***************************************************************************)
EXTENDS BackfillProperties, RangeBuildProofs

\* The range a worker is building follows the checkpoint, is a batch at most, ends at
\* a block that exists, and holds nothing outside itself; its records carry its hashes.
RangeInv ==
  bpc \in {"fetch", "logs", "validate", "commit"} =>
    /\ bpayload.from = Larger(db.checkpoint + 1, StartBlock)
    /\ bpayload.upto \in Heights
    /\ bpayload.from <= bpayload.upto
    /\ bpayload.upto <= bpayload.from + BLOCK_BATCH_SIZE - 1
    /\ \A n \in Heights :
         n \notin bpayload.from .. bpayload.upto => bpayload.indexed_blocks[n] = NoHash
    /\ \A n \in Heights : \A r \in bpayload.transfer_records[n] :
         r.block_hash = bpayload.indexed_blocks[n]

FetchedInv == bpc \in {"logs", "validate", "commit"} => AllFetched(bpayload)

\* The revalidation loop stays inside the lane.
CursorInv ==
  /\ bpc \in {"reconcile", "rollback"} => StartBlock <= bcursor /\ bcursor <= db.checkpoint
  /\ bpc = "reconcile" => bend = db.checkpoint

IInv ==
  /\ BackfillTypeOK
  /\ ColdContiguous
  /\ ColdRowsBelongToBlocks
  /\ RangeInv
  /\ FetchedInv
  /\ CursorInv

\* The worker reads, and keeps the database as it is.
ColdReads ==
  ReadLatest \/ ReconcileMatch \/ ReconcileMismatch \/ Plan \/ Fetch \/ FetchLogs \/ Validate

\* It commits a range to the cold lane, whatever becomes of the hot one.
ColdCommits ==
  /\ bpc = "commit"
  /\ ColdCommitted(db, bpayload.transfer_records, bpayload.indexed_blocks, bpayload.upto, db')
  /\ BackfillGoTo("latest")

\* It rolls the cold lane back, whatever becomes of the hot one.
ColdCuts ==
  /\ bpc = "rollback"
  /\ ColdCut(db, bcursor, db')
  /\ BackfillGoTo("latest")

\* It ends or starts again.
ColdExits == (\E pc \in {"latest", "down"} : BackfillGoTo(pc)) /\ UNCHANGED db

\* The database changes outside the cold lane and its checkpoint, or not at all.
ColdSpared ==
  /\ db' \in Database
  /\ db'.cold = db.cold /\ db'.checkpoint = db.checkpoint
  /\ UNCHANGED bvars

ColdNext ==
  \/ (ColdReads \/ ColdCommits \/ ColdCuts \/ ColdExits \/ ColdSpared) /\ UNCHANGED chainVars
  \/ ChainNext /\ UNCHANGED <<db, bvars>>

-----------------------------------------------------------------------------
(* Each part of the next-state relation preserves IInv. *)

\* Where the worker carries nothing along, its locals satisfy IInv.
LEMMA GoToInv ==
  ASSUME NEW pc \in {"latest", "down"}, BackfillGoTo(pc)
  PROVE  /\ bpc' \in {"latest", "down"}
         /\ blatest' \in Heights /\ bcursor' \in Heights /\ bend' \in Heights
         /\ bpayload' \in RangePayload
         /\ RangeInv' /\ FetchedInv' /\ CursorInv'
BY NoPayloadType, BoundsAssumption
   DEF BackfillGoTo, RangeInv, FetchedInv, CursorInv, Heights

\* The migrated database and a worker about to start.
LEMMA InitInv ==
  ASSUME StartBlock >= 1, BackfillInit
  PROVE  IInv
<1>1. BackfillTypeOK
  <2>1. ChainTypeOK
    BY ChainStarts DEF BackfillInit
  <2> QED
    BY <2>1, MigratedEffect, NoPayloadType, BoundsAssumption
       DEF BackfillInit, BackfillLocalsInit, BackfillTypeOK, Heights
<1>2. ColdContiguous /\ ColdRowsBelongToBlocks
  BY EngineAssumption, BoundsAssumption
     DEF BackfillInit, MigratedDatabase, EmptyLane, NoBlocks, NoTransfers,
         ColdContiguous, ColdRowsBelongToBlocks, Heights
<1>3. RangeInv /\ FetchedInv /\ CursorInv
  BY DEF BackfillInit, BackfillLocalsInit, RangeInv, FetchedInv, CursorInv
<1> QED
  BY <1>1, <1>2, <1>3 DEF IInv

\* The chain moves by itself.
LEMMA ChainPreserves ==
  ASSUME IInv, ChainNext, UNCHANGED <<db, bvars>>
  PROVE  IInv'
<1>1. ChainTypeOK'
  BY ChainMoves DEF IInv, BackfillTypeOK
<1>2. UNCHANGED <<db, bpc, blatest, bcursor, bend, bpayload>>
  BY DEF bvars
<1> QED
  BY <1>1, <1>2
     DEF IInv, BackfillTypeOK, ColdContiguous, ColdRowsBelongToBlocks, RangeInv,
         FetchedInv, AllFetched, CursorInv

\* The worker ends or starts again; the database stays.
LEMMA ExitPreserves ==
  ASSUME IInv, NEW pc \in {"latest", "down"}, BackfillGoTo(pc),
         UNCHANGED <<db, chain, settled, reorgs>>
  PROVE  IInv'
BY GoToInv
   DEF IInv, BackfillTypeOK, ChainTypeOK, ColdContiguous, ColdRowsBelongToBlocks

\* rollback_from_block cuts the lane and moves the checkpoint below the cut.
LEMMA RollbackPreserves ==
  ASSUME IInv, StartBlock >= 1, ColdCuts, UNCHANGED chainVars
  PROVE  IInv'
<1> USE DEF ColdCuts
<1>1. /\ bcursor \in Heights /\ StartBlock <= bcursor /\ bcursor <= db.checkpoint
      /\ db \in Database
  BY DEF IInv, BackfillTypeOK, CursorInv
<1>2. ColdCut(db, bcursor, db') /\ Monus(bcursor, 1) = bcursor - 1
  BY <1>1, EngineAssumption, BoundsAssumption DEF Monus, Heights
<1>3. ColdContiguous'
  <2>1. db.checkpoint \in Heights
    BY <1>1 DEF Database
  <2> QED
    BY <1>1, <1>2, <2>1, EngineAssumption, BoundsAssumption
       DEF IInv, ColdContiguous, ColdCut, Heights
<1>4. ColdRowsBelongToBlocks'
  BY <1>2 DEF IInv, ColdRowsBelongToBlocks, ColdCut
<1>5. BackfillTypeOK' /\ RangeInv' /\ FetchedInv' /\ CursorInv'
  BY <1>2, GoToInv DEF IInv, BackfillTypeOK, ChainTypeOK, chainVars, ColdCut
<1> QED
  BY <1>3, <1>4, <1>5 DEF IInv

\* A commit writes its range into rows that are empty, and nothing else.
LEMMA CommitEffect ==
  ASSUME IInv, ColdCommits
  PROVE  LET p == bpayload IN
           /\ db' \in Database
           /\ db'.checkpoint = p.upto
           /\ p.upto \in Heights
           /\ p.from = Larger(db.checkpoint + 1, StartBlock)
           /\ p.from <= p.upto /\ p.upto <= p.from + BLOCK_BATCH_SIZE - 1
           /\ \A n \in Heights :
                IF n \in p.from .. p.upto
                THEN /\ db'.cold.blocks[n] = p.indexed_blocks[n]
                     /\ db'.cold.blocks[n] \in Hashes
                     /\ db'.cold.transfers[n] = p.transfer_records[n]
                     /\ \A r \in db'.cold.transfers[n] : r.block_hash = db'.cold.blocks[n]
                ELSE /\ db'.cold.blocks[n] = db.cold.blocks[n]
                     /\ db'.cold.transfers[n] = db.cold.transfers[n]
<1> DEFINE p == bpayload
<1>1. /\ p \in RangePayload /\ db \in Database /\ db.checkpoint \in Heights
      /\ p.transfer_records \in [Heights -> SUBSET Row]
      /\ p.indexed_blocks \in [Heights -> HashOrNone]
      /\ p.from \in Nat
  BY DEF IInv, BackfillTypeOK, RangePayload, Database
<1>2. /\ p.from = Larger(db.checkpoint + 1, StartBlock)
      /\ p.upto \in Heights /\ p.from <= p.upto
      /\ p.upto <= p.from + BLOCK_BATCH_SIZE - 1
      /\ \A n \in Heights : p.indexed_blocks[n] # NoHash <=> n \in p.from .. p.upto
      /\ \A n \in Heights : \A r \in p.transfer_records[n] :
           r.block_hash = p.indexed_blocks[n]
  BY <1>1, BoundsAssumption DEF ColdCommits, IInv, RangeInv, FetchedInv, AllFetched, Heights
<1>3. ColdCommitted(db, p.transfer_records, p.indexed_blocks, p.upto, db')
  BY DEF ColdCommits
<1> HIDE DEF p
<1>4. ASSUME NEW n \in Heights, n \in p.from .. p.upto
      PROVE  db.cold.transfers[n] = {}
  <2>1. db.cold.blocks[n] = NoHash
    BY <1>1, <1>2, <1>4, EngineAssumption, BoundsAssumption
       DEF IInv, ColdContiguous, Larger, Heights
  <2>2. \A r \in db.cold.transfers[n] : r.block_hash \in Hashes
    BY <1>1 DEF Database, Lane, Row
  <2> QED
    BY <2>1, <2>2, ChainsAssumption DEF IInv, ColdRowsBelongToBlocks
<1>5. ASSUME NEW n \in Heights, n \in p.from .. p.upto
      PROVE  /\ db'.cold.blocks[n] = p.indexed_blocks[n]
             /\ db'.cold.blocks[n] \in Hashes
             /\ db'.cold.transfers[n] = p.transfer_records[n]
             /\ \A r \in db'.cold.transfers[n] : r.block_hash = db'.cold.blocks[n]
  <2>1. /\ db'.cold.blocks[n] = p.indexed_blocks[n]
        /\ db'.cold.transfers[n] = p.transfer_records[n]
    <3>1. p.indexed_blocks[n] # NoHash
      BY <1>2, <1>5
    <3>2. db'.cold.blocks[n] = p.indexed_blocks[n]
      BY <1>3, <3>1 DEF ColdCommitted
    <3>3. db'.cold.transfers[n] = {r \in p.transfer_records[n] : \A q \in {} : q.key # r.key}
      <4>1. db'.cold.transfers[n] =
              db.cold.transfers[n] \cup
                {r \in p.transfer_records[n] : \A q \in db.cold.transfers[n] : q.key # r.key}
        BY <1>3 DEF ColdCommitted
      <4> QED
        BY <1>4, <1>5, <4>1
    <3> QED
      BY <3>2, <3>3
  <2>2. p.indexed_blocks[n] \in Hashes
    BY <1>1, <1>2, <1>5 DEF HashOrNone
  <2> QED
    BY <1>2, <2>1, <2>2
<1>6. ASSUME NEW n \in Heights, n \notin p.from .. p.upto
      PROVE  /\ db'.cold.blocks[n] = db.cold.blocks[n]
             /\ db'.cold.transfers[n] = db.cold.transfers[n]
  <2>1. p.transfer_records[n] = {}
    BY <1>1, <1>2, <1>6, ChainsAssumption DEF Row
  <2>2. p.indexed_blocks[n] = NoHash
    BY <1>2, <1>6
  <2>3. db'.cold.blocks[n] = db.cold.blocks[n]
    BY <1>3, <2>2 DEF ColdCommitted
  <2>4. db'.cold.transfers[n] =
          db.cold.transfers[n] \cup
            {r \in p.transfer_records[n] : \A q \in db.cold.transfers[n] : q.key # r.key}
    BY <1>3 DEF ColdCommitted
  <2> QED
    BY <2>1, <2>3, <2>4
<1>7. db' \in Database /\ db'.checkpoint = p.upto
  BY <1>3 DEF ColdCommitted
<1> QED
  BY <1>2, <1>5, <1>6, <1>7 DEF p

\* commit_finalized_range extends the lane by the range that follows it.
LEMMA CommitPreserves ==
  ASSUME IInv, StartBlock >= 1, ColdCommits, UNCHANGED chainVars
  PROVE  IInv'
<1>1. /\ db \in Database /\ db.checkpoint \in Heights /\ bpayload.from \in Nat
      /\ BackfillGoTo("latest") /\ UNCHANGED <<chain, settled, reorgs>>
  BY DEF IInv, BackfillTypeOK, RangePayload, Database, ColdCommits, chainVars
<1>2. ColdContiguous'
  <2> SUFFICES ASSUME NEW n \in Heights
               PROVE  db'.cold.blocks[n] # NoHash <=> StartBlock <= n /\ n <= db'.checkpoint
    BY DEF ColdContiguous
  <2>1. db.cold.blocks[n] # NoHash <=> StartBlock <= n /\ n <= db.checkpoint
    BY DEF IInv, ColdContiguous
  <2>2. /\ db'.checkpoint = bpayload.upto /\ bpayload.upto \in Heights
        /\ bpayload.from = Larger(db.checkpoint + 1, StartBlock)
        /\ bpayload.from <= bpayload.upto
        /\ n \in bpayload.from .. bpayload.upto => db'.cold.blocks[n] # NoHash
        /\ n \notin bpayload.from .. bpayload.upto =>
             db'.cold.blocks[n] = db.cold.blocks[n]
    BY CommitEffect, ChainsAssumption
  <2>3. \/ n \in bpayload.from .. bpayload.upto
        \/ n < bpayload.from /\ (n <= db.checkpoint \/ n < StartBlock)
        \/ n > bpayload.upto /\ n > db.checkpoint
    BY <1>1, <2>2, EngineAssumption, BoundsAssumption DEF Larger, Heights
  <2>4. StartBlock <= bpayload.from /\ bpayload.from > db.checkpoint
    BY <1>1, <2>2, EngineAssumption, BoundsAssumption DEF Larger, Heights
  <2> QED
    BY <1>1, <2>1, <2>2, <2>3, <2>4, EngineAssumption, BoundsAssumption DEF Heights
<1>3. ColdRowsBelongToBlocks'
  BY CommitEffect DEF IInv, ColdRowsBelongToBlocks
<1>4. db' \in Database
  BY CommitEffect
<1>5. BackfillTypeOK' /\ RangeInv' /\ FetchedInv' /\ CursorInv'
  BY <1>1, <1>4, GoToInv DEF IInv, BackfillTypeOK, ChainTypeOK
<1> QED
  BY <1>2, <1>3, <1>5 DEF IInv

\* The revalidation loop starts inside the lane.
LEMMA ReadLatestPreserves ==
  ASSUME IInv, ReadLatest, UNCHANGED chainVars
  PROVE  IInv'
<1> USE DEF ReadLatest
<1>1. /\ chain \in Chains /\ db.checkpoint \in Heights
      /\ blatest \in Heights /\ bcursor \in Heights /\ bend \in Heights
  BY DEF IInv, BackfillTypeOK, ChainTypeOK, Database
<1>2. blatest' \in Heights
  BY <1>1, ChainsAssumption DEF get_latest_block_number
<1>3. CASE db.checkpoint >= StartBlock
  <2>1. /\ validation_start(db.checkpoint) \in Heights
        /\ StartBlock <= validation_start(db.checkpoint)
        /\ validation_start(db.checkpoint) <= db.checkpoint
    BY <1>1, <1>3, EngineAssumption, ConfirmationAssumption, BoundsAssumption
       DEF validation_start, lookback, Larger, Monus, Heights
  <2> QED
    BY <1>1, <1>2, <1>3, <2>1
       DEF IInv, BackfillTypeOK, ChainTypeOK, ColdContiguous, ColdRowsBelongToBlocks,
           RangeInv, FetchedInv, CursorInv, chainVars
<1>4. CASE ~(db.checkpoint >= StartBlock)
  BY <1>1, <1>2, <1>4
     DEF IInv, BackfillTypeOK, ChainTypeOK, ColdContiguous, ColdRowsBelongToBlocks,
         RangeInv, FetchedInv, CursorInv, chainVars
<1> QED
  BY <1>3, <1>4

\* The revalidation loop moves on inside the lane, or stops at a block of it.
LEMMA ReconcilePreserves ==
  ASSUME IInv, ReconcileMatch \/ ReconcileMismatch, UNCHANGED chainVars
  PROVE  IInv'
<1>1. /\ bcursor \in Heights /\ StartBlock <= bcursor /\ bcursor <= db.checkpoint
      /\ bend = db.checkpoint /\ db.checkpoint \in Heights
  BY DEF IInv, BackfillTypeOK, CursorInv, Database, ReconcileMatch, ReconcileMismatch
<1>2. /\ 0 \in Heights
      /\ bcursor < bend => bcursor + 1 \in Heights /\ StartBlock <= bcursor + 1
                           /\ bcursor + 1 <= db.checkpoint
  BY <1>1, BoundsAssumption, EngineAssumption DEF Heights
<1>3. CASE ReconcileMatch
  BY <1>1, <1>2, <1>3
     DEF ReconcileMatch, IInv, BackfillTypeOK, ChainTypeOK, ColdContiguous,
         ColdRowsBelongToBlocks, RangeInv, FetchedInv, CursorInv, chainVars
<1>4. CASE ReconcileMismatch
  BY <1>1, <1>2, <1>4
     DEF ReconcileMismatch, IInv, BackfillTypeOK, ChainTypeOK, ColdContiguous,
         ColdRowsBelongToBlocks, RangeInv, FetchedInv, CursorInv, chainVars
<1> QED
  BY <1>3, <1>4

\* The planned range follows the checkpoint.
LEMMA PlanPreserves ==
  ASSUME IInv, Plan, UNCHANGED chainVars
  PROVE  IInv'
<1> DEFINE next == Larger(db.checkpoint + 1, StartBlock)
<1>1. db.checkpoint \in Heights /\ blatest \in Heights /\ db' = db
  BY DEF IInv, BackfillTypeOK, Database, Plan
<1>2. CASE next <= safe_head(blatest)
  <2>1. next \in Nat /\ safe_head(blatest) \in Heights
    BY <1>1, EngineAssumption, ConfirmationAssumption, BoundsAssumption
       DEF Larger, safe_head, Monus, Heights
  <2>2. /\ bpc' = "fetch" /\ blatest' = 0 /\ UNCHANGED <<bcursor, bend>>
        /\ bpayload' = NextRange(next, safe_head(blatest))
    BY <1>2 DEF Plan
  <2> HIDE DEF next
  <2>3. /\ bpayload' \in RangePayload
        /\ bpayload'.from = next
        /\ bpayload'.upto \in Heights /\ next <= bpayload'.upto
        /\ bpayload'.upto <= next + BLOCK_BATCH_SIZE - 1
        /\ \A n \in Heights :
             bpayload'.indexed_blocks[n] = NoHash /\ bpayload'.transfer_records[n] = {}
    BY <1>2, <2>1, <2>2, NextRangeEffect
  <2>4. RangeInv'
    BY <1>1, <2>2, <2>3 DEF RangeInv, next
  <2> QED
    BY <1>1, <2>2, <2>3, <2>4, BoundsAssumption
       DEF IInv, BackfillTypeOK, ChainTypeOK, ColdContiguous, ColdRowsBelongToBlocks,
           FetchedInv, CursorInv, chainVars, Heights
<1>3. CASE ~(next <= safe_head(blatest))
  <2>1. BackfillGoTo("latest") /\ UNCHANGED <<db, chain, settled, reorgs>>
    BY <1>3 DEF Plan, chainVars
  <2> QED
    BY <2>1, ExitPreserves
<1> QED
  BY <1>2, <1>3

\* An answer fills in a hash for which no record exists yet.
LEMMA FetchPreserves ==
  ASSUME IInv, Fetch, UNCHANGED chainVars
  PROVE  IInv'
<1>1. PICK n \in InFlight(bpayload) :
        get_block_metadata(n) # NoHash /\ bpayload' = WithBlock(bpayload, n)
  BY DEF Fetch
<1>2. /\ bpayload \in RangePayload /\ chain \in Chains /\ db' = db /\ bpc = "fetch"
      /\ UNCHANGED <<chain, settled, reorgs, blatest, bcursor, bend>>
      /\ bpc' = IF AllFetched(bpayload') THEN "logs" ELSE "fetch"
      /\ db.checkpoint \in Heights
  BY DEF IInv, BackfillTypeOK, ChainTypeOK, Fetch, chainVars, Database
<1>3. /\ n \in bpayload.from .. bpayload.upto /\ bpayload.indexed_blocks[n] = NoHash
      /\ n \in Heights
  BY <1>2, EngineAssumption, BoundsAssumption
     DEF InFlight, IInv, RangeInv, RangePayload, Heights, Larger
<1>4. /\ bpayload' \in RangePayload
      /\ bpayload'.from = bpayload.from /\ bpayload'.upto = bpayload.upto
      /\ bpayload'.transfer_records = bpayload.transfer_records
      /\ \A m \in Heights :
           bpayload'.indexed_blocks[m] =
             IF m = n THEN get_block_metadata(n) ELSE bpayload.indexed_blocks[m]
  BY <1>1, <1>2, <1>3, WithBlockEffect
<1>5. bpayload.transfer_records[n] = {}
  <2>1. \A r \in bpayload.transfer_records[n] : r.block_hash \in Hashes
    BY <1>2, <1>3 DEF RangePayload, Row
  <2> QED
    BY <1>2, <1>3, <2>1, ChainsAssumption DEF IInv, RangeInv
<1>6. RangeInv'
  BY <1>2, <1>3, <1>4, <1>5 DEF IInv, RangeInv
<1>7. FetchedInv' /\ CursorInv'
  BY <1>2 DEF FetchedInv, CursorInv
<1> QED
  BY <1>2, <1>4, <1>6, <1>7
     DEF IInv, BackfillTypeOK, ChainTypeOK, ColdContiguous, ColdRowsBelongToBlocks

\* Records are built under the hashes of the payload.
LEMMA FetchLogsPreserves ==
  ASSUME IInv, FetchLogs, UNCHANGED chainVars
  PROVE  IInv'
<1>1. /\ bpayload \in RangePayload /\ chain \in Chains /\ db' = db
      /\ bpayload.upto \in Heights /\ AllFetched(bpayload)
      /\ UNCHANGED <<chain, settled, reorgs, blatest, bcursor, bend>>
      /\ bpc = "logs" /\ bpc' = "validate" /\ bpayload' = WithLogs(bpayload)
  BY DEF IInv, BackfillTypeOK, ChainTypeOK, RangeInv, FetchedInv, FetchLogs, chainVars
<1>2. /\ bpayload' \in RangePayload
      /\ bpayload'.from = bpayload.from /\ bpayload'.upto = bpayload.upto
      /\ bpayload'.indexed_blocks = bpayload.indexed_blocks
      /\ \A n \in Heights : \A r \in bpayload'.transfer_records[n] :
           r.block_hash = bpayload.indexed_blocks[n]
  BY <1>1, WithLogsHashes
<1>3. RangeInv' /\ FetchedInv' /\ CursorInv'
  BY <1>1, <1>2 DEF IInv, RangeInv, FetchedInv, AllFetched, CursorInv
<1> QED
  BY <1>1, <1>2, <1>3
     DEF IInv, BackfillTypeOK, ChainTypeOK, ColdContiguous, ColdRowsBelongToBlocks

\* No stored block can differ: the range lies above the checkpoint.
LEMMA NoConflict ==
  ASSUME IInv, bpc = "validate"
  PROVE  Conflicts(db.cold.blocks) = {}
BY EngineAssumption, BoundsAssumption
   DEF IInv, BackfillTypeOK, Database, RangeInv, ColdContiguous, Conflicts, Larger, Heights

\* The validation before the commit lets the range through.
LEMMA ValidatePreserves ==
  ASSUME IInv, Validate, UNCHANGED chainVars
  PROVE  IInv'
<1>1. /\ bpc = "validate" /\ bpc' = "commit" /\ bpayload' = bpayload /\ db' = db
      /\ UNCHANGED <<chain, settled, reorgs, blatest, bcursor, bend>>
  BY NoConflict DEF Validate, chainVars
<1> QED
  BY <1>1
     DEF IInv, BackfillTypeOK, ChainTypeOK, ColdContiguous, ColdRowsBelongToBlocks,
         RangeInv, FetchedInv, AllFetched, CursorInv

\* Nothing IInv speaks of is touched.
LEMMA SparedPreserves ==
  ASSUME IInv, ColdSpared, UNCHANGED chainVars
  PROVE  IInv'
BY DEF ColdSpared, chainVars, bvars, IInv, BackfillTypeOK, ChainTypeOK, ColdContiguous,
       ColdRowsBelongToBlocks, RangeInv, FetchedInv, AllFetched, CursorInv

\* Every step preserves IInv.
LEMMA StepPreserves ==
  ASSUME IInv, StartBlock >= 1, ColdNext
  PROVE  IInv'
<1>1. CASE ColdReads /\ UNCHANGED chainVars
  BY <1>1, ReadLatestPreserves, ReconcilePreserves, PlanPreserves, FetchPreserves,
     FetchLogsPreserves, ValidatePreserves DEF ColdReads
<1>2. CASE (ColdCommits \/ ColdCuts) /\ UNCHANGED chainVars
  BY <1>2, CommitPreserves, RollbackPreserves
<1>3. CASE ColdExits /\ UNCHANGED chainVars
  BY <1>3, ExitPreserves DEF ColdExits, chainVars
<1>4. CASE ColdSpared /\ UNCHANGED chainVars
  BY <1>4, SparedPreserves
<1>5. CASE ChainNext /\ UNCHANGED <<db, bvars>>
  BY <1>5, ChainPreserves
<1> QED
  BY <1>1, <1>2, <1>3, <1>4, <1>5 DEF ColdNext

\* commit_finalized_range is a commit to the cold lane.
LEMMA CommitCommits ==
  ASSUME IInv, Commit
  PROVE  ColdCommits
<1>1. /\ db \in Database
      /\ bpayload.transfer_records \in [Heights -> SUBSET Row]
      /\ bpayload.indexed_blocks \in [Heights -> HashOrNone]
      /\ bpayload.from \in Nat
  BY DEF IInv, BackfillTypeOK, RangePayload
<1>2. bpayload.upto \in Heights
  BY DEF IInv, RangeInv, Commit
<1> QED
  BY <1>1, <1>2, CommitFinalizedEffect DEF Commit, ColdCommits

\* rollback_from_block is a rollback of the cold lane.
LEMMA RollbackCuts ==
  ASSUME IInv, Rollback
  PROVE  ColdCuts
BY RollbackEffect DEF IInv, BackfillTypeOK, Rollback, ColdCuts

\* Each action of the loop is one of the steps the invariants are about,
LEMMA LoopIsCold ==
  ASSUME IInv, BackfillLoop
  PROVE  ColdReads \/ ColdCommits \/ ColdCuts
BY CommitCommits, RollbackCuts DEF BackfillLoop, ColdReads

\* and so is every step of the worker's process.
LEMMA BackfillColdNext ==
  ASSUME IInv, [BackfillNext]_backfillVars
  PROVE  ColdNext
<1>1. CASE BackfillLoop /\ UNCHANGED chainVars
  BY <1>1, LoopIsCold DEF ColdNext
<1>2. CASE (BackfillNotFound \/ BackfillErrs \/ BackfillRestart) /\ UNCHANGED chainVars
  BY <1>2 DEF BackfillNotFound, BackfillErrs, BackfillRestart, ColdExits, ColdNext
<1>3. CASE ChainNext /\ UNCHANGED <<db, bvars>>
  BY <1>3 DEF ColdNext
<1>4. CASE UNCHANGED backfillVars
  BY <1>4 DEF backfillVars, ColdSpared, ColdNext, IInv, BackfillTypeOK
<1> QED
  BY <1>1, <1>2, <1>3, <1>4 DEF BackfillNext, BackfillStep

\* IInv holds in every reachable state: the inductive core of what follows.
THEOREM BackfillInvariant ==
  ASSUME StartBlock >= 1
  PROVE  BackfillSpec => []IInv
<1>1. BackfillInit => IInv
  BY InitInv
<1>2. IInv /\ [BackfillNext]_backfillVars => IInv'
  BY BackfillColdNext, StepPreserves
<1> QED
  BY <1>1, <1>2, PTL DEF BackfillSpec

\* Every variable keeps its type: block numbers stay within the chain and no
\* payload or row is ever built from a block that was not answered.
THEOREM BackfillTypeCorrect ==
  ASSUME StartBlock >= 1
  PROVE  BackfillSpec => []BackfillTypeOK
<1>1. IInv => BackfillTypeOK
  BY DEF IInv
<1> QED
  BY <1>1, BackfillInvariant, PTL

\* Whatever the chain does and whenever the process dies, the cold lane holds
\* the blocks from START_BLOCK to the checkpoint and no others.
THEOREM BackfillContiguous ==
  ASSUME StartBlock >= 1
  PROVE  BackfillSpec => []ColdContiguous
<1>1. IInv => ColdContiguous
  BY DEF IInv
<1> QED
  BY <1>1, BackfillInvariant, PTL

\* Whatever the chain does between the calls a range is built from, a cold
\* transfer row carries the hash of the block stored at its height.
THEOREM BackfillRowsBelong ==
  ASSUME StartBlock >= 1
  PROVE  BackfillSpec => []ColdRowsBelongToBlocks
<1>1. IInv => ColdRowsBelongToBlocks
  BY DEF IInv
<1> QED
  BY <1>1, BackfillInvariant, PTL

\* Whatever the size of a range and of a partition, no row is inserted that has no
\* partition.
THEOREM BackfillRowsHavePartitions ==
  BackfillSpec => []RowsHavePartitions
<1>1. RowsHavePartitions
  BY PartitionsCoverRecords DEF RowsHavePartitions
<1> QED
  BY <1>1, PTL

-----------------------------------------------------------------------------
(* Refinement of IndexedPrefix. *)

\* A step seen through the cold lane and its checkpoint.
LEMMA StepRefines ==
  ASSUME IInv, StartBlock >= 1, ColdNext
  PROVE  [Prefix!Append \/ Prefix!Truncate]_<<db.checkpoint, db.cold.blocks, db.cold.transfers>>
<1>1. db \in Database /\ db.checkpoint \in Heights /\ bpayload.from \in Nat
  BY DEF IInv, BackfillTypeOK, Database, RangePayload
<1>2. CASE ColdCommits
  <2>1. Prefix!Next1 = Larger(db.checkpoint + 1, StartBlock)
    BY <1>1, EngineAssumption, BoundsAssumption DEF Prefix!Next1, Larger, Heights
  <2>2. Prefix!Append
    BY <1>1, <1>2, <2>1, CommitEffect, EngineAssumption, BoundsAssumption
       DEF Prefix!Append, Heights
  <2> QED
    BY <2>2
<1>3. CASE ColdCuts
  <2>1. /\ bcursor \in StartBlock .. db.checkpoint /\ bcursor \in Heights
        /\ Monus(bcursor, 1) = bcursor - 1
    BY <1>1, <1>3, EngineAssumption, BoundsAssumption
       DEF IInv, CursorInv, BackfillTypeOK, ColdCuts, Monus, Heights
  <2>2. Prefix!Truncate
    BY <1>1, <1>3, <2>1, EngineAssumption, BoundsAssumption
       DEF Prefix!Truncate, Prefix!Bare, ColdCuts, ColdCut, Heights
  <2> QED
    BY <2>2
<1>4. CASE ColdReads \/ ColdExits \/ ColdSpared \/ UNCHANGED db
  BY <1>4
     DEF ColdReads, ColdExits, ColdSpared, ReadLatest, ReconcileMatch, ReconcileMismatch, Plan,
         Fetch, FetchLogs, Validate
<1> QED
  BY <1>2, <1>3, <1>4 DEF ColdNext

\* Seen through the tables alone, the worker over any chain, with its crashes and
\* restarts, appends a batch of blocks or cuts a suffix, and does nothing else.
THEOREM BackfillImplementsPrefix ==
  ASSUME StartBlock >= 1
  PROVE  BackfillSpec => ImplementsPrefix
<1>1. BackfillInit => IInv
  BY InitInv
<1>2. IInv /\ [BackfillNext]_backfillVars => IInv'
  BY BackfillColdNext, StepPreserves
<1>3. BackfillInit => Prefix!Init
  BY DEF BackfillInit, MigratedDatabase, EmptyLane, NoBlocks, NoTransfers,
         Prefix!Init, Prefix!Bare
<1>4. IInv /\ [BackfillNext]_backfillVars =>
        [Prefix!Append \/ Prefix!Truncate]_<<db.checkpoint, db.cold.blocks, db.cold.transfers>>
  BY BackfillColdNext, StepRefines
<1> QED
  BY <1>1, <1>2, <1>3, <1>4, PTL DEF BackfillSpec, ImplementsPrefix, Prefix!Spec

-----------------------------------------------------------------------------
(* A rollback is justified.  As long as the chain has not reorganized, all *)
(* the worker stores and holds is canonical; a mismatch found after the    *)
(* first reorganization lasts until the second.                            *)

\* What is known of the chain's history.
JInv ==
  /\ reorgs = 0 =>
       /\ \A n \in Heights : db.cold.blocks[n] \in {NoHash, chain.hash[n]}
       /\ \A n \in Heights : bpayload.indexed_blocks[n] \in {NoHash, chain.hash[n]}
  /\ bpc = "rollback" =>
       /\ reorgs >= 1
       /\ reorgs = 1 =>
            bcursor <= chain.head /\ db.cold.blocks[bcursor] # chain.hash[bcursor]

\* An empty payload holds nothing that is not canonical.
LEMMA JustifiedGoTo ==
  ASSUME JInv, NEW pc \in {"latest", "down"}, BackfillGoTo(pc), UNCHANGED <<chain, reorgs>>,
         \A n \in Heights : db'.cold.blocks[n] \in {NoHash, db.cold.blocks[n]}
  PROVE  JInv'
BY DEF JInv, BackfillGoTo, NoPayload, NewPayload, NoBlocks

\* An extension keeps every block; another reorganization is the second.
LEMMA JustifiedChain ==
  ASSUME IInv, JInv, ChainNext, UNCHANGED <<db, bvars>>
  PROVE  JInv'
<1>1. /\ ChainTypeOK /\ chain.head \in Nat /\ chain'.head \in Nat /\ reorgs \in Nat
      /\ bcursor \in Heights
      /\ UNCHANGED <<db, bpc, bcursor, bpayload>>
  BY ChainMoves, ChainsAssumption, BoundsAssumption
     DEF IInv, BackfillTypeOK, ChainTypeOK, Heights, bvars
<1>2. CASE reorgs' = reorgs
  BY <1>1, <1>2, ChainExtends, ChainsAssumption, BoundsAssumption
     DEF JInv, ChainTypeOK, Heights
<1>3. CASE reorgs' = reorgs + 1
  BY <1>1, <1>3 DEF JInv
<1> QED
  BY <1>1, <1>2, <1>3, ReorgCounts

\* Before the first reorganization no stored block differs from the chain.
LEMMA JustifiedReconcile ==
  ASSUME IInv, JInv, ReconcileMatch \/ ReconcileMismatch, UNCHANGED chainVars
  PROVE  JInv'
<1>1. /\ bcursor \in Heights /\ reorgs \in Nat /\ chain \in Chains
      /\ UNCHANGED <<chain, reorgs, db, bpayload>>
      /\ bpc = "reconcile" /\ db.cold.blocks[bcursor] # NoHash
  BY BoundsAssumption
     DEF IInv, BackfillTypeOK, ChainTypeOK, CursorInv, ColdContiguous, ReconcileMatch,
         ReconcileMismatch, chainVars
<1>2. CASE ReconcileMatch
  <2>1. bpc' # "rollback"
    BY <1>1, <1>2 DEF ReconcileMatch
  <2> QED
    BY <1>1, <2>1 DEF JInv
<1>3. CASE ReconcileMismatch
  <2>1. bcursor' = bcursor /\ chain.hash[bcursor] # NoHash
        /\ db.cold.blocks[bcursor] # chain.hash[bcursor]
    BY <1>3 DEF ReconcileMismatch, get_block_metadata
  <2>2. bcursor <= chain.head /\ reorgs # 0
    BY <1>1, <2>1, AnswerType DEF JInv, get_block_metadata
  <2> QED
    BY <1>1, <2>1, <2>2 DEF JInv
<1> QED
  BY <1>2, <1>3

\* What is fetched is canonical when it is answered.
LEMMA JustifiedBuild ==
  ASSUME IInv, JInv, ReadLatest \/ Plan \/ Fetch \/ FetchLogs \/ Validate, UNCHANGED chainVars
  PROVE  JInv'
<1>1. /\ bpayload \in RangePayload /\ chain \in Chains /\ UNCHANGED <<chain, reorgs, db>>
      /\ db.checkpoint \in Heights /\ blatest \in Heights
  BY DEF IInv, BackfillTypeOK, ChainTypeOK, Database, ReadLatest, Plan, Fetch, FetchLogs,
         Validate, chainVars
<1>2. bpc' # "rollback"
  BY NoConflict DEF ReadLatest, Plan, Fetch, FetchLogs, Validate, BackfillGoTo
<1>3. \A n \in Heights :
        bpayload'.indexed_blocks[n] \in {NoHash, chain.hash[n], bpayload.indexed_blocks[n]}
  <2>1. CASE ReadLatest \/ Validate
    BY <2>1, NoConflict DEF ReadLatest, Validate
  <2>2. CASE Plan
    <3> DEFINE next == Larger(db.checkpoint + 1, StartBlock)
    <3>1. CASE next <= safe_head(blatest)
      <4>1. next \in Nat /\ safe_head(blatest) \in Heights
        BY <1>1, EngineAssumption, ConfirmationAssumption, BoundsAssumption
           DEF Larger, safe_head, Monus, Heights
      <4>2. bpayload' = NextRange(next, safe_head(blatest))
        BY <2>2, <3>1 DEF Plan
      <4> HIDE DEF next
      <4> QED
        BY <3>1, <4>1, <4>2, NextRangeEffect
    <3>2. CASE ~(next <= safe_head(blatest))
      BY <2>2, <3>2 DEF Plan, BackfillGoTo, NoPayload, NewPayload, NoBlocks
    <3> QED
      BY <3>1, <3>2
  <2>3. CASE Fetch
    <3>1. PICK n \in InFlight(bpayload) : bpayload' = WithBlock(bpayload, n)
      BY <2>3 DEF Fetch
    <3>2. n \in Heights
      BY <1>1, <2>3, BoundsAssumption
         DEF InFlight, IInv, RangeInv, RangePayload, Heights, Fetch
    <3>3. \A m \in Heights :
            bpayload'.indexed_blocks[m] =
              IF m = n THEN chain.hash[n] ELSE bpayload.indexed_blocks[m]
      BY <1>1, <3>1, <3>2, WithBlockEffect DEF get_block_metadata
    <3> QED
      BY <3>3
  <2>4. CASE FetchLogs
    BY <2>4 DEF FetchLogs, WithLogs
  <2> QED
    BY <2>1, <2>2, <2>3, <2>4
<1> QED
  BY <1>1, <1>2, <1>3 DEF JInv

\* A commit stores what the payload holds; a rollback stores nothing.
LEMMA JustifiedWrite ==
  ASSUME IInv, JInv, StartBlock >= 1, ColdCommits \/ ColdCuts, UNCHANGED chainVars
  PROVE  JInv'
<1>1. UNCHANGED <<chain, reorgs>> /\ BackfillGoTo("latest")
  BY DEF ColdCommits, ColdCuts, chainVars
<1>2. CASE ColdCommits
  <2>1. \A n \in Heights :
          db'.cold.blocks[n] \in {bpayload.indexed_blocks[n], db.cold.blocks[n]}
    BY <1>2, CommitEffect
  <2> QED
    BY <1>1, <2>1 DEF JInv, BackfillGoTo, NoPayload, NewPayload, NoBlocks
<1>3. CASE ColdCuts
  <2>1. ColdCut(db, bcursor, db')
    BY <1>3 DEF ColdCuts
  <2> QED
    BY <1>1, <2>1, JustifiedGoTo DEF ColdCut
<1> QED
  BY <1>2, <1>3

\* Every step preserves JInv, given IInv.
LEMMA JustifiedStep ==
  ASSUME IInv, JInv, StartBlock >= 1, ColdNext
  PROVE  JInv'
<1>1. CASE ColdReads /\ UNCHANGED chainVars
  BY <1>1, JustifiedReconcile, JustifiedBuild DEF ColdReads
<1>2. CASE (ColdCommits \/ ColdCuts) /\ UNCHANGED chainVars
  BY <1>2, JustifiedWrite
<1>3. CASE ColdExits /\ UNCHANGED chainVars
  BY <1>3, JustifiedGoTo DEF ColdExits, chainVars
<1>4. CASE ColdSpared /\ UNCHANGED chainVars
  BY <1>4 DEF ColdSpared, chainVars, bvars, JInv
<1>5. CASE ChainNext /\ UNCHANGED <<db, bvars>>
  BY <1>5, JustifiedChain
<1> QED
  BY <1>1, <1>2, <1>3, <1>4, <1>5 DEF ColdNext

\* Blocks are deleted only because the chain replaced one of them, never because
\* the provider does not serve it: one canonical at that moment was replaced
\* and put back.
THEOREM BackfillRollbackJustified ==
  ASSUME StartBlock >= 1
  PROVE  BackfillSpec => []RollbackJustified
<1>1. BackfillInit => IInv /\ JInv
  <2>1. BackfillInit => JInv
    BY DEF BackfillInit, BackfillLocalsInit, MigratedDatabase, EmptyLane, JInv,
           NoPayload, NewPayload, NoBlocks
  <2> QED
    BY <2>1, InitInv
<1>2. IInv /\ JInv /\ [BackfillNext]_backfillVars => (IInv /\ JInv)'
  BY BackfillColdNext, StepPreserves, JustifiedStep
<1>3. IInv /\ JInv => RollbackJustified
  BY BoundsAssumption DEF IInv, BackfillTypeOK, ChainTypeOK, JInv, RollbackJustified
<1> QED
  BY <1>1, <1>2, <1>3, PTL DEF BackfillSpec
=============================================================================
