----------------------------- MODULE LiveProofs -----------------------------
(***************************************************************************)
(* Theorems about the live worker, for every block tree, every depth of    *)
(* reorganization and every configuration.                                 *)
(*                                                                         *)
(* HInv is inductive whatever another process does to the hot lane, as     *)
(* long as that only removes rows (HotStays): it says what the worker's    *)
(* locals know about the lane at each await.  WindowInv, inductive given   *)
(* HInv, says where the lane ends.  KInv relates what is stored to the     *)
(* chain.                                                                  *)
(*                                                                         *)
(* FromStart, inductive given HInv, bounds the lane from below.  With      *)
(* WindowInv it makes each step of the worker one of ServedChain.          *)
(***************************************************************************)
EXTENDS LiveProperties, RangeBuildProofs

Building == {"fetch", "logs", "validate", "commit"}

\* No block is stored above the live checkpoint.
HotBounded == \A n \in Heights : db.hot.blocks[n] # NoHash => n <= db.liveCheckpoint

\* The range a worker is building lies above every stored block, ends at a block that
\* exists, and holds nothing outside itself; its records carry its hashes.
HotRangeInv ==
  lpc \in Building =>
    /\ lpayload.upto \in Heights
    /\ lpayload.from <= lpayload.upto
    /\ \A n \in Heights : db.hot.blocks[n] # NoHash => n < lpayload.from
    /\ \A n \in Heights :
         n \notin lpayload.from .. lpayload.upto => lpayload.indexed_blocks[n] = NoHash
    /\ \A n \in Heights : \A r \in lpayload.transfer_records[n] :
         r.block_hash = lpayload.indexed_blocks[n]

HotFetchedInv == lpc \in {"logs", "validate", "commit"} => AllFetched(lpayload)

\* The loops stay inside their windows.
HotCursorInv ==
  /\ lpc \in {"stored", "compare"} => lcursor <= lend
  /\ lpc = "validate" => lpayload.from <= lcursor /\ lcursor <= lpayload.upto

\* The hash read before the block was asked for is stored still, unless it is gone.
StoredInv ==
  lpc = "compare" => lstored # NoHash /\ db.hot.blocks[lcursor] \in {NoHash, lstored}

HInv ==
  /\ LiveTypeOK
  /\ HotBounded
  /\ HotRangeInv
  /\ HotFetchedInv
  /\ HotCursorInv
  /\ StoredInv

-----------------------------------------------------------------------------
(* What a step of any process that contains the worker may do.             *)

\* The worker reads, and keeps the database as it is.
HotReads ==
  \/ LiveReadLatest
  \/ LiveWindow
  \/ LiveReadStored
  \/ LiveCompare
  \/ LivePlan
  \/ LiveFetch
  \/ LiveFetchLogs
  \/ LiveValidate

\* It prunes the lane below the live start block.
HotPrunes ==
  /\ lpc = "prune"
  /\ HotPruned(db, lstart, db')
  /\ lpc' = "window"
  /\ UNCHANGED <<llatest, lstart, lcursor, lend, lstored, lpayload>>

\* It rolls the lane back.
HotCuts ==
  /\ lpc = "rollback"
  /\ HotCut(db, lcursor, db')
  /\ LiveGoTo("latest")

\* It commits a range.
HotCommits ==
  /\ lpc = "commit"
  /\ HotCommitted(db, lpayload.indexed_blocks, lpayload.upto, db')
  /\ LiveGoTo("latest")

\* It ends or starts again.
HotExits == (\E pc \in {"latest", "down"} : LiveGoTo(pc)) /\ UNCHANGED db

\* Someone else removes hot blocks, or none.
HotThins == HotThinned(db, db') /\ UNCHANGED lvars

HotStays ==
  \/ (HotReads \/ HotPrunes \/ HotCuts \/ HotCommits \/ HotExits \/ HotThins)
       /\ UNCHANGED chainVars
  \/ ChainNext /\ UNCHANGED <<db, lvars>>

-----------------------------------------------------------------------------
(* Each part of the next-state relation preserves HInv. *)

\* Where the worker carries nothing along, its locals satisfy HInv.
LEMMA LiveGoToInv ==
  ASSUME NEW pc \in {"latest", "down"}, LiveGoTo(pc)
  PROVE  /\ lpc' = pc
         /\ llatest' \in Heights /\ lstart' \in Nat /\ lcursor' \in Heights /\ lend' \in Heights
         /\ lstored' \in HashOrNone /\ lpayload' \in RangePayload
         /\ HotRangeInv' /\ HotFetchedInv' /\ HotCursorInv' /\ StoredInv'
BY NoPayloadType, BoundsAssumption
   DEF LiveGoTo, HotRangeInv, HotFetchedInv, HotCursorInv, StoredInv, Heights, Building,
       HashOrNone

\* The migrated database and a worker about to start.
LEMMA LiveStarts ==
  ASSUME ChainTypeOK, db = MigratedDatabase, LiveLocalsInit
  PROVE  HInv
<1>1. LiveTypeOK
  BY MigratedEffect, NoPayloadType, BoundsAssumption
     DEF LiveLocalsInit, LiveTypeOK, Heights, HashOrNone
<1>2. HotBounded
  BY DEF MigratedDatabase, EmptyLane, NoBlocks, HotBounded
<1> QED
  BY <1>1, <1>2
     DEF LiveLocalsInit, HInv, HotRangeInv, HotFetchedInv, HotCursorInv, StoredInv, Building

\* The chain moves by itself.
LEMMA LiveChainPreserves ==
  ASSUME HInv, ChainNext, UNCHANGED <<db, lvars>>
  PROVE  HInv'
<1>1. ChainTypeOK'
  BY ChainMoves DEF HInv, LiveTypeOK
<1>2. UNCHANGED <<db, lpc, llatest, lstart, lcursor, lend, lstored, lpayload>>
  BY DEF lvars
<1> QED
  BY <1>1, <1>2
     DEF HInv, LiveTypeOK, HotBounded, HotRangeInv, HotFetchedInv, AllFetched, HotCursorInv,
         StoredInv

\* The worker ends or starts again; the database stays.
LEMMA LiveExitPreserves ==
  ASSUME HInv, NEW pc \in {"latest", "down"}, LiveGoTo(pc), UNCHANGED db, UNCHANGED chainVars
  PROVE  HInv'
BY LiveGoToInv DEF HInv, LiveTypeOK, ChainTypeOK, chainVars, HotBounded

\* The head is read, and the start of the window with it.
LEMMA LiveReadLatestPreserves ==
  ASSUME HInv, LiveReadLatest, UNCHANGED chainVars
  PROVE  HInv'
<1>1. chain \in Chains /\ chain.head \in Heights
  BY ChainsAssumption DEF HInv, LiveTypeOK, ChainTypeOK
<1>2. compute_live_start_block(StartBlock, chain.head) \in Nat
  BY <1>1, EngineAssumption, LiveStartAssumption, BoundsAssumption
     DEF compute_live_start_block, Larger, Monus, Heights
<1> QED
  BY <1>1, <1>2
     DEF LiveReadLatest, get_latest_block_number, chainVars, HInv, LiveTypeOK, ChainTypeOK,
         HotBounded, HotRangeInv, HotFetchedInv, HotCursorInv, StoredInv, Building

\* Revalidation starts below the head it reads, or not at all.
LEMMA LiveWindowPreserves ==
  ASSUME HInv, LiveWindow, UNCHANGED chainVars
  PROVE  HInv'
<1> DEFINE first == hot_validation_start(lstart, chain.head)
<1>1. chain \in Chains /\ chain.head \in Heights /\ lstart \in Nat
  BY ChainsAssumption DEF HInv, LiveTypeOK, ChainTypeOK
<1>2. first \in Nat
  BY <1>1, EngineAssumption, LiveStartAssumption, BoundsAssumption
     DEF hot_validation_start, compute_live_start_block, Larger, Monus, Heights
<1>3. /\ lpc = "window"
      /\ \/ first <= chain.head /\ lpc' = "stored" /\ lcursor' = first /\ lend' = chain.head
         \/ lpc' = "plan" /\ UNCHANGED <<lcursor, lend>>
      /\ UNCHANGED <<db, llatest, lstart, lstored, lpayload, chain, settled, reorgs>>
  BY DEF LiveWindow, get_latest_block_number, chainVars
<1> HIDE DEF first
<1>4. first <= chain.head => first \in Heights
  BY <1>1, <1>2, BoundsAssumption DEF Heights
<1> QED
  BY <1>1, <1>3, <1>4
     DEF HInv, LiveTypeOK, ChainTypeOK, HotBounded, HotRangeInv, HotFetchedInv, HotCursorInv,
         StoredInv, Building

\* The loop goes to the next block of its window, or on to the plan.
LEMMA NextStaysInside ==
  ASSUME HInv, lpc \in {"stored", "compare"}, NextToRevalidate
  PROVE  /\ lpc' \in {"stored", "plan"}
         /\ lcursor' \in Heights /\ lend' \in Heights
         /\ lpc' = "stored" => lcursor' <= lend'
BY BoundsAssumption DEF HInv, LiveTypeOK, HotCursorInv, NextToRevalidate, Heights

\* A stored hash is read.
LEMMA LiveReadStoredPreserves ==
  ASSUME HInv, LiveReadStored, UNCHANGED chainVars
  PROVE  HInv'
<1>1. /\ lpc = "stored" /\ lstored' = db.hot.blocks[lcursor]
      /\ UNCHANGED <<db, llatest, lstart, lpayload, chain, settled, reorgs>>
  BY DEF LiveReadStored, chainVars
<1>2. lstored' \in HashOrNone
  BY <1>1 DEF HInv, LiveTypeOK, Database, Lane
<1>3. CASE lstored' = NoHash
  <2>1. NextToRevalidate
    BY <1>3 DEF LiveReadStored
  <2> QED
    BY <1>1, <1>2, <2>1, NextStaysInside
       DEF HInv, LiveTypeOK, ChainTypeOK, HotBounded, HotRangeInv, HotFetchedInv, HotCursorInv,
           StoredInv, Building
<1>4. CASE lstored' # NoHash
  BY <1>1, <1>2, <1>4
     DEF LiveReadStored, HInv, LiveTypeOK, ChainTypeOK, HotBounded, HotRangeInv, HotFetchedInv,
         HotCursorInv, StoredInv, Building
<1> QED
  BY <1>3, <1>4

\* It is compared with the chain's.
LEMMA LiveComparePreserves ==
  ASSUME HInv, LiveCompare, UNCHANGED chainVars
  PROVE  HInv'
<1>1. /\ lpc = "compare" /\ lstored' = NoHash
      /\ UNCHANGED <<db, lpayload, chain, settled, reorgs>>
      /\ 0 \in Heights /\ 0 \in Nat /\ NoHash \in HashOrNone
  BY BoundsAssumption DEF LiveCompare, chainVars, Heights, HashOrNone
<1>2. CASE NextToRevalidate /\ UNCHANGED <<llatest, lstart>>
  BY <1>1, <1>2, NextStaysInside
     DEF HInv, LiveTypeOK, ChainTypeOK, HotBounded, HotRangeInv, HotFetchedInv, HotCursorInv,
         StoredInv, Building
<1>3. CASE lpc' = "rollback" /\ UNCHANGED lcursor /\ lend' = 0 /\ llatest' = 0 /\ lstart' = 0
  BY <1>1, <1>3
     DEF HInv, LiveTypeOK, ChainTypeOK, HotBounded, HotRangeInv, HotFetchedInv, HotCursorInv,
         StoredInv, Building
<1> QED
  BY <1>2, <1>3 DEF LiveCompare

\* The planned range lies above everything stored.
LEMMA LivePlanPreserves ==
  ASSUME HInv, LivePlan, UNCHANGED chainVars
  PROVE  HInv'
<1> DEFINE next == Larger(db.liveCheckpoint + 1, lstart)
<1>1. /\ lpc = "plan" /\ db' = db /\ db.liveCheckpoint \in Nat /\ llatest \in Heights
      /\ lstart \in Nat /\ UNCHANGED chainVars
  BY BoundsAssumption DEF LivePlan, HInv, LiveTypeOK, Database, Heights
<1>2. next \in Nat /\ next > db.liveCheckpoint
  BY <1>1 DEF Larger
<1>3. CASE next <= llatest
  <2>1. /\ lpc' = "fetch" /\ lpayload' = NextRange(next, llatest)
        /\ llatest' = 0 /\ lstart' = 0 /\ UNCHANGED <<lcursor, lend, lstored>>
    BY <1>3 DEF LivePlan
  <2> HIDE DEF next
  <2>2. /\ lpayload' \in RangePayload
        /\ lpayload'.from = next
        /\ lpayload'.upto \in Heights /\ next <= lpayload'.upto
        /\ \A n \in Heights :
             lpayload'.indexed_blocks[n] = NoHash /\ lpayload'.transfer_records[n] = {}
    BY <1>1, <1>2, <1>3, <2>1, NextRangeEffect
  <2>3. \A n \in Heights : db'.hot.blocks[n] # NoHash => n < next
    BY <1>1, <1>2, BoundsAssumption DEF HInv, HotBounded, Heights
  <2>4. HotRangeInv'
    BY <2>2, <2>3 DEF HotRangeInv
  <2> QED
    BY <1>1, <2>1, <2>2, <2>4, BoundsAssumption
       DEF HInv, LiveTypeOK, ChainTypeOK, chainVars, HotBounded, HotFetchedInv, HotCursorInv,
           StoredInv, Heights
<1>4. CASE ~(next <= llatest)
  <2>1. LiveGoTo("latest") /\ UNCHANGED db
    BY <1>4 DEF LivePlan
  <2> QED
    BY <2>1, LiveExitPreserves
<1> QED
  BY <1>3, <1>4

\* An answer fills in a hash for which no record exists yet.
LEMMA LiveFetchPreserves ==
  ASSUME HInv, LiveFetch, UNCHANGED chainVars
  PROVE  HInv'
<1>1. PICK n \in InFlight(lpayload) : lpayload' = WithBlock(lpayload, n)
  BY DEF LiveFetch
<1>2. /\ lpayload \in RangePayload /\ chain \in Chains /\ lpc = "fetch"
      /\ lpc' = IF AllFetched(lpayload') THEN "logs" ELSE "fetch"
      /\ UNCHANGED <<db, llatest, lstart, lcursor, lend, lstored, chain, settled, reorgs>>
      /\ lpayload.from \in Nat /\ lpayload.upto \in Heights
  BY DEF HInv, LiveTypeOK, ChainTypeOK, HotRangeInv, RangePayload, LiveFetch, chainVars, Building
<1>3. /\ n \in lpayload.from .. lpayload.upto /\ lpayload.indexed_blocks[n] = NoHash
      /\ n \in Heights
  BY <1>2, BoundsAssumption DEF InFlight, Heights
<1>4. /\ lpayload' \in RangePayload
      /\ lpayload'.from = lpayload.from /\ lpayload'.upto = lpayload.upto
      /\ lpayload'.transfer_records = lpayload.transfer_records
      /\ \A m \in Heights :
           lpayload'.indexed_blocks[m] =
             IF m = n THEN get_block_metadata(n) ELSE lpayload.indexed_blocks[m]
  BY <1>1, <1>2, <1>3, WithBlockEffect
<1>5. lpayload.transfer_records[n] = {}
  <2>1. \A r \in lpayload.transfer_records[n] : r.block_hash \in Hashes
    BY <1>2, <1>3 DEF RangePayload, Row
  <2> QED
    BY <1>2, <1>3, <2>1, ChainsAssumption DEF HInv, HotRangeInv, Building
<1>6. HotRangeInv'
  BY <1>2, <1>3, <1>4, <1>5 DEF HInv, HotRangeInv, Building
<1>7. HotFetchedInv' /\ HotCursorInv' /\ StoredInv'
  BY <1>2 DEF HotFetchedInv, HotCursorInv, StoredInv
<1> QED
  BY <1>2, <1>4, <1>6, <1>7 DEF HInv, LiveTypeOK, ChainTypeOK, HotBounded

\* Records are built under the hashes of the payload.
LEMMA LiveFetchLogsPreserves ==
  ASSUME HInv, LiveFetchLogs, UNCHANGED chainVars
  PROVE  HInv'
<1>1. /\ lpayload \in RangePayload /\ chain \in Chains /\ lpayload.from \in Nat
      /\ lpayload.upto \in Heights /\ AllFetched(lpayload) /\ lpayload.from <= lpayload.upto
      /\ UNCHANGED <<db, llatest, lstart, lend, lstored, chain, settled, reorgs>>
      /\ lpc = "logs" /\ lpc' = "validate" /\ lpayload' = WithLogs(lpayload)
      /\ lcursor' = lpayload.from
  BY DEF HInv, LiveTypeOK, ChainTypeOK, HotRangeInv, HotFetchedInv, LiveFetchLogs, chainVars,
         Building, RangePayload
<1>2. /\ lpayload' \in RangePayload
      /\ lpayload'.from = lpayload.from /\ lpayload'.upto = lpayload.upto
      /\ lpayload'.indexed_blocks = lpayload.indexed_blocks
      /\ \A n \in Heights : \A r \in lpayload'.transfer_records[n] :
           r.block_hash = lpayload.indexed_blocks[n]
  BY <1>1, WithLogsHashes
<1>3. lcursor' \in Heights
  BY <1>1, BoundsAssumption DEF Heights
<1>4. HotRangeInv'
  BY <1>1, <1>2 DEF HInv, HotRangeInv, Building
<1>5. HotFetchedInv' /\ HotCursorInv' /\ StoredInv'
  BY <1>1, <1>2 DEF HotFetchedInv, HotCursorInv, StoredInv, AllFetched
<1> QED
  BY <1>1, <1>2, <1>3, <1>4, <1>5 DEF HInv, LiveTypeOK, ChainTypeOK, HotBounded

\* No stored block can differ: the range lies above the lane.
LEMMA NoHotConflict ==
  ASSUME HInv, lpc = "validate"
  PROVE  db.hot.blocks[lcursor] = NoHash
BY BoundsAssumption
   DEF HInv, LiveTypeOK, HotRangeInv, HotCursorInv, Building, RangePayload, Heights

\* The validation before the commit lets the range through.
LEMMA LiveValidatePreserves ==
  ASSUME HInv, LiveValidate, UNCHANGED chainVars
  PROVE  HInv'
<1>1. /\ lpc = "validate"
      /\ \/ lcursor < lpayload.upto /\ lcursor' = lcursor + 1 /\ lpc' = "validate"
         \/ lpc' = "commit" /\ lcursor' = 0
      /\ UNCHANGED <<db, llatest, lstart, lend, lstored, lpayload, chain, settled, reorgs>>
  BY NoHotConflict DEF LiveValidate, chainVars
<1>2. /\ lpayload.upto \in Heights /\ lpayload.from \in Nat /\ lcursor \in Heights
      /\ lpayload.from <= lcursor
  BY <1>1 DEF HInv, LiveTypeOK, HotRangeInv, HotCursorInv, RangePayload, Building
<1>3. /\ lcursor' \in Heights
      /\ lpc' = "validate" => lpayload.from <= lcursor' /\ lcursor' <= lpayload.upto
  BY <1>1, <1>2, BoundsAssumption DEF Heights
<1> QED
  BY <1>1, <1>3
     DEF HInv, LiveTypeOK, ChainTypeOK, HotBounded, HotRangeInv, HotFetchedInv, AllFetched,
         HotCursorInv, StoredInv, Building

\* Pruned, the lane is bounded as before.
LEMMA PrunePreserves ==
  ASSUME HInv, HotPrunes, UNCHANGED chainVars
  PROVE  HInv'
BY DEF HotPrunes, HotPruned, chainVars, HInv, LiveTypeOK, ChainTypeOK, HotBounded, HotRangeInv,
       HotFetchedInv, HotCursorInv, StoredInv, Building

\* A cut at n leaves nothing above n - 1.
LEMMA CutBounds ==
  ASSUME HInv, NEW n \in Heights, HotCut(db, n, db')
  PROVE  HotBounded'
<1>1. \A m \in Heights : db'.hot.blocks[m] # NoHash => m < n
  BY BoundsAssumption DEF HotCut, Heights
<1>2. db'.liveCheckpoint = Monus(n, 1)
  BY DEF HotCut
<1> QED
  BY <1>1, <1>2, BoundsAssumption DEF HotBounded, Monus, Heights

\* Rolled back by the worker, the lane is bounded by the new checkpoint.
LEMMA CutPreserves ==
  ASSUME HInv, HotCuts, UNCHANGED chainVars
  PROVE  HInv'
<1>1. lcursor \in Heights /\ HotCut(db, lcursor, db')
  BY DEF HotCuts, HInv, LiveTypeOK
<1>2. db' \in Database
  BY <1>1 DEF HotCut
<1> QED
  BY <1>1, <1>2, CutBounds, LiveGoToInv
     DEF HotCuts, chainVars, HInv, LiveTypeOK, ChainTypeOK

\* A commit writes its range and nothing else.
LEMMA CommitWrites ==
  ASSUME HInv, HotCommits
  PROVE  /\ lpayload.from \in Nat /\ lpayload.upto \in Heights
         /\ lpayload.from <= lpayload.upto
         /\ db' \in Database /\ db'.liveCheckpoint = lpayload.upto
         /\ \A n \in Heights : db.hot.blocks[n] # NoHash => n < lpayload.from
         /\ \A n \in Heights :
              db'.hot.blocks[n] = IF n \in lpayload.from .. lpayload.upto
                                  THEN lpayload.indexed_blocks[n] ELSE db.hot.blocks[n]
         /\ \A n \in Heights :
              n \in lpayload.from .. lpayload.upto <=> lpayload.indexed_blocks[n] # NoHash
BY BoundsAssumption
   DEF HotCommits, HotCommitted, HInv, LiveTypeOK, HotRangeInv, HotFetchedInv, AllFetched,
       RangePayload, Building, Heights

\* The lane ends at the new checkpoint.
LEMMA HotCommitPreserves ==
  ASSUME HInv, HotCommits, UNCHANGED chainVars
  PROVE  HInv'
<1>1. HotBounded'
  BY CommitWrites, BoundsAssumption DEF HInv, HotBounded, Heights
<1> QED
  BY <1>1, CommitWrites, LiveGoToInv DEF HotCommits, chainVars, HInv, LiveTypeOK, ChainTypeOK

\* What another process removes, the worker knows nothing about that it relies on.
LEMMA OthersPreserve ==
  ASSUME HInv, HotThins, UNCHANGED chainVars
  PROVE  HInv'
<1>1. UNCHANGED <<lpc, llatest, lstart, lcursor, lend, lstored, lpayload>>
  BY DEF HotThins, lvars
<1>2. /\ db' \in Database
      /\ \A n \in Heights : db'.hot.blocks[n] \in {NoHash, db.hot.blocks[n]}
  BY DEF HotThins, HotThinned
<1>3. HotBounded'
  BY DEF HotThins, HotThinned, HInv, HotBounded
<1> QED
  BY <1>1, <1>2, <1>3
     DEF chainVars, HInv, LiveTypeOK, ChainTypeOK, HotRangeInv, HotFetchedInv, AllFetched,
         HotCursorInv, StoredInv

\* Every step preserves HInv.
LEMMA HotStepPreserves ==
  ASSUME HInv, HotStays
  PROVE  HInv'
<1>1. CASE HotReads /\ UNCHANGED chainVars
  BY <1>1, LiveReadLatestPreserves, LiveWindowPreserves, LiveReadStoredPreserves,
     LiveComparePreserves, LivePlanPreserves, LiveFetchPreserves, LiveFetchLogsPreserves,
     LiveValidatePreserves DEF HotReads
<1>2. CASE (HotPrunes \/ HotCuts \/ HotCommits) /\ UNCHANGED chainVars
  BY <1>2, PrunePreserves, CutPreserves, HotCommitPreserves
<1>3. CASE HotExits /\ UNCHANGED chainVars
  BY <1>3, LiveExitPreserves DEF HotExits
<1>4. CASE HotThins /\ UNCHANGED chainVars
  BY <1>4, OthersPreserve
<1>5. CASE ChainNext /\ UNCHANGED <<db, lvars>>
  BY <1>5, LiveChainPreserves
<1> QED
  BY <1>1, <1>2, <1>3, <1>4, <1>5 DEF HotStays

-----------------------------------------------------------------------------
(* Transfer rows.  What a step may do to them, height by height: they stay *)
(* with their block, go, or are joined by the records of a commit.         *)

RowsFollow ==
  \A n \in Heights :
    \/ RowsKeptOrGone(db, db', n)
    \/ /\ HotCommits
       /\ db'.hot.transfers[n] \subseteq db.hot.transfers[n] \cup lpayload.transfer_records[n]

\* A commit finds no row at the heights it writes, and brings none for the others.
LEMMA RowsStayWithBlocks ==
  ASSUME HInv, HotRowsBelongToBlocks, RowsFollow
  PROVE  HotRowsBelongToBlocks'
<1> SUFFICES ASSUME NEW n \in Heights, NEW r \in db'.hot.transfers[n]
             PROVE  r.block_hash = db'.hot.blocks[n]
  BY DEF HotRowsBelongToBlocks
<1>1. CASE RowsKeptOrGone(db, db', n)
  BY <1>1 DEF RowsKeptOrGone, HotRowsBelongToBlocks
<1>2. CASE /\ HotCommits
           /\ db'.hot.transfers[n] \subseteq db.hot.transfers[n] \cup lpayload.transfer_records[n]
  <2>1. /\ \A q \in db.hot.transfers[n] :
             q.block_hash = db.hot.blocks[n] /\ q.block_hash \in Hashes
        /\ \A q \in lpayload.transfer_records[n] :
             q.block_hash = lpayload.indexed_blocks[n] /\ q.block_hash \in Hashes
    BY <1>2
       DEF HotCommits, HInv, LiveTypeOK, Database, Lane, Row, HotRowsBelongToBlocks, HotRangeInv,
           RangePayload, Building
  <2>2. CASE n \in lpayload.from .. lpayload.upto
    <3>1. db.hot.blocks[n] = NoHash
      BY <1>2, <2>2, CommitWrites, BoundsAssumption DEF Heights
    <3>2. r \in lpayload.transfer_records[n]
      BY <1>2, <2>1, <3>1, ChainsAssumption
    <3> QED
      BY <1>2, <2>1, <2>2, <3>2, CommitWrites
  <2>3. CASE n \notin lpayload.from .. lpayload.upto
    <3>1. r \in db.hot.transfers[n]
      BY <1>2, <2>1, <2>3, CommitWrites, ChainsAssumption
    <3> QED
      BY <1>2, <2>1, <2>3, <3>1, CommitWrites
  <2> QED
    BY <2>2, <2>3
<1> QED
  BY <1>1, <1>2 DEF RowsFollow

-----------------------------------------------------------------------------
(* The window, while no one else moves the live checkpoint.                *)

\* After a prune nothing is stored below the live start block, so that a range follows
\* the checkpoint as long as anything is stored; a rollback starts inside the lane.
WindowInv ==
  /\ lpc \in {"window", "stored", "compare", "plan"} =>
       \A n \in Heights : db.hot.blocks[n] # NoHash => lstart <= n
  /\ lpc \in Building =>
       \A n \in Heights : db.hot.blocks[n] # NoHash => lpayload.from = db.liveCheckpoint + 1
  /\ lpc \in {"compare", "rollback"} => lcursor <= db.liveCheckpoint

\* The reads of the worker's loop keep it.
LEMMA WindowReads ==
  ASSUME HInv, WindowInv, HotReads
  PROVE  WindowInv'
<1>1. db' = db /\ db.liveCheckpoint \in Nat /\ lcursor \in Heights /\ lstart \in Nat
  BY BoundsAssumption
     DEF HotReads, LiveReadLatest, LiveWindow, LiveReadStored, LiveCompare, LivePlan, LiveFetch,
         LiveFetchLogs, LiveValidate, HInv, LiveTypeOK, Database, Heights
<1>2. CASE LiveReadLatest \/ LiveWindow
  BY <1>1, <1>2 DEF LiveReadLatest, LiveWindow, WindowInv, Building
<1>3. CASE LiveReadStored
  <2>1. /\ lpc = "stored" /\ lstart' = lstart
        /\ \/ lpc' \in {"stored", "plan"}
           \/ lpc' = "compare" /\ lcursor' = lcursor /\ db.hot.blocks[lcursor] # NoHash
    BY <1>3 DEF LiveReadStored, NextToRevalidate
  <2> QED
    BY <1>1, <2>1 DEF WindowInv, HInv, HotBounded, Building
<1>4. CASE LiveCompare
  <2>1. /\ lpc = "compare"
        /\ \/ lpc' \in {"stored", "plan"} /\ lstart' = lstart
           \/ lpc' = "rollback" /\ lcursor' = lcursor
    BY <1>4 DEF LiveCompare, NextToRevalidate
  <2> QED
    BY <1>1, <2>1 DEF WindowInv, Building
<1>5. CASE LivePlan
  <2> DEFINE next == Larger(db.liveCheckpoint + 1, lstart)
  <2>1. CASE next <= llatest
    <3>1. lpc = "plan" /\ lpc' = "fetch" /\ lpayload'.from = next
      BY <1>5, <2>1 DEF LivePlan, NextRange, NewPayload
    <3>2. \A n \in Heights : db.hot.blocks[n] # NoHash => next = db.liveCheckpoint + 1
      BY <1>1, <3>1, BoundsAssumption DEF WindowInv, HInv, HotBounded, Larger, Heights
    <3> QED
      BY <1>1, <3>1, <3>2 DEF WindowInv
  <2>2. CASE ~(next <= llatest)
    BY <1>5, <2>2 DEF LivePlan, LiveGoTo, WindowInv, Building
  <2> QED
    BY <2>1, <2>2
<1>6. CASE LiveFetch \/ LiveFetchLogs \/ LiveValidate
  <2>1. lpc \in Building /\ lpc' \in Building /\ lpayload'.from = lpayload.from
    <3>1. lpayload \in RangePayload
      BY DEF HInv, LiveTypeOK
    <3> QED
      BY <1>6, <3>1, NoHotConflict
         DEF LiveFetch, LiveFetchLogs, LiveValidate, Building, WithBlock, WithLogs, RangePayload
  <2> QED
    BY <1>1, <2>1 DEF WindowInv, Building
<1> QED
  BY <1>2, <1>3, <1>4, <1>5, <1>6 DEF HotReads

\* Every step but a rollback by someone else preserves WindowInv, given HInv.
LEMMA WindowStep ==
  ASSUME HInv, WindowInv, HotStays
  PROVE  WindowInv'
<1>1. CASE HotReads
  BY <1>1, WindowReads
<1>2. CASE HotPrunes
  <2>1. \A n \in Heights : db'.hot.blocks[n] # NoHash => lstart <= n
    BY <1>2, BoundsAssumption DEF HotPrunes, HotPruned, HInv, LiveTypeOK, Heights
  <2> QED
    BY <1>2, <2>1 DEF HotPrunes, WindowInv, Building
<1>3. CASE HotCuts \/ HotCommits \/ HotExits
  BY <1>3 DEF HotCuts, HotCommits, HotExits, LiveGoTo, WindowInv, Building
<1>4. CASE HotThins
  BY <1>4 DEF HotThins, HotThinned, lvars, WindowInv
<1>5. CASE UNCHANGED <<db, lvars>>
  BY <1>5 DEF lvars, WindowInv
<1> QED
  BY <1>1, <1>2, <1>3, <1>4, <1>5 DEF HotStays

\* From the lowest hot block to the live checkpoint every block is stored or in S.
NoHole(d, S) ==
  \A m, n \in Heights :
    d.hot.blocks[m] # NoHash /\ m <= n /\ n <= d.liveCheckpoint
      => d.hot.blocks[n] # NoHash \/ n \in S

\* The worker leaves no hole if all that others remove is in the set.
LEMMA NoHoleStep ==
  ASSUME HInv, WindowInv, HotStays, NEW S, NEW T, S \subseteq T, NoHole(db, S),
         HotThins => \A n \in Heights :
                       db.hot.blocks[n] # NoHash => db'.hot.blocks[n] # NoHash \/ n \in T
  PROVE  NoHole(db', T)
<1>1. db.liveCheckpoint \in Nat /\ lcursor \in Nat /\ lstart \in Nat
  BY BoundsAssumption DEF HInv, LiveTypeOK, Database, Heights
<1>2. CASE HotReads \/ HotExits \/ UNCHANGED db
  <2>1. db' = db
    BY <1>2
       DEF HotExits, HotReads, LiveReadLatest, LiveWindow, LiveReadStored, LiveCompare, LivePlan,
           LiveFetch, LiveFetchLogs, LiveValidate
  <2> QED
    BY <2>1 DEF NoHole
<1>3. CASE HotPrunes
  BY <1>1, <1>3, BoundsAssumption DEF HotPrunes, HotPruned, NoHole, Heights
<1>4. CASE HotCuts
  <2>1. lcursor <= db.liveCheckpoint /\ HotCut(db, lcursor, db')
    BY <1>4 DEF HotCuts, WindowInv
  <2>2. \A n \in Heights : n <= Monus(lcursor, 1) => n < lcursor \/ lcursor = 0
    BY <1>1, BoundsAssumption DEF Monus, Heights
  <2> QED
    BY <1>1, <2>1, <2>2, BoundsAssumption DEF HotCut, NoHole, Heights
<1>5. CASE HotCommits
  <2> SUFFICES ASSUME NEW m \in Heights, NEW n \in Heights, db'.hot.blocks[m] # NoHash,
                      m <= n, n <= db'.liveCheckpoint
               PROVE  db'.hot.blocks[n] # NoHash \/ n \in T
    BY DEF NoHole
  <2>1. CASE n \in lpayload.from .. lpayload.upto
    BY <1>5, <2>1, CommitWrites
  <2>2. CASE n \notin lpayload.from .. lpayload.upto
    <3>1. n < lpayload.from /\ db'.hot.blocks[n] = db.hot.blocks[n]
      BY <1>5, <2>2, CommitWrites, BoundsAssumption DEF Heights
    <3>2. db.hot.blocks[m] # NoHash
      BY <1>5, <3>1, CommitWrites, BoundsAssumption DEF Heights
    <3>3. lpayload.from = db.liveCheckpoint + 1
      BY <1>5, <3>2 DEF WindowInv, HotCommits, Building
    <3>4. n <= db.liveCheckpoint
      BY <1>1, <3>1, <3>3, BoundsAssumption DEF Heights
    <3> QED
      BY <3>1, <3>2, <3>4 DEF NoHole
  <2> QED
    BY <2>1, <2>2
<1>6. CASE HotThins
  BY <1>6 DEF HotThins, HotThinned, NoHole
<1> QED
  BY <1>2, <1>3, <1>4, <1>5, <1>6 DEF HotStays

-----------------------------------------------------------------------------
(* The lane begins at START_BLOCK.                                         *)

\* Nothing below it is stored, and no range reaches below it or is longer than a batch.
FromStart ==
  /\ \A n \in Heights : db.hot.blocks[n] # NoHash => StartBlock <= n
  /\ lpc \in {"prune", "window", "stored", "compare", "plan"} => StartBlock <= lstart
  /\ lpc \in Building =>
       StartBlock <= lpayload.from /\ lpayload.upto < lpayload.from + BLOCK_BATCH_SIZE

\* The reads of the worker's loop keep it (compute_live_start_block and the range made
\* of max(live_checkpoint + 1, live_start_block)).
LEMMA FromStartReads ==
  ASSUME HInv, FromStart, HotReads
  PROVE  FromStart'
<1>1. /\ db' = db /\ db.liveCheckpoint \in Nat /\ lstart \in Nat /\ llatest \in Heights
      /\ StartBlock \in Nat /\ lpayload \in RangePayload
  BY BoundsAssumption, EngineAssumption
     DEF HotReads, LiveReadLatest, LiveWindow, LiveReadStored, LiveCompare, LivePlan, LiveFetch,
         LiveFetchLogs, LiveValidate, HInv, LiveTypeOK, Database, Heights
<1>2. CASE LiveReadLatest
  <2>1. chain.head \in Nat /\ StartBlock \in Nat
    BY ChainsAssumption, BoundsAssumption, EngineAssumption
       DEF HInv, LiveTypeOK, ChainTypeOK, Heights
  <2>2. StartBlock <= lstart'
    BY <1>2, <2>1, LiveStartAssumption, EngineAssumption
       DEF LiveReadLatest, get_latest_block_number, compute_live_start_block, Larger, Monus
  <2> QED
    BY <1>1, <1>2, <2>2 DEF LiveReadLatest, FromStart, Building
<1>3. CASE LiveWindow \/ LiveReadStored
  <2>1. /\ lpc \in {"window", "stored"} /\ lpc' \in {"stored", "plan", "compare"}
        /\ lstart' = lstart
    BY <1>3 DEF LiveWindow, LiveReadStored, NextToRevalidate
  <2> QED
    BY <1>1, <2>1 DEF FromStart, Building
<1>4. CASE LiveCompare
  <2>1. /\ lpc = "compare"
        /\ \/ lpc' \in {"stored", "plan"} /\ lstart' = lstart
           \/ lpc' = "rollback"
    BY <1>4 DEF LiveCompare, NextToRevalidate
  <2> QED
    BY <1>1, <2>1 DEF FromStart, Building
<1>5. CASE LivePlan
  <2> DEFINE next == Larger(db.liveCheckpoint + 1, lstart)
  <2>1. CASE next <= llatest
    <3>1. lpc = "plan" /\ lpc' = "fetch" /\ lpayload' = NextRange(next, llatest)
      BY <1>5, <2>1 DEF LivePlan
    <3>2. next \in Nat /\ StartBlock <= next
      BY <1>1, <3>1 DEF FromStart, Larger
    <3> HIDE DEF next
    <3>3. /\ lpayload'.from = next /\ lpayload'.upto \in Heights
          /\ lpayload'.upto <= next + BLOCK_BATCH_SIZE - 1
      BY <1>1, <2>1, <3>1, <3>2, NextRangeEffect
    <3>4. lpayload'.upto < next + BLOCK_BATCH_SIZE
      BY <3>2, <3>3, BoundsAssumption, EngineAssumption DEF Heights
    <3> QED
      BY <1>1, <3>1, <3>2, <3>3, <3>4 DEF FromStart
  <2>2. CASE ~(next <= llatest)
    BY <1>1, <1>5, <2>2 DEF LivePlan, LiveGoTo, FromStart, Building
  <2> QED
    BY <2>1, <2>2
<1>6. CASE LiveFetch \/ LiveFetchLogs \/ LiveValidate
  <2>1. /\ lpc \in Building
        /\ \/ lpc' = "rollback"
           \/ /\ lpc' \in Building
              /\ lpayload'.from = lpayload.from /\ lpayload'.upto = lpayload.upto
    BY <1>1, <1>6
       DEF LiveFetch, LiveFetchLogs, LiveValidate, Building, WithBlock, WithLogs, RangePayload
  <2> QED
    BY <1>1, <2>1 DEF FromStart, Building
<1> QED
  BY <1>2, <1>3, <1>4, <1>5, <1>6 DEF HotReads

\* Every step keeps it, whatever others remove.
LEMMA FromStartStep ==
  ASSUME HInv, FromStart, HotStays
  PROVE  FromStart'
<1>1. CASE HotReads
  BY <1>1, FromStartReads
<1>2. CASE HotPrunes
  BY <1>2 DEF HotPrunes, HotPruned, FromStart, Building
<1>3. CASE HotCuts
  BY <1>3 DEF HotCuts, HotCut, LiveGoTo, FromStart, Building
<1>4. CASE HotCommits
  <2>1. StartBlock <= lpayload.from
    BY <1>4 DEF HotCommits, FromStart, Building
  <2>2. \A n \in Heights : db'.hot.blocks[n] # NoHash => StartBlock <= n
    BY <1>4, <2>1, CommitWrites, BoundsAssumption, EngineAssumption DEF FromStart, Heights
  <2> QED
    BY <1>4, <2>2 DEF HotCommits, LiveGoTo, FromStart, Building
<1>5. CASE HotExits
  BY <1>5 DEF HotExits, LiveGoTo, FromStart, Building
<1>6. CASE HotThins
  BY <1>6 DEF HotThins, HotThinned, lvars, FromStart
<1>7. CASE UNCHANGED <<db, lvars>>
  BY <1>7 DEF lvars, FromStart
<1> QED
  BY <1>1, <1>2, <1>3, <1>4, <1>5, <1>6, <1>7 DEF HotStays

\* Nothing is stored at the start.
LEMMA FromStartStarts ==
  ASSUME db = MigratedDatabase, LiveLocalsInit
  PROVE  FromStart
BY DEF MigratedDatabase, EmptyLane, NoBlocks, LiveLocalsInit, FromStart, Building

-----------------------------------------------------------------------------
(* A rollback is justified, as for the backfill worker.                    *)

KInv ==
  /\ reorgs = 0 =>
       /\ \A n \in Heights : db.hot.blocks[n] \in {NoHash, chain.hash[n]}
       /\ \A n \in Heights : lpayload.indexed_blocks[n] \in {NoHash, chain.hash[n]}
       /\ lpc = "compare" => lstored = chain.hash[lcursor]
  /\ lpc = "rollback" =>
       /\ reorgs >= 1
       /\ reorgs = 1 => lcursor <= chain.head /\ db.hot.blocks[lcursor] # chain.hash[lcursor]

\* An extension keeps every block; another reorganization is the second.
LEMMA KeptByChain ==
  ASSUME HInv, KInv, ChainNext, UNCHANGED <<db, lvars>>
  PROVE  KInv'
<1>1. /\ ChainTypeOK /\ chain.head \in Nat /\ chain'.head \in Nat /\ reorgs \in Nat
      /\ lcursor \in Heights
      /\ UNCHANGED <<db, lpc, lcursor, lstored, lpayload>>
  BY ChainMoves, ChainsAssumption, BoundsAssumption
     DEF HInv, LiveTypeOK, ChainTypeOK, Heights, lvars
<1>2. CASE reorgs' = reorgs
  <2>1. /\ chain.head <= chain'.head
        /\ \A n \in Heights : chain.hash[n] # NoHash => chain'.hash[n] = chain.hash[n]
    BY <1>1, <1>2, ChainExtends
  <2>2. lcursor <= chain.head => lcursor <= chain'.head /\ chain.hash[lcursor] # NoHash
    BY <1>1, <2>1, ChainsAssumption, BoundsAssumption DEF ChainTypeOK, Heights
  <2> QED
    BY <1>1, <1>2, <2>1, <2>2 DEF KInv, HInv, StoredInv
<1>3. CASE reorgs' = reorgs + 1
  BY <1>1, <1>3 DEF KInv
<1> QED
  BY <1>1, <1>2, <1>3, ReorgCounts

\* Before the first reorganization no stored block differs from the chain.
LEMMA KeptByRevalidation ==
  ASSUME HInv, KInv, LiveReadStored \/ LiveCompare, UNCHANGED chainVars
  PROVE  KInv'
<1>1. /\ UNCHANGED <<chain, reorgs, db, lpayload>> /\ reorgs \in Nat /\ lcursor \in Heights
      /\ chain \in Chains
  BY BoundsAssumption
     DEF LiveReadStored, LiveCompare, chainVars, HInv, LiveTypeOK, ChainTypeOK
<1>2. CASE LiveReadStored
  <2>1. \/ lpc' \in {"stored", "plan"}
        \/ lpc' = "compare" /\ lcursor' = lcursor /\ lstored' = db.hot.blocks[lcursor]
             /\ lstored' # NoHash
    BY <1>2 DEF LiveReadStored, NextToRevalidate
  <2> QED
    BY <1>1, <2>1 DEF KInv
<1>3. CASE LiveCompare
  <2>1. \/ lpc' \in {"stored", "plan"}
        \/ /\ lpc = "compare" /\ lpc' = "rollback" /\ lcursor' = lcursor
           /\ lstored # chain.hash[lcursor] /\ chain.hash[lcursor] # NoHash
    BY <1>3 DEF LiveCompare, NextToRevalidate, get_block_metadata
  <2>2. chain.hash[lcursor] # NoHash => lcursor <= chain.head
    BY <1>1, ChainsAssumption
  <2> QED
    BY <1>1, <2>1, <2>2 DEF KInv, HInv, StoredInv
<1> QED
  BY <1>2, <1>3

\* What is fetched is canonical when it is answered.
LEMMA KeptByBuild ==
  ASSUME HInv, KInv, HotReads, ~LiveReadStored, ~LiveCompare, UNCHANGED chainVars
  PROVE  KInv'
<1>1. /\ lpayload \in RangePayload /\ chain \in Chains /\ UNCHANGED <<chain, reorgs, db>>
      /\ db.liveCheckpoint \in Nat /\ llatest \in Heights /\ lstart \in Nat
  BY BoundsAssumption
     DEF HInv, LiveTypeOK, ChainTypeOK, Database, Heights, HotReads, LiveReadLatest, LiveWindow,
         LivePlan, LiveFetch, LiveFetchLogs, LiveValidate, chainVars
<1>2. lpc' \notin {"compare", "rollback"}
  BY NoHotConflict
     DEF HotReads, LiveReadLatest, LiveWindow, LivePlan, LiveFetch, LiveFetchLogs, LiveValidate,
         LiveGoTo
<1>3. \A n \in Heights :
        lpayload'.indexed_blocks[n] \in {NoHash, chain.hash[n], lpayload.indexed_blocks[n]}
  <2>1. CASE LiveReadLatest \/ LiveWindow \/ LiveValidate
    BY <2>1, NoHotConflict DEF LiveReadLatest, LiveWindow, LiveValidate
  <2>2. CASE LivePlan
    BY <2>2 DEF LivePlan, NextRange, LiveGoTo, NoPayload, NewPayload, NoBlocks
  <2>3. CASE LiveFetch
    <3>1. PICK n \in InFlight(lpayload) : lpayload' = WithBlock(lpayload, n)
      BY <2>3 DEF LiveFetch
    <3>2. n \in Heights
      BY <1>1, <2>3, BoundsAssumption
         DEF InFlight, HInv, HotRangeInv, RangePayload, Heights, LiveFetch, Building
    <3> QED
      BY <1>1, <3>1, <3>2, WithBlockEffect DEF get_block_metadata
  <2>4. CASE LiveFetchLogs
    BY <2>4 DEF LiveFetchLogs, WithLogs
  <2> QED
    BY <2>1, <2>2, <2>3, <2>4 DEF HotReads
<1> QED
  BY <1>1, <1>2, <1>3 DEF KInv

\* A commit stores what the payload holds; nothing else stores anything.
LEMMA KeptByWrite ==
  ASSUME HInv, KInv, UNCHANGED chainVars,
         HotPrunes \/ HotCuts \/ HotCommits \/ HotExits \/ HotThins
  PROVE  KInv'
<1>1. UNCHANGED <<chain, reorgs>> /\ chain \in Chains /\ lcursor \in Heights
  BY DEF chainVars, HInv, LiveTypeOK, ChainTypeOK
<1>2. CASE HotPrunes
  BY <1>1, <1>2 DEF HotPrunes, HotPruned, KInv
<1>3. CASE HotCuts \/ HotExits
  <2>1. \A n \in Heights : db'.hot.blocks[n] \in {NoHash, db.hot.blocks[n]}
    BY <1>3 DEF HotCuts, HotCut, HotExits
  <2> QED
    BY <1>1, <1>3, <2>1
       DEF HotCuts, HotExits, LiveGoTo, NoPayload, NewPayload, NoBlocks, KInv
<1>4. CASE HotCommits
  <2>1. \A n \in Heights :
          db'.hot.blocks[n] \in {lpayload.indexed_blocks[n], db.hot.blocks[n]}
    BY <1>4, CommitWrites
  <2> QED
    BY <1>1, <1>4, <2>1 DEF HotCommits, LiveGoTo, NoPayload, NewPayload, NoBlocks, KInv
<1>5. CASE HotThins
  <2>1. \A n \in Heights : db'.hot.blocks[n] \in {NoHash, db.hot.blocks[n]}
    BY <1>5 DEF HotThins, HotThinned
  <2>2. UNCHANGED <<lpc, lcursor, lstored, lpayload>>
    BY <1>5 DEF HotThins, lvars
  <2>3. lcursor <= chain.head => chain.hash[lcursor] # NoHash
    BY <1>1, ChainsAssumption
  <2> QED
    BY <1>1, <2>1, <2>2, <2>3 DEF KInv
<1> QED
  BY <1>2, <1>3, <1>4, <1>5

\* Every step preserves KInv, given HInv.
LEMMA KeptStep ==
  ASSUME HInv, KInv, HotStays
  PROVE  KInv'
<1>1. CASE HotReads /\ UNCHANGED chainVars
  BY <1>1, KeptByRevalidation, KeptByBuild
<1>2. CASE ChainNext /\ UNCHANGED <<db, lvars>>
  BY <1>2, KeptByChain
<1> QED
  BY <1>1, <1>2, KeptByWrite DEF HotStays

\* At the start nothing is stored.
LEMMA KeptStarts ==
  ASSUME db = MigratedDatabase, LiveLocalsInit, NEW S
  PROVE  KInv /\ WindowInv /\ HotRowsBelongToBlocks /\ NoHole(db, S)
BY DEF MigratedDatabase, EmptyLane, NoBlocks, NoTransfers, LiveLocalsInit, NoPayload, NewPayload,
       KInv, WindowInv, HotRowsBelongToBlocks, NoHole, Building

\* What KInv says of a rollback is that it is justified.
LEMMA KeptJustifies == HInv /\ KInv => HotRollbackJustified
BY BoundsAssumption DEF HInv, LiveTypeOK, ChainTypeOK, KInv, HotRollbackJustified

-----------------------------------------------------------------------------
(* The worker alone.                                                     *)

\* Each action of the loop is one of the steps the invariants are about.
LEMMA LoopIsHot ==
  ASSUME HInv, LiveLoop
  PROVE  /\ HotReads \/ HotPrunes \/ HotCuts \/ HotCommits
         /\ db'.cold = db.cold /\ db'.checkpoint = db.checkpoint
         /\ db' \in Database
         /\ RowsFollow
<1>1. db \in Database /\ lstart \in Nat /\ lcursor \in Heights
  BY DEF HInv, LiveTypeOK
<1>2. CASE HotReads
  <2>1. db' = db
    BY <1>2
       DEF HotReads, LiveReadLatest, LiveWindow, LiveReadStored, LiveCompare, LivePlan,
           LiveFetch, LiveFetchLogs, LiveValidate
  <2> QED
    BY <1>1, <1>2, <2>1 DEF RowsFollow, RowsKeptOrGone
<1>3. CASE LivePrune
  BY <1>1, <1>3, PruneHotEffect DEF LivePrune, HotPrunes, HotPruned, RowsFollow
<1>4. CASE LiveRollback
  BY <1>1, <1>4, RollbackHotEffect DEF LiveRollback, HotCuts, HotCut, RowsFollow
<1>5. CASE LiveCommit
  <2>1. /\ lpayload.transfer_records \in [Heights -> SUBSET Row]
        /\ lpayload.indexed_blocks \in [Heights -> HashOrNone]
        /\ lpayload.upto \in Heights
    BY <1>5 DEF LiveCommit, HInv, LiveTypeOK, RangePayload, HotRangeInv, Building
  <2>2. /\ HotCommitted(db, lpayload.indexed_blocks, lpayload.upto, db')
        /\ db'.cold = db.cold /\ db'.checkpoint = db.checkpoint
        /\ \A m \in Heights :
             db'.hot.transfers[m] \subseteq
               db.hot.transfers[m] \cup lpayload.transfer_records[m]
    BY <1>1, <1>5, <2>1, CommitHotEffect DEF LiveCommit
  <2>3. db' \in Database
    BY <2>2 DEF HotCommitted
  <2>4. HotCommits
    BY <1>5, <2>2 DEF LiveCommit, HotCommits
  <2> QED
    BY <2>2, <2>3, <2>4 DEF RowsFollow
<1> QED
  BY <1>2, <1>3, <1>4, <1>5 DEF LiveLoop, HotReads

\* So is every step of the worker's process; nothing is removed by anyone else.
LEMMA LiveIsHot ==
  ASSUME HInv, [LiveNext]_liveVars
  PROVE  HotStays /\ RowsFollow /\ (HotThins => UNCHANGED db)
<1>1. CASE LiveLoop /\ UNCHANGED chainVars
  <2>1. ~UNCHANGED lvars \/ UNCHANGED db
    BY <1>1
       DEF LiveLoop, LiveReadLatest, LivePrune, LiveWindow, LiveReadStored, LiveCompare,
           LiveRollback, LivePlan, LiveFetch, LiveFetchLogs, LiveValidate, LiveCommit, LiveGoTo,
           lvars
  <2> QED
    BY <1>1, <2>1, LoopIsHot DEF HotStays, HotThins
<1>2. CASE (LiveNotFound \/ LiveErrs \/ LiveRestart) /\ UNCHANGED chainVars
  BY <1>2
     DEF LiveNotFound, LiveErrs, LiveRestart, HotExits, HotStays, RowsFollow, RowsKeptOrGone
<1>3. CASE ChainNext /\ UNCHANGED <<db, lvars>>
  BY <1>3 DEF HotStays, RowsFollow, RowsKeptOrGone
<1>4. CASE UNCHANGED liveVars
  <2>1. HotThins
    BY <1>4 DEF liveVars, HotThins, HotThinned, HInv, LiveTypeOK
  <2> QED
    BY <1>4, <2>1 DEF liveVars, HotStays, RowsFollow, RowsKeptOrGone
<1> QED
  BY <1>1, <1>2, <1>3, <1>4 DEF LiveNext, LiveStep

\* All that is invariant of the worker alone.
LiveInv == HInv /\ WindowInv /\ KInv /\ NoHole(db, {}) /\ HotRowsBelongToBlocks

\* It holds in every reachable state: the inductive core of what follows.
THEOREM LiveInvariant == LiveSpec => []LiveInv
<1>1. LiveInit => LiveInv
  <2> SUFFICES ASSUME LiveInit PROVE LiveInv
    OBVIOUS
  <2>1. NoHole(db, {})
    BY KeptStarts DEF LiveInit
  <2> QED
    BY <2>1, ChainStarts, LiveStarts, KeptStarts DEF LiveInit, LiveInv
<1>2. LiveInv /\ [LiveNext]_liveVars => LiveInv'
  <2> SUFFICES ASSUME LiveInv, [LiveNext]_liveVars PROVE LiveInv'
    OBVIOUS
  <2>1. HotStays /\ RowsFollow /\ (HotThins => UNCHANGED db)
    BY LiveIsHot DEF LiveInv
  <2>2. HInv' /\ WindowInv' /\ KInv' /\ HotRowsBelongToBlocks'
    BY <2>1, HotStepPreserves, WindowStep, KeptStep, RowsStayWithBlocks DEF LiveInv
  <2>3. NoHole(db', {})
    BY <2>1, NoHoleStep DEF LiveInv
  <2> QED
    BY <2>2, <2>3 DEF LiveInv, NoHole
<1> QED
  BY <1>1, <1>2, PTL DEF LiveSpec

\* Every variable of the live worker keeps its type.
THEOREM LiveTypeCorrect == LiveSpec => []LiveTypeOK
<1>1. LiveInv => LiveTypeOK
  BY DEF LiveInv, HInv
<1> QED
  BY <1>1, LiveInvariant, PTL

\* Whatever the chain does, however the windows lie and whenever the process dies, the hot
\* lane is one run of blocks that ends at the live checkpoint.
THEOREM LiveContiguous == LiveSpec => []HotContiguous
<1>1. LiveInv => HotContiguous
  BY DEF LiveInv, HInv, HotBounded, NoHole, HotContiguous
<1> QED
  BY <1>1, LiveInvariant, PTL

\* A hot transfer row carries the hash of the block stored at its height.
THEOREM LiveRowsBelong == LiveSpec => []HotRowsBelongToBlocks
<1>1. LiveInv => HotRowsBelongToBlocks
  BY DEF LiveInv
<1> QED
  BY <1>1, LiveInvariant, PTL

\* Hot blocks are deleted from one that the chain replaced, never from one that the
\* provider merely does not serve.
THEOREM LiveRollbackJustified == LiveSpec => []HotRollbackJustified
<1>1. LiveInv => HotRollbackJustified
  BY KeptJustifies DEF LiveInv
<1> QED
  BY <1>1, LiveInvariant, PTL
-----------------------------------------------------------------------------
(* Refinement of ServedChain by the worker alone.                          *)

\* A prune, a rollback and a commit each do one thing to the run, nothing else does any.
LEMMA WindowRefines ==
  ASSUME LiveInv, FromStart, StartBlock >= 1, HotStays, HotThins => UNCHANGED db
  PROVE  [Window!Next]_<<0, db.hot.blocks>>
<1>1. /\ HInv /\ WindowInv /\ NoHole(db, {}) /\ StartBlock \in Nat /\ lcursor \in Nat
      /\ lstart \in Nat /\ db.liveCheckpoint \in Heights /\ lpayload \in RangePayload
      /\ db.hot.blocks \in [Heights -> HashOrNone]
  BY BoundsAssumption, EngineAssumption
     DEF LiveInv, HInv, LiveTypeOK, Database, Lane, Heights
<1> DEFINE R == Window!Recent
<1>2. R = {n \in Heights : n > 0 /\ db.hot.blocks[n] # NoHash}
  BY DEF Window!Recent
<1>3. \A n \in Heights : n \in Nat /\ (db.hot.blocks[n] # NoHash => n \in R)
  BY <1>1, <1>2, BoundsAssumption DEF FromStart, Heights
<1>4. ASSUME NEW S, S \subseteq R,
             \A n \in Heights : db'.hot.blocks[n] = IF n \in S THEN NoHash ELSE db.hot.blocks[n]
      PROVE  Window!Dropped(S)
  BY <1>4 DEF Window!Dropped
<1>5. CASE HotPrunes
  <2> DEFINE S == {n \in R : n < lstart}
  <2>1. S \subseteq R /\ \A m \in S, n \in R \ S : m < n
    BY <1>1, <1>2, BoundsAssumption DEF Heights
  <2>2. \A n \in Heights :
          db'.hot.blocks[n] = IF n \in S THEN NoHash ELSE db.hot.blocks[n]
    BY <1>3, <1>5 DEF HotPrunes, HotPruned
  <2> HIDE DEF S
  <2>3. Window!Forget
    BY <1>4, <2>1, <2>2 DEF Window!Forget
  <2> QED
    BY <2>3 DEF Window!Next
<1>6. CASE HotCuts
  <2> DEFINE S == {n \in R : n >= lcursor}
  <2>1. S \subseteq R /\ \A m \in S, n \in R \ S : n < m
    BY <1>1, <1>2, BoundsAssumption DEF Heights
  <2>2. \A n \in Heights :
          db'.hot.blocks[n] = IF n \in S THEN NoHash ELSE db.hot.blocks[n]
    BY <1>3, <1>6 DEF HotCuts, HotCut
  <2> HIDE DEF S
  <2>3. Window!Withdraw
    BY <1>4, <2>1, <2>2 DEF Window!Withdraw
  <2> QED
    BY <2>3 DEF Window!Next
<1>7. CASE HotCommits
  <2> DEFINE a == lpayload.from
             b == lpayload.upto
  <2>1. /\ a \in Nat /\ b \in Heights /\ a <= b
        /\ lpayload.indexed_blocks \in [Heights -> HashOrNone]
        /\ \A n \in Heights : db.hot.blocks[n] # NoHash => n < a
        /\ \A n \in Heights : db'.hot.blocks[n] =
             IF n \in a .. b THEN lpayload.indexed_blocks[n] ELSE db.hot.blocks[n]
        /\ \A n \in Heights : n \in a .. b <=> lpayload.indexed_blocks[n] # NoHash
    BY <1>1, <1>7, CommitWrites DEF RangePayload
  <2>2. StartBlock <= a /\ b < a + BLOCK_BATCH_SIZE
    BY <1>7 DEF HotCommits, FromStart, Building
  <2>3. Window!Written(a .. b)
    BY <2>1 DEF Window!Written, HashOrNone
  <2>4. ASSUME NEW n \in R
        PROVE  n < a /\ a - 1 \in R
    <3>1. n \in Heights /\ n \in Nat /\ db.hot.blocks[n] # NoHash
      BY <1>2, <1>3, <2>4
    <3>2. a = db.liveCheckpoint + 1 /\ n < a
      BY <1>1, <1>7, <2>1, <3>1 DEF HotCommits, WindowInv, Building
    <3>3. db.liveCheckpoint \in Nat /\ a - 1 = db.liveCheckpoint /\ n <= db.liveCheckpoint
      BY <1>1, <3>1, <3>2, BoundsAssumption DEF Heights
    <3>4. db.hot.blocks[db.liveCheckpoint] # NoHash
      BY <1>1, <3>1, <3>3 DEF NoHole
    <3> QED
      BY <1>1, <1>3, <3>2, <3>3, <3>4
  <2>5. a \in Heights
    BY <2>1, BoundsAssumption DEF Heights
  <2>6. Window!Next1 <= a
    BY <1>1, <2>2, EngineAssumption DEF Window!Next1
  <2> HIDE DEF a, b
  <2>7. Window!Advance
    BY <2>1, <2>2, <2>3, <2>4, <2>5, <2>6 DEF Window!Advance
  <2> QED
    BY <2>7 DEF Window!Next
<1>8. CASE HotReads \/ HotExits \/ HotThins \/ UNCHANGED db
  BY <1>8
     DEF HotExits, HotReads, LiveReadLatest, LiveWindow, LiveReadStored, LiveCompare, LivePlan,
         LiveFetch, LiveFetchLogs, LiveValidate
<1> QED
  BY <1>5, <1>6, <1>7, <1>8 DEF HotStays

\* Seen through the hot lane alone, the worker over any chain, with its crashes and
\* restarts, is a run of blocks that gets longer at its end or is cut at an end.
THEOREM LiveImplementsWindow ==
  ASSUME StartBlock >= 1
  PROVE  LiveSpec => ImplementsWindow
<1>1. LiveInit => FromStart /\ Window!Init
  BY FromStartStarts
     DEF LiveInit, MigratedDatabase, EmptyLane, NoBlocks, Window!Init
<1>2. LiveInv /\ FromStart /\ [LiveNext]_liveVars =>
        FromStart' /\ [Window!Next]_<<0, db.hot.blocks>>
  <2> SUFFICES ASSUME LiveInv, FromStart, [LiveNext]_liveVars
               PROVE  FromStart' /\ [Window!Next]_<<0, db.hot.blocks>>
    OBVIOUS
  <2>1. HInv /\ HotStays /\ (HotThins => UNCHANGED db)
    BY LiveIsHot DEF LiveInv
  <2> QED
    BY <2>1, FromStartStep, WindowRefines
<1>3. LiveSpec => []FromStart
  BY <1>1, <1>2, LiveInvariant, PTL DEF LiveSpec
<1> QED
  BY <1>1, <1>2, <1>3, LiveInvariant, PTL DEF LiveSpec, ImplementsWindow, Window!Spec
=============================================================================
