------------------------- MODULE IndexerTxRowProofs -------------------------
(***************************************************************************)
(* Theorems about the transfer rows of the hot lane when the chain does    *)
(* not reorganize deeper than CONFIRMATION_DEPTH.                          *)
(*                                                                         *)
(* rollback_hot_from_block deletes the rows that are committed when its    *)
(* first statement starts, and DO NOTHING keeps a row that is there        *)
(* already: RowsInv says why neither leaves a row under a block of another *)
(* branch, although the backfill worker commits between the statements.    *)
(***************************************************************************)
EXTENDS IndexerTxProofs

\* The rows lie where the blocks do: none above the live checkpoint, or in the range the
\* live worker is building.
RowsBounded ==
  /\ \A n \in Heights : db.hot.transfers[n] # {} => n <= db.liveCheckpoint
  /\ lpc \in Building => \A n \in Heights : db.hot.transfers[n] # {} => n < lpayload.from

\* What the open transactions have written and deleted: the backfill worker writes no hot
\* row, the live worker those of its range, and its rollback has found all there are.
RowsHeld ==
  /\ \A n \in Heights : tx["backfill"].new.transfers[n] = {}
  /\ \A n \in Heights : tx["live"].new.transfers[n] # {} =>
       lpc = "commit" /\ tx["live"].new.transfers[n] \subseteq lpayload.transfer_records[n]
  /\ lpc = "rollback" /\ tx["live"].step >= 1 =>
       \A n \in Heights : n >= lcursor =>
         db.hot.transfers[n] \subseteq tx["live"].gone.transfers[n]

RowsInv == RowsBounded /\ RowsHeld /\ NoRowOfReplacedBlock

-----------------------------------------------------------------------------
(* The statement on transfers. *)

\* The first statement is the one on transfers.
LEMMA FirstOnRows ==
  ASSUME NEW S, NEW R, NEW B
  PROVE  LET d == [op |-> "delete_transfers", on |-> S]
             i == [op |-> "insert_transfers", rows |-> R]
         IN  /\ DeleteFromHot(S)[1] = d
             /\ (DeleteFromHot(S) \o UpdateLiveCheckpoint)[1] = d
             /\ (InsertIntoHot(R, B) \o UpdateLiveCheckpoint)[1] = i
<1>1. ASSUME NEW a, NEW b, NEW c PROVE <<a, b>>[1] = a /\ (<<a, b>> \o <<c>>)[1] = a
  <2> DEFINE T == {a, b, c}
  <2>1. <<a, b>> \in Seq(T) /\ <<c>> \in Seq(T)
    OBVIOUS
  <2> QED
    BY <2>1
<1> DEFINE a1 == [op |-> "delete_transfers", on |-> S]
           b1 == [op |-> "delete_blocks", on |-> S]
           a2 == [op |-> "insert_transfers", rows |-> R]
           b2 == [op |-> "insert_blocks", rows |-> B]
           c == [op |-> "update_checkpoint"]
<1>2. /\ DeleteFromHot(S) = <<a1, b1>> /\ InsertIntoHot(R, B) = <<a2, b2>>
      /\ UpdateLiveCheckpoint = <<c>>
  BY DEF DeleteFromHot, InsertIntoHot, UpdateLiveCheckpoint
<1> HIDE DEF a1, b1, a2, b2, c
<1>3. DeleteFromHot(S)[1] = a1 /\ (DeleteFromHot(S) \o UpdateLiveCheckpoint)[1] = a1
  BY <1>1, <1>2
<1>4. (InsertIntoHot(R, B) \o UpdateLiveCheckpoint)[1] = a2
  BY <1>1, <1>2
<1> QED
  BY <1>3, <1>4 DEF a1, a2

\* What a statement does to the rows a transaction holds.
LEMMA ExecuteRows ==
  ASSUME TxTyped, NEW w \in Workers, NEW st, InOrder(st), Execute(w, st)
  PROVE  LET s == st[tx[w].step + 1] IN
           /\ tx'[w].gone.transfers = RowsGone(s, tx[w].gone.transfers)
           /\ tx'[w].new.transfers = RowsNew(s, tx[w].new.transfers)
           /\ s.op \in {"delete_transfers", "insert_transfers"} <=> tx[w].step = 0
<1> DEFINE t == tx[w]
           s == st[t.step + 1]
           gb == t.gone.blocks
           gt == t.gone.transfers
           nb == t.new.blocks
           nt == t.new.transfers
<1>1. t \in Transaction /\ t.step \in 0 .. 3
  BY TypeRecord DEF TxTyped
<1>2. t.step + 1 \in 1 .. Len(st) /\ Len(st) \in 0 .. 3
  BY <1>1 DEF Execute, InOrder
<1>3. s.op \in Ops /\ Class(s) = t.step + 1
  BY <1>2 DEF InOrder
<1>4. s.op \in {"delete_transfers", "insert_transfers"} <=> t.step = 0
  BY <1>1, <1>3 DEF Class, Ops
<1>5. t = Record(t.step, gb, gt, nb, nt, t.checkpoint)
  BY <1>1, TypeRecord
<1>6. tx' = [tx EXCEPT ![w] = After(t, s)] /\ DOMAIN tx = Workers
  BY DEF Execute, TxTyped
<1>7. ASSUME NEW k, NEW gb2, NEW gt2, NEW nb2, NEW nt2, NEW c
      PROVE  LET r == Record(k, gb2, gt2, nb2, nt2, c) IN
               r.gone.transfers = gt2 /\ r.new.transfers = nt2
  BY DEF Record
<1> HIDE DEF s, gb, gt, nb, nt
<1>8. After(t, s).gone.transfers = RowsGone(s, gt) /\ After(t, s).new.transfers = RowsNew(s, nt)
  <2>1. CASE s.op = "update_checkpoint"
    <3>1. PICK x \in BOOLEAN : After(t, s) = Record(t.step + 1, gb, gt, nb, nt, x)
      BY <1>1, <1>5, <2>1, RecordUpdated
    <3>2. RowsGone(s, gt) = gt /\ RowsNew(s, nt) = nt
      BY <2>1 DEF RowsGone, RowsNew
    <3> QED
      BY <1>7, <3>1, <3>2
  <2>2. CASE s.op # "update_checkpoint"
    <3>1. After(t, s) = Record(t.step + 1, BlocksGone(s, gb), RowsGone(s, gt), BlocksNew(s, nb),
                               RowsNew(s, nt), t.checkpoint)
      BY <1>1, <1>3, <1>5, <2>2, RecordAfter
    <3> QED
      BY <1>7, <3>1
  <2> QED
    BY <2>1, <2>2
<1> QED
  BY <1>4, <1>6, <1>8 DEF s, gt, nt

\* What an insert brings is of the records.
LEMMA InsertedRowsEffect ==
  ASSUME NEW s, s.rows \in [Heights -> SUBSET Row], NEW n \in Heights
  PROVE  InsertedRows(s)[n] \subseteq s.rows[n]
BY DEF InsertedRows, insert_transfers_into_tx

\* The live worker's statement on transfers finds all it is to delete, or brings its range.
LEMMA LiveStatementRows ==
  ASSUME SInv, RowsInv, LiveStatement
  PROVE  RowsHeld'
<1> DEFINE t == tx["live"]
           s == live_statements[t.step + 1]
<1>1. /\ TxTyped /\ InOrder(live_statements) /\ Execute("live", live_statements)
      /\ "live" \in Workers /\ "backfill" \in Workers /\ t.step \in Nat
      /\ UNCHANGED <<db, lpc, lstart, lcursor, lpayload>>
      /\ lpayload.transfer_records \in [Heights -> SUBSET Row]
      /\ RowsHeld
  BY LiveInOrder, TypeRecord
     DEF SInv, DInv, TxTyped, LShape, LiveTypeOK, RangePayload, LiveStatement, lvars, Workers,
         RowsInv
<1>2. /\ tx'["live"].gone.transfers = RowsGone(s, t.gone.transfers)
      /\ tx'["live"].new.transfers = RowsNew(s, t.new.transfers)
      /\ s.op \in {"delete_transfers", "insert_transfers"} <=> t.step = 0
  BY <1>1, ExecuteRows
<1>3. tx'["backfill"] = tx["backfill"]
  BY <1>1, ExecuteBlocks
<1>4. lpc \in {"prune", "rollback", "commit"}
  <2>1. live_statements # <<>>
    BY <1>1 DEF Execute
  <2> QED
    BY <2>1 DEF live_statements
<1> HIDE DEF s
<1>5. CASE t.step # 0
  <2>1. /\ tx'["live"].gone.transfers = t.gone.transfers
        /\ tx'["live"].new.transfers = t.new.transfers
    BY <1>2, <1>5 DEF RowsGone, RowsNew
  <2>2. t.step >= 1
    BY <1>1, <1>5
  <2> QED
    BY <1>1, <1>3, <2>1, <2>2 DEF RowsHeld
<1>6. CASE t.step = 0 /\ lpc \in {"prune", "rollback"}
  <2> DEFINE S == IF lpc = "prune" THEN {m \in Heights : m < lstart} ELSE From(lcursor)
  <2>1. s = [op |-> "delete_transfers", on |-> S]
    <3>1. \/ live_statements = DeleteFromHot(S)
          \/ live_statements = DeleteFromHot(S) \o UpdateLiveCheckpoint
      BY <1>6 DEF live_statements
    <3> HIDE DEF S
    <3>2. live_statements[1] = [op |-> "delete_transfers", on |-> S]
      BY <3>1, FirstOnRows
    <3>3. s = live_statements[1]
      BY <1>6 DEF s
    <3> QED
      BY <3>2, <3>3
  <2>2. \A n \in Heights : lpc = "rollback" /\ n >= lcursor => n \in S
    BY DEF From
  <2> HIDE DEF S
  <2>3. /\ \A n \in Heights : n \in S => tx'["live"].gone.transfers[n] = db.hot.transfers[n]
        /\ tx'["live"].new.transfers = t.new.transfers
    BY <1>2, <2>1 DEF RowsGone, RowsNew, DeletedRows
  <2> QED
    BY <1>1, <1>3, <2>2, <2>3 DEF RowsHeld
<1>7. CASE t.step = 0 /\ lpc = "commit"
  <2>1. s = [op |-> "insert_transfers", rows |-> lpayload.transfer_records]
    <3>1. live_statements = InsertIntoHot(lpayload.transfer_records, lpayload.indexed_blocks)
                              \o UpdateLiveCheckpoint
      BY <1>7 DEF live_statements
    <3>2. live_statements[1] = [op |-> "insert_transfers", rows |-> lpayload.transfer_records]
      BY <3>1, FirstOnRows, ZenonT(60)
    <3>3. s = live_statements[1]
      BY <1>7 DEF s
    <3> QED
      BY <3>2, <3>3
  <2>2. tx'["live"].new.transfers = InsertedRows(s) /\ s.rows = lpayload.transfer_records
    BY <1>2, <2>1 DEF RowsNew
  <2>3. \A n \in Heights : tx'["live"].new.transfers[n] \subseteq lpayload.transfer_records[n]
    BY <1>1, <2>2, InsertedRowsEffect
  <2> QED
    BY <1>1, <1>3, <1>7, <2>3 DEF RowsHeld
<1> QED
  BY <1>4, <1>5, <1>6, <1>7

\* The backfill worker's statements on transfers bring none.
LEMMA BackfillStatementRows ==
  ASSUME SInv, RowsInv, BackfillStatement, UNCHANGED lvars
  PROVE  RowsHeld'
<1> DEFINE t == tx["backfill"]
           s == backfill_statements[t.step + 1]
<1>1. /\ TxTyped /\ InOrder(backfill_statements) /\ Execute("backfill", backfill_statements)
      /\ "live" \in Workers /\ "backfill" \in Workers /\ bpc # "rollback" /\ t.step \in Nat
      /\ UNCHANGED <<db, lpc, lcursor, lpayload>>
      /\ RowsHeld
  BY BackfillInOrder, TypeRecord
     DEF SInv, DInv, FInv, SettledInv, TxTyped, BackfillStatement, lvars, Workers, RowsInv
<1>2. /\ tx'["backfill"].new.transfers = RowsNew(s, t.new.transfers)
      /\ s.op \in {"delete_transfers", "insert_transfers"} <=> t.step = 0
  BY <1>1, ExecuteRows
<1>3. tx'["live"] = tx["live"]
  BY <1>1, ExecuteBlocks
<1>4. bpc = "commit"
  <2>1. backfill_statements # <<>>
    BY <1>1 DEF Execute
  <2> QED
    BY <1>1, <2>1 DEF backfill_statements
<1> HIDE DEF s
<1>5. tx'["backfill"].new.transfers = t.new.transfers
  <2>1. CASE t.step # 0
    BY <1>2, <2>1 DEF RowsNew
  <2>2. CASE t.step = 0
    <3> DEFINE S == bpayload.from .. bpayload.upto
    <3>1. backfill_statements = DeleteFromHot(S)
      BY <1>4 DEF backfill_statements
    <3> HIDE DEF S
    <3>2. backfill_statements[1] = [op |-> "delete_transfers", on |-> S]
      BY <3>1, FirstOnRows
    <3>3. s = backfill_statements[1]
      BY <2>2 DEF s
    <3> QED
      BY <1>2, <3>2, <3>3 DEF RowsNew
  <2> QED
    BY <2>1, <2>2
<1> QED
  BY <1>1, <1>3, <1>5 DEF RowsHeld

-----------------------------------------------------------------------------
(* What a step does to the hot rows. *)

\* Rows and blocks may leave the lane.
RowsThin ==
  /\ db'.liveCheckpoint = db.liveCheckpoint
  /\ \A n \in Heights : /\ db'.hot.transfers[n] \subseteq db.hot.transfers[n]
                        /\ db'.hot.blocks[n] \in {NoHash, db.hot.blocks[n]}

\* The live worker rolls rows and blocks back together.
RowsCut ==
  /\ HotCuts
  /\ \A n \in Heights : /\ db'.hot.transfers[n] \subseteq db.hot.transfers[n]
                        /\ n >= lcursor => db'.hot.transfers[n] = {}

\* It commits a range with its records.
RowsCommit ==
  /\ HotCommits
  /\ \A n \in Heights :
       db'.hot.transfers[n] \subseteq db.hot.transfers[n] \cup lpayload.transfer_records[n]

\* COMMIT: the rows are those of the statements.
LEMMA CommitRows ==
  ASSUME NEW w \in Workers, NEW d \in Database, NEW n \in Heights
  PROVE  CommitOf(w, d).hot.transfers[n] =
           (db.hot.transfers[n] \ tx[w].gone.transfers[n]) \cup tx[w].new.transfers[n]
<1> DEFINE rs == [m \in Heights |->
                   (db.hot.transfers[m] \ tx[w].gone.transfers[m]) \cup tx[w].new.transfers[m]]
<1>1. CommitOf(w, d).hot.transfers = rs
  BY DEF CommitOf, Database
<1> QED
  BY <1>1

\* COMMIT of the live worker.
LEMMA LiveCommitsRows ==
  ASSUME SInv, RowsInv, LiveCommitsPrune \/ LiveCommits
  PROVE  RowsThin \/ RowsCut \/ RowsCommit
<1> DEFINE t == tx["live"]
<1>1. /\ db \in Database /\ "live" \in Workers /\ lcursor \in Heights /\ lstart \in Nat
      /\ lpayload \in RangePayload /\ RowsHeld
  BY DEF SInv, DInv, LShape, LiveTypeOK, Workers, RowsInv
<1>2. \A n \in Heights :
        db'.hot.transfers[n] = (db.hot.transfers[n] \ t.gone.transfers[n]) \cup t.new.transfers[n]
  <2>1. CASE LiveCommitsPrune
    <3>1. prune_hot_before_block(db, lstart) \in Database
      BY <1>1, PruneHotEffect DEF HotPruned
    <3> QED
      BY <1>1, <2>1, <3>1, CommitRows DEF LiveCommitsPrune
  <2>2. CASE LiveCommits /\ lpc = "rollback"
    <3>1. rollback_hot_from_block(db, lcursor) \in Database
      BY <1>1, RollbackHotEffect DEF HotCut
    <3> QED
      BY <1>1, <2>2, <3>1, CommitRows DEF LiveCommits
  <2>3. CASE LiveCommits /\ lpc = "commit"
    <3>1. /\ lpayload.transfer_records \in [Heights -> SUBSET Row]
          /\ lpayload.indexed_blocks \in [Heights -> HashOrNone]
          /\ lpayload.upto \in Heights
      BY <1>1, <2>3 DEF SInv, DInv, LShape, Building, RangePayload
    <3>2. commit_hot_range(db, lpayload.transfer_records, lpayload.indexed_blocks,
                           lpayload.upto) \in Database
      BY <1>1, <3>1, CommitHotEffect DEF HotCommitted
    <3> QED
      BY <1>1, <2>3, <3>2, CommitRows DEF LiveCommits
  <2> QED
    BY <2>1, <2>2, <2>3 DEF LiveCommits
<1>3. HotPrunes \/ HotCuts \/ HotCommits
  BY LiveCommitsHot
<1>4. \A n \in Heights : t.new.transfers[n] # {} =>
        lpc = "commit" /\ t.new.transfers[n] \subseteq lpayload.transfer_records[n]
  BY <1>1 DEF RowsHeld
<1>5. CASE HotPrunes
  <2>1. \A n \in Heights : db'.hot.transfers[n] \subseteq db.hot.transfers[n]
    BY <1>2, <1>4, <1>5 DEF HotPrunes
  <2> QED
    BY <1>5, <2>1 DEF HotPrunes, HotPruned, RowsThin
<1>6. CASE HotCuts
  <2>1. t.step >= 1
    <3>1. Len(DeleteFromHot(From(lcursor)) \o UpdateLiveCheckpoint) = 3
      BY ThreeStatements
    <3> QED
      BY <1>6, <3>1 DEF HotCuts, LiveCommitsPrune, LiveCommits, live_statements
  <2>2. \A n \in Heights : n >= lcursor => db.hot.transfers[n] \subseteq t.gone.transfers[n]
    BY <1>1, <1>6, <2>1 DEF HotCuts, RowsHeld
  <2>3. \A n \in Heights : t.new.transfers[n] = {}
    BY <1>4, <1>6 DEF HotCuts
  <2> QED
    BY <1>2, <1>6, <2>2, <2>3 DEF RowsCut
<1>7. CASE HotCommits
  BY <1>2, <1>4, <1>7 DEF RowsCommit
<1> QED
  BY <1>3, <1>5, <1>6, <1>7

\* COMMIT of the backfill worker.
LEMMA BackfillCommitsRows ==
  ASSUME SInv, RowsInv, BackfillCommits, UNCHANGED lvars
  PROVE  RowsThin
<1> DEFINE t == tx["backfill"]
           p == bpayload
           d == commit_finalized_range(db, p.transfer_records, p.indexed_blocks, p.from, p.upto)
<1>1. /\ db \in Database /\ "backfill" \in Workers /\ IInv /\ bpc = "commit"
      /\ \A n \in Heights : t.new.transfers[n] = {}
  BY DEF SInv, DInv, FInv, SettledInv, LShape, LiveTypeOK, Workers, BackfillCommits, RowsInv,
         RowsHeld
<1>2. /\ p.transfer_records \in [Heights -> SUBSET Row]
      /\ p.indexed_blocks \in [Heights -> HashOrNone]
      /\ p.from \in Nat /\ p.upto \in Heights
  BY <1>1 DEF IInv, BackfillTypeOK, RangeInv, RangePayload
<1>3. ColdCommitted(db, p.transfer_records, p.indexed_blocks, p.upto, d)
  BY <1>1, <1>2, CommitFinalizedEffect
<1>4. db' = CommitOf("backfill", d)
  BY <1>1 DEF BackfillCommits
<1> HIDE DEF d
<1>5. d \in Database
  BY <1>3 DEF ColdCommitted
<1>6. \A n \in Heights : db'.hot.transfers[n] \subseteq db.hot.transfers[n]
  BY <1>1, <1>4, <1>5, CommitRows
<1>7. HotThins
  BY BackfillCommitsHot
<1> QED
  BY <1>6, <1>7 DEF HotThins, HotThinned, RowsThin

-----------------------------------------------------------------------------
(* The invariant. *)

\* Under steps that leave the live worker and its transaction alone, what is held stays.
LEMMA RowsHeldStays ==
  ASSUME RowsHeld, tx'["live"] = tx["live"], UNCHANGED lvars, RowsThin,
         \A n \in Heights : tx'["backfill"].new.transfers[n] = {}
  PROVE  RowsHeld'
BY DEF RowsHeld, RowsThin, lvars

\* Where the live worker has no transaction open, it holds nothing.
LEMMA RowsHeldIdle ==
  ASSUME TxOrdered', tx'["live"].step = 0,
         \A n \in Heights : tx'["backfill"].new.transfers[n] = {},
         \A n \in Heights : tx'["live"].new.transfers[n] = {}
  PROVE  RowsHeld'
BY DEF RowsHeld

\* Where the live worker goes on with a range, it is the one it had; a range it plans starts
\* above the live checkpoint.
LEMMA RangeFrom ==
  ASSUME SInv, LiveReads, lpc' \in Building
  PROVE  \/ lpc \in Building /\ lpayload'.from = lpayload.from
         \/ lpayload'.from > db.liveCheckpoint
<1>1. /\ lpayload \in RangePayload /\ db.liveCheckpoint \in Nat /\ lstart \in Nat
  BY BoundsAssumption DEF SInv, DInv, LShape, LiveTypeOK, Database, Heights
<1>2. CASE LivePlan
  <2>1. lpayload' = NextRange(Larger(db.liveCheckpoint + 1, lstart), llatest)
    BY <1>2 DEF LivePlan, LiveGoTo, Building
  <2> QED
    BY <1>1, <2>1 DEF NextRange, NewPayload, Larger
<1>3. CASE LiveFetch
  BY <1>1, <1>3 DEF LiveFetch, WithBlock, RangePayload, Building
<1>4. CASE LiveFetchLogs
  BY <1>1, <1>4 DEF LiveFetchLogs, WithLogs, RangePayload, Building
<1>5. CASE LiveValidate
  BY <1>5 DEF LiveValidate, Building
<1>6. CASE LiveReadLatest \/ LiveWindow \/ LiveReadStored \/ LiveCompare
  BY <1>6
     DEF LiveReadLatest, LiveWindow, LiveReadStored, LiveCompare, NextToRevalidate, Building
<1> QED
  BY <1>2, <1>3, <1>4, <1>5, <1>6 DEF LiveReads

\* Every step only thins the rows, cuts them or commits a range of them.
LEMMA TxRowSteps ==
  ASSUME SInv, RowsInv, [IndexerTxNext]_indexerTxVars
  PROVE  /\ RowsThin \/ RowsCut \/ RowsCommit
         /\ RowsHeld'
         /\ lpc' \in Building =>
              /\ RowsThin
              /\ \/ lpc \in Building /\ lpayload'.from = lpayload.from
                 \/ lpayload'.from > db.liveCheckpoint
<1>1. /\ DOMAIN tx = Workers /\ "live" \in Workers /\ "backfill" \in Workers
      /\ RowsHeld /\ LiveHeld /\ TxOrdered' /\ TxTyped
      /\ \A n \in Heights : tx["backfill"].new.transfers[n] = {}
  BY OrderedStep DEF SInv, DInv, TxTyped, Workers, RowsInv, RowsHeld
<1>2. ASSUME UNCHANGED db PROVE RowsThin
  BY <1>2 DEF RowsThin
<1>3. NoTransaction.step = 0 /\ \A n \in Heights : NoTransaction.new.transfers[n] = {}
  BY DEF NoTransaction, EmptyLane, NoTransfers
<1>4. ASSUME UNCHANGED lvars
      PROVE  lpc' \in Building => lpc \in Building /\ lpayload'.from = lpayload.from
  BY <1>4 DEF lvars
<1>5. ASSUME NEW pc \in {"latest", "down"}, LiveGoTo(pc) PROVE lpc' \notin Building
  BY <1>5 DEF LiveGoTo, Building
<1>6. CASE BackfillStatement /\ UNCHANGED <<chainVars, lvars>>
  BY <1>2, <1>4, <1>6, BackfillStatementRows DEF BackfillStatement
<1>7. CASE BackfillCommits /\ UNCHANGED <<chainVars, lvars>>
  <2>1. RowsThin
    BY <1>7, BackfillCommitsRows
  <2>2. /\ tx'["live"] = tx["live"]
        /\ \A n \in Heights : tx'["backfill"].new.transfers[n] = {}
    BY <1>1, <1>3, <1>7 DEF BackfillCommits, Workers
  <2> QED
    BY <1>1, <1>4, <1>7, <2>1, <2>2, RowsHeldStays
<1>8. CASE LiveReads /\ UNCHANGED <<chainVars, bvars, tx>>
  <2>1. UNCHANGED db
    BY <1>8, ShapeReads DEF SInv, DInv
  <2>2. lpc \notin {"prune", "commit", "rollback"}
    BY <1>8
       DEF LiveReads, LiveReadLatest, LiveWindow, LiveReadStored, LiveCompare, LivePlan,
           LiveFetch, LiveFetchLogs, LiveValidate
  <2>3. /\ tx'["live"].step = 0
        /\ \A n \in Heights : tx'["backfill"].new.transfers[n] = {}
        /\ \A n \in Heights : tx'["live"].new.transfers[n] = {}
    BY <1>1, <1>8, <2>2 DEF LiveHeld, RowsHeld
  <2> QED
    BY <1>1, <1>2, <1>8, <2>1, <2>3, RowsHeldIdle, RangeFrom
<1>9. CASE LiveStatement /\ UNCHANGED <<chainVars, bvars>>
  BY <1>2, <1>4, <1>9, LiveStatementRows DEF LiveStatement
<1>10. CASE (LiveCommitsPrune \/ LiveCommits) /\ UNCHANGED <<chainVars, bvars>>
  <2>1. RowsThin \/ RowsCut \/ RowsCommit
    BY <1>10, LiveCommitsRows
  <2>2. tx' = [tx EXCEPT !["live"] = NoTransaction]
    BY <1>10 DEF LiveCommitsPrune, LiveCommits
  <2>3. RowsHeld'
    BY <1>1, <1>3, <2>2, RowsHeldIdle DEF Workers
  <2>4. lpc' \notin Building
    BY <1>5, <1>10 DEF LiveCommitsPrune, LiveCommits, Building
  <2> QED
    BY <2>1, <2>3, <2>4
<1>11. CASE ExitDropsTransactions /\ UNCHANGED chainVars
  <2>1. UNCHANGED db /\ lpc' \notin Building
    BY <1>5, <1>11 DEF ExitDropsTransactions, ExitNotFound, ExitErr
  <2>2. tx'["live"] = NoTransaction /\ tx'["backfill"] = NoTransaction
    BY <1>11 DEF ExitDropsTransactions, Workers
  <2> QED
    BY <1>1, <1>2, <1>3, <2>1, <2>2, RowsHeldIdle
<1>12. CASE IndexerRestart /\ UNCHANGED <<chainVars, tx>>
  <2>1. UNCHANGED db /\ lpc' \notin Building /\ bpc = "down"
    BY <1>5, <1>12 DEF IndexerRestart
  <2>2. lpc = "down"
    BY <2>1 DEF SInv, DownTogether
  <2>3. /\ tx'["live"].step = 0
        /\ \A n \in Heights : tx'["backfill"].new.transfers[n] = {}
        /\ \A n \in Heights : tx'["live"].new.transfers[n] = {}
    BY <1>1, <1>12, <2>2 DEF LiveHeld, RowsHeld
  <2> QED
    BY <1>1, <1>2, <2>1, <2>3, RowsHeldIdle
<1>13. CASE UNCHANGED <<db, lvars, tx>>
  BY <1>1, <1>2, <1>4, <1>13, RowsHeldStays
<1> QED
  BY <1>6, <1>7, <1>8, <1>9, <1>10, <1>11, <1>12, <1>13
     DEF IndexerTxNext, BackfillTxLoop, LiveTxLoop, BackfillReads, ReadLatest, ReconcileMatch,
         ReconcileMismatch, Plan, Fetch, FetchLogs, Validate, indexerTxVars, indexerVars

\* A range that is committed brings rows to its own heights only, which had none.
LEMMA CommittedRows ==
  ASSUME SInv, RowsInv, RowsCommit, NEW n \in Heights
  PROVE  /\ n \in lpayload.from .. lpayload.upto =>
              \A r \in db'.hot.transfers[n] : r.block_hash = db'.hot.blocks[n]
         /\ n \notin lpayload.from .. lpayload.upto =>
              /\ db'.hot.transfers[n] \subseteq db.hot.transfers[n]
              /\ db'.hot.blocks[n] = db.hot.blocks[n]
<1>1. /\ lpc \in Building /\ lpayload \in RangePayload /\ HInv /\ HotCommits
      /\ db'.hot.transfers[n] \subseteq db.hot.transfers[n] \cup lpayload.transfer_records[n]
  BY DEF SInv, HInv, LiveTypeOK, RowsCommit, HotCommits, Building
<1>2. /\ lpayload.from \in Nat /\ lpayload.upto \in Heights
      /\ db'.hot.blocks[n] = IF n \in lpayload.from .. lpayload.upto
                             THEN lpayload.indexed_blocks[n] ELSE db.hot.blocks[n]
  BY <1>1, CommitWrites
<1>3. \A r \in lpayload.transfer_records[n] :
        r.block_hash = lpayload.indexed_blocks[n] /\ r.block_hash \in Hashes
  BY <1>1 DEF HInv, HotRangeInv, RangePayload, Row
<1>4. CASE n \in lpayload.from .. lpayload.upto
  <2>1. db.hot.transfers[n] = {}
    BY <1>1, <1>2, <1>4, BoundsAssumption DEF RowsInv, RowsBounded, Heights
  <2> QED
    BY <1>1, <1>2, <1>3, <1>4, <2>1
<1>5. CASE n \notin lpayload.from .. lpayload.upto
  <2>1. lpayload.indexed_blocks[n] = NoHash
    BY <1>1, <1>5 DEF HInv, HotRangeInv
  <2>2. lpayload.transfer_records[n] = {}
    BY <1>3, <2>1, ChainsAssumption
  <2> QED
    BY <1>1, <1>2, <1>5, <2>2
<1> QED
  BY <1>4, <1>5

\* Every step keeps the rows under their own blocks.
LEMMA RowsStep ==
  ASSUME SInv, RowsInv, [IndexerTxNext]_indexerTxVars
  PROVE  RowsInv'
<1>1. /\ RowsThin \/ RowsCut \/ RowsCommit
      /\ RowsHeld'
      /\ lpc' \in Building =>
           /\ RowsThin
           /\ \/ lpc \in Building /\ lpayload'.from = lpayload.from
              \/ lpayload'.from > db.liveCheckpoint
  BY TxRowSteps
<1>2. /\ HInv /\ lcursor \in Heights /\ db.liveCheckpoint \in Nat
      /\ RowsBounded /\ NoRowOfReplacedBlock
  BY BoundsAssumption DEF SInv, HInv, LiveTypeOK, Database, Heights, RowsInv
<1>3. \A n \in Heights : db'.hot.transfers[n] # {} => n <= db'.liveCheckpoint
  <2> SUFFICES ASSUME NEW n \in Heights, db'.hot.transfers[n] # {}
               PROVE  n <= db'.liveCheckpoint
    OBVIOUS
  <2>1. CASE RowsThin
    BY <1>2, <2>1 DEF RowsThin, RowsBounded
  <2>2. CASE RowsCut
    BY <1>2, <2>2, BoundsAssumption DEF RowsCut, HotCuts, HotCut, Monus, Heights
  <2>3. CASE RowsCommit
    <3>1. /\ lpayload.from \in Nat /\ lpayload.upto \in Heights /\ lpayload.from <= lpayload.upto
          /\ db'.liveCheckpoint = lpayload.upto
      BY <1>2, <2>3, CommitWrites DEF RowsCommit
    <3>2. CASE n \in lpayload.from .. lpayload.upto
      BY <3>1, <3>2
    <3>3. CASE n \notin lpayload.from .. lpayload.upto
      <4>1. db.hot.transfers[n] # {}
        BY <2>3, <3>3, CommittedRows
      <4>2. n < lpayload.from
        BY <1>2, <2>3, <4>1 DEF RowsCommit, HotCommits, RowsBounded, Building
      <4> QED
        BY <3>1, <4>2, BoundsAssumption DEF Heights
    <3> QED
      BY <3>2, <3>3
  <2> QED
    BY <1>1, <2>1, <2>2, <2>3
<1>4. lpc' \in Building => \A n \in Heights : db'.hot.transfers[n] # {} => n < lpayload'.from
  <2> SUFFICES ASSUME lpc' \in Building, NEW n \in Heights, db'.hot.transfers[n] # {}
               PROVE  n < lpayload'.from
    OBVIOUS
  <2>1. db.hot.transfers[n] # {}
    BY <1>1 DEF RowsThin
  <2>2. CASE lpc \in Building /\ lpayload'.from = lpayload.from
    BY <1>2, <2>1, <2>2 DEF RowsBounded
  <2>3. CASE lpayload'.from > db.liveCheckpoint
    <3>1. n <= db.liveCheckpoint /\ n \in Nat
      BY <1>2, <2>1, BoundsAssumption DEF RowsBounded, Heights
    <3>2. lpayload'.from \in Nat
      <4>1. LShape'
        BY TxSteps DEF SInv
      <4> QED
        BY <4>1 DEF LShape, LiveTypeOK, RangePayload
    <3> QED
      BY <1>2, <2>3, <3>1, <3>2
  <2> QED
    BY <1>1, <2>2, <2>3
<1>5. NoRowOfReplacedBlock'
  <2> SUFFICES ASSUME NEW n \in Heights, NEW r \in db'.hot.transfers[n]
               PROVE  db'.hot.blocks[n] \in {NoHash, r.block_hash}
    BY DEF NoRowOfReplacedBlock
  <2>1. CASE RowsThin
    BY <1>2, <2>1 DEF RowsThin, NoRowOfReplacedBlock
  <2>2. CASE RowsCut
    BY <1>2, <2>2 DEF RowsCut, HotCuts, HotCut, NoRowOfReplacedBlock
  <2>3. CASE RowsCommit
    <3>1. CASE n \in lpayload.from .. lpayload.upto
      BY <2>3, <3>1, CommittedRows
    <3>2. CASE n \notin lpayload.from .. lpayload.upto
      BY <1>2, <2>3, <3>2, CommittedRows DEF NoRowOfReplacedBlock
    <3> QED
      BY <3>1, <3>2
  <2> QED
    BY <1>1, <2>1, <2>2, <2>3
<1> QED
  BY <1>1, <1>3, <1>4, <1>5 DEF RowsInv, RowsBounded

\* At the start there are no rows and no transaction is open.
LEMMA RowsStart ==
  ASSUME IndexerTxInit
  PROVE  RowsInv
<1>1. /\ \A n \in Heights : db.hot.transfers[n] = {}
      /\ lpc = "latest" /\ tx = [w \in Workers |-> NoTransaction]
  BY DEF IndexerTxInit, IndexerInit, MigratedDatabase, EmptyLane, NoTransfers, LiveLocalsInit
<1>2. \A w \in Workers : \A n \in Heights : tx[w].new.transfers[n] = {}
  BY <1>1 DEF NoTransaction, EmptyLane, NoTransfers
<1> QED
  BY <1>1, <1>2 DEF Workers, RowsInv, RowsBounded, RowsHeld, NoRowOfReplacedBlock, Building

\* With CONFIRMATION_DEPTH at least as deep as any reorganization, no hot row is of another
\* branch than the block beside it, whatever the backfill worker deletes between the
\* statements of the live worker's rollback or commit.
THEOREM IndexerTxNoRowOfReplacedBlock ==
  ASSUME StartBlock >= 1, ConfirmationDepth >= ReorgDepth
  PROVE  IndexerTxSpec => []NoRowOfReplacedBlock
<1>1. IndexerTxInit => RowsInv
  BY RowsStart
<1>2. SInv /\ RowsInv /\ [IndexerTxNext]_indexerTxVars => RowsInv'
  BY RowsStep
<1>3. RowsInv => NoRowOfReplacedBlock
  BY DEF RowsInv
<1> QED
  BY <1>1, <1>2, <1>3, IndexerTxSettled, PTL DEF IndexerTxSpec
=============================================================================
