--------------------------- MODULE IndexerTxProofs ---------------------------
(***************************************************************************)
(* Theorems about the hybrid process with its transactions taken apart     *)
(* into statements, for every block tree and configuration.                *)
(*                                                                         *)
(* The workers' transactions never wait for each other.  Statement k of    *)
(* every transaction is of class k: transfers, blocks, checkpoint.  A      *)
(* transaction that has locked anything of class k has done k statements   *)
(* (TxOrdered), and one that waits for it is about to do its own statement *)
(* k: of two that waited for each other, each would be behind the other.   *)
(*                                                                         *)
(* With reorganizations of any depth a torn interleaving may spoil the hot *)
(* lane, but to the backfill worker a step of the live worker leaves the   *)
(* cold lane alone (ColdSpared): what is proved of the backfill worker     *)
(* holds still (DInv).                                                     *)
(*                                                                         *)
(* With CONFIRMATION_DEPTH at least as deep as the chain can reorganize,   *)
(* the backfill worker deletes only what it promotes.  What each worker    *)
(* has deleted and inserted by its open transaction (BackfillHeld,         *)
(* LiveHeld) makes its COMMIT, to the hot blocks, one step of a worker     *)
(* alone, and to the live worker a COMMIT of the other only removes hot    *)
(* rows (HotThins): both workers' guarantees hold together (SInv).         *)
(*                                                                         *)
(* VInv adds that the hot lane begins at START_BLOCK: what both lanes show *)
(* then refines ServedChain, a COMMIT at a time.                           *)
(***************************************************************************)
EXTENDS IndexerTxProperties, FinalityProofs, LiveProofs

Class(s) ==
  CASE s.op \in {"delete_transfers", "insert_transfers"} -> 1
    [] s.op \in {"delete_blocks", "insert_blocks"}       -> 2
    [] s.op = "update_checkpoint"                        -> 3

Ops == {"delete_transfers", "insert_transfers", "delete_blocks", "insert_blocks",
        "update_checkpoint"}

\* The statements of a transaction go through the classes in order.
InOrder(statements) ==
  /\ Len(statements) \in 0 .. 3
  /\ \A k \in 1 .. Len(statements) :
       statements[k].op \in Ops /\ Class(statements[k]) = k

\* What transaction t holds locked of each class, it has executed the statement for.
HoldsInOrder(t) ==
  /\ t = [step |-> t.step,
          gone |-> [blocks |-> t.gone.blocks, transfers |-> t.gone.transfers],
          new |-> [blocks |-> t.new.blocks, transfers |-> t.new.transfers],
          checkpoint |-> t.checkpoint]
  /\ t.step \in Nat
  /\ (\E n \in Heights : t.gone.transfers[n] # {}) => t.step >= 1
  /\ (\E n \in Heights : t.gone.blocks[n] # NoHash \/ t.new.blocks[n] # NoHash) => t.step >= 2
  /\ t.checkpoint => t.step >= 3

TxOrdered ==
  /\ DOMAIN tx = Workers
  /\ \A w \in Workers : HoldsInOrder(tx[w])

\* Two statements, the second of the next class, are in order.
LEMMA PairInOrder ==
  ASSUME NEW a, NEW b, a.op \in Ops, b.op \in Ops, Class(a) = 1, Class(b) = 2
  PROVE  InOrder(<<a, b>>)
<1> DEFINE p == <<a, b>>
<1>1. Len(p) = 2 /\ p[1] = a /\ p[2] = b
  OBVIOUS
<1>2. \A k \in 1 .. Len(p) : k = 1 \/ k = 2
  BY <1>1
<1> QED
  BY <1>1, <1>2 DEF InOrder

\* And with a third of the class after.
LEMMA TripleInOrder ==
  ASSUME NEW a, NEW b, NEW c, a.op \in Ops, b.op \in Ops, c.op \in Ops,
         Class(a) = 1, Class(b) = 2, Class(c) = 3
  PROVE  InOrder(<<a, b>> \o <<c>>)
<1> DEFINE p == <<a, b>> \o <<c>>
<1>1. Len(p) = 3 /\ p[1] = a /\ p[2] = b /\ p[3] = c
  <2> DEFINE T == {a, b, c}
  <2>1. <<a, b>> \in Seq(T) /\ <<c>> \in Seq(T)
    OBVIOUS
  <2> QED
    BY <2>1
<1>2. \A k \in 1 .. Len(p) : k = 1 \/ k = 2 \/ k = 3
  BY <1>1
<1> QED
  BY <1>1, <1>2 DEF InOrder

\* Both workers touch transfers, blocks and checkpoint in this order when they delete
\* (commit_finalized_range, rollback_from_block, prune_hot_before_block,
\* rollback_hot_from_block).
LEMMA DeleteInOrder ==
  ASSUME NEW S
  PROVE  /\ InOrder(DeleteFromHot(S))
         /\ InOrder(DeleteFromHot(S) \o UpdateLiveCheckpoint)
<1> DEFINE a == [op |-> "delete_transfers", on |-> S]
           b == [op |-> "delete_blocks", on |-> S]
           c == [op |-> "update_checkpoint"]
<1>1. a.op \in Ops /\ b.op \in Ops /\ c.op \in Ops
  BY DEF Ops
<1>2. Class(a) = 1 /\ Class(b) = 2 /\ Class(c) = 3
  BY DEF Class
<1>3. DeleteFromHot(S) = <<a, b>> /\ UpdateLiveCheckpoint = <<c>>
  BY DEF DeleteFromHot, UpdateLiveCheckpoint
<1> HIDE DEF a, b, c
<1> QED
  BY <1>1, <1>2, <1>3, PairInOrder, TripleInOrder

\* And when they insert (commit_hot_range).
LEMMA InsertInOrder ==
  ASSUME NEW R, NEW B
  PROVE  InOrder(InsertIntoHot(R, B) \o UpdateLiveCheckpoint)
<1> DEFINE a == [op |-> "insert_transfers", rows |-> R]
           b == [op |-> "insert_blocks", rows |-> B]
           c == [op |-> "update_checkpoint"]
<1>1. a.op \in Ops /\ b.op \in Ops /\ c.op \in Ops
  BY DEF Ops
<1>2. Class(a) = 1 /\ Class(b) = 2 /\ Class(c) = 3
  BY DEF Class
<1>3. InsertIntoHot(R, B) = <<a, b>> /\ UpdateLiveCheckpoint = <<c>>
  BY DEF InsertIntoHot, UpdateLiveCheckpoint
<1> HIDE DEF a, b, c
<1> QED
  BY <1>1, <1>2, <1>3, TripleInOrder

\* Outside a transaction there is no statement to run.
LEMMA EmptyInOrder == InOrder(<<>>)
BY DEF InOrder

\* The backfill worker's statements at each await.
LEMMA BackfillInOrder == InOrder(backfill_statements)
BY DeleteInOrder, EmptyInOrder DEF backfill_statements

\* The live worker's statements at each await.
LEMMA LiveInOrder == InOrder(live_statements)
BY DeleteInOrder, InsertInOrder, EmptyInOrder DEF live_statements

-----------------------------------------------------------------------------

\* The other worker of each.
LEMMA OtherWorker == Other("backfill") = "live" /\ Other("live") = "backfill"
BY DEF Other, Workers

\* A worker outside a transaction holds nothing.
LEMMA NothingHeld == HoldsInOrder(NoTransaction)
BY DEF HoldsInOrder, NoTransaction, EmptyLane, NoBlocks, NoTransfers

\* A transaction, by what it holds.
Record(step, gb, gt, nb, nt, c) ==
  [step |-> step, gone |-> [blocks |-> gb, transfers |-> gt],
   new |-> [blocks |-> nb, transfers |-> nt], checkpoint |-> c]

\* HoldsInOrder, by the parts of a transaction.
LEMMA RecordHolds ==
  ASSUME NEW step \in Nat, NEW gb, NEW gt, NEW nb, NEW nt, NEW c,
         (\E n \in Heights : gt[n] # {}) => step >= 1,
         (\E n \in Heights : gb[n] # NoHash \/ nb[n] # NoHash) => step >= 2,
         c => step >= 3
  PROVE  HoldsInOrder(Record(step, gb, gt, nb, nt, c))
BY DEF HoldsInOrder, Record

\* What a statement finds to delete or insert.
DeletedRows(s) == [n \in Heights |-> IF n \in s.on THEN db.hot.transfers[n] ELSE {}]
DeletedBlocks(s) == [n \in Heights |-> IF n \in s.on THEN db.hot.blocks[n] ELSE NoHash]
InsertedRows(s) ==
  [n \in Heights |->
    insert_transfers_into_tx(db.hot, s.rows).transfers[n] \ db.hot.transfers[n]]

\* The parts of a transaction after statement s.
BlocksGone(s, gb) == IF s.op = "delete_blocks" THEN DeletedBlocks(s) ELSE gb
RowsGone(s, gt) == IF s.op = "delete_transfers" THEN DeletedRows(s) ELSE gt
BlocksNew(s, nb) == IF s.op = "insert_blocks" THEN s.rows ELSE nb
RowsNew(s, nt) == IF s.op = "insert_transfers" THEN InsertedRows(s) ELSE nt

\* The count of statements done.
LEMMA RecordStep ==
  ASSUME NEW step, NEW gb, NEW gt, NEW nb, NEW nt, NEW c, NEW k,
         NEW u, u = Record(step, gb, gt, nb, nt, c)
  PROVE  [u EXCEPT !.step = k] = Record(k, gb, gt, nb, nt, c)
BY DEF Record

\* A statement counts after its effect.
LEMMA AfterEffect ==
  ASSUME NEW step \in Nat, NEW gb, NEW gt, NEW nb, NEW nt, NEW c, NEW s, NEW t,
         t.step = step, Effect(t, s) = Record(step, gb, gt, nb, nt, c)
  PROVE  After(t, s) = Record(step + 1, gb, gt, nb, nt, c)
BY RecordStep DEF After

\* A statement on the rows changes one part of a transaction.
LEMMA RecordAfter ==
  ASSUME NEW step \in Nat, NEW gb, NEW gt, NEW nb, NEW nt, NEW c, NEW s,
         s.op \in Ops, s.op # "update_checkpoint",
         NEW t, t = Record(step, gb, gt, nb, nt, c)
  PROVE  After(t, s) =
           Record(step + 1, BlocksGone(s, gb), RowsGone(s, gt), BlocksNew(s, nb),
                  RowsNew(s, nt), c)
<1>6. t.step = step
  BY DEF Record
<1>1. CASE s.op = "delete_transfers"
  <2>1. Effect(t, s) = Record(step, gb, DeletedRows(s), nb, nt, c)
    BY <1>1 DEF Effect, Record, DeletedRows
  <2>2. After(t, s) = Record(step + 1, gb, DeletedRows(s), nb, nt, c)
    BY <1>6, <2>1, AfterEffect
  <2>3. /\ BlocksGone(s, gb) = gb /\ RowsGone(s, gt) = DeletedRows(s)
        /\ BlocksNew(s, nb) = nb /\ RowsNew(s, nt) = nt
    BY <1>1 DEF BlocksGone, RowsGone, BlocksNew, RowsNew
  <2> QED
    BY <2>2, <2>3
<1>2. CASE s.op = "delete_blocks"
  <2>1. Effect(t, s) = Record(step, DeletedBlocks(s), gt, nb, nt, c)
    BY <1>2 DEF Effect, Record, DeletedBlocks
  <2>2. After(t, s) = Record(step + 1, DeletedBlocks(s), gt, nb, nt, c)
    BY <1>6, <2>1, AfterEffect
  <2>3. /\ BlocksGone(s, gb) = DeletedBlocks(s) /\ RowsGone(s, gt) = gt
        /\ BlocksNew(s, nb) = nb /\ RowsNew(s, nt) = nt
    BY <1>2 DEF BlocksGone, RowsGone, BlocksNew, RowsNew
  <2> QED
    BY <2>2, <2>3
<1>3. CASE s.op = "insert_transfers"
  <2>1. Effect(t, s) = Record(step, gb, gt, nb, InsertedRows(s), c)
    BY <1>3 DEF Effect, Record, InsertedRows
  <2>2. After(t, s) = Record(step + 1, gb, gt, nb, InsertedRows(s), c)
    BY <1>6, <2>1, AfterEffect
  <2>3. /\ BlocksGone(s, gb) = gb /\ RowsGone(s, gt) = gt
        /\ BlocksNew(s, nb) = nb /\ RowsNew(s, nt) = InsertedRows(s)
    BY <1>3 DEF BlocksGone, RowsGone, BlocksNew, RowsNew
  <2> QED
    BY <2>2, <2>3
<1>4. CASE s.op = "insert_blocks"
  <2>1. Effect(t, s) = Record(step, gb, gt, s.rows, nt, c)
    BY <1>4 DEF Effect, Record
  <2>2. After(t, s) = Record(step + 1, gb, gt, s.rows, nt, c)
    BY <1>6, <2>1, AfterEffect
  <2>3. /\ BlocksGone(s, gb) = gb /\ RowsGone(s, gt) = gt
        /\ BlocksNew(s, nb) = s.rows /\ RowsNew(s, nt) = nt
    BY <1>4 DEF BlocksGone, RowsGone, BlocksNew, RowsNew
  <2> QED
    BY <2>2, <2>3
<1> QED
  BY <1>1, <1>2, <1>3, <1>4 DEF Ops

\* The update of the live checkpoint leaves them.
LEMMA RecordUpdated ==
  ASSUME NEW step \in Nat, NEW gb, NEW gt, NEW nb, NEW nt, NEW c, NEW s,
         s.op = "update_checkpoint",
         NEW t, t = Record(step, gb, gt, nb, nt, c)
  PROVE  \E x \in BOOLEAN : After(t, s) = Record(step + 1, gb, gt, nb, nt, x)
<1>6. t.step = step
  BY DEF Record
<1>1. PICK y : y = TRUE
  OBVIOUS
<1>2. Effect(t, s) = Record(step, gb, gt, nb, nt, y)
  BY <1>1 DEF Effect, Record
<1>3. After(t, s) = Record(step + 1, gb, gt, nb, nt, y)
  BY <1>6, <1>2, AfterEffect
<1> QED
  BY <1>1, <1>3

\* A statement of the next class keeps what a transaction holds in order.
LEMMA RecordAfterHolds ==
  ASSUME NEW step \in Nat, NEW gb, NEW gt, NEW nb, NEW nt, NEW c, NEW s,
         NEW t, t = Record(step, gb, gt, nb, nt, c),
         HoldsInOrder(t), s.op \in Ops, Class(s) = step + 1
  PROVE  HoldsInOrder(After(t, s))
<1>1. /\ (\E n \in Heights : gt[n] # {}) => step >= 1
      /\ (\E n \in Heights : gb[n] # NoHash \/ nb[n] # NoHash) => step >= 2
      /\ c => step >= 3
  BY DEF HoldsInOrder, Record
<1>2. /\ s.op = "delete_transfers" => step + 1 = 1
      /\ s.op \in {"delete_blocks", "insert_blocks"} => step + 1 = 2
      /\ s.op = "update_checkpoint" => step + 1 = 3
  BY DEF Class
<1>3. CASE s.op = "update_checkpoint"
  <2>1. PICK x : After(t, s) = Record(step + 1, gb, gt, nb, nt, x)
    BY <1>3, RecordUpdated
  <2>2. HoldsInOrder(Record(step + 1, gb, gt, nb, nt, x))
    BY <1>1, <1>2, <1>3, RecordHolds
  <2> QED
    BY <2>1, <2>2
<1>4. CASE s.op # "update_checkpoint"
  <2>1. /\ (\E n \in Heights : RowsGone(s, gt)[n] # {}) => step + 1 >= 1
        /\ (\E n \in Heights : BlocksGone(s, gb)[n] # NoHash \/ BlocksNew(s, nb)[n] # NoHash)
             => step + 1 >= 2
        /\ c => step + 1 >= 3
    BY <1>1, <1>2 DEF BlocksGone, RowsGone, BlocksNew
  <2>2. HoldsInOrder(Record(step + 1, BlocksGone(s, gb), RowsGone(s, gt), BlocksNew(s, nb),
                            RowsNew(s, nt), c))
    BY <2>1, RecordHolds
  <2> QED
    BY <1>4, <2>2, RecordAfter
<1> QED
  BY <1>3, <1>4

\* The same of any transaction that holds its locks in order.
LEMMA AfterHolds ==
  ASSUME NEW t, NEW s, HoldsInOrder(t), s.op \in Ops, Class(s) = t.step + 1
  PROVE  HoldsInOrder(After(t, s))
<1>1. /\ t = Record(t.step, t.gone.blocks, t.gone.transfers, t.new.blocks, t.new.transfers,
                    t.checkpoint)
      /\ t.step \in Nat
  BY DEF HoldsInOrder, Record
<1> QED
  BY <1>1, RecordAfterHolds

\* A worker that runs the next of its statements (BackfillStatement, LiveStatement).
LEMMA ExecuteOrdered ==
  ASSUME TxOrdered, NEW w \in Workers, NEW st, InOrder(st), Execute(w, st)
  PROVE  TxOrdered'
<1> DEFINE k == tx[w].step + 1
           u == After(tx[w], st[k])
<1>1. k \in 1 .. Len(st)
  BY DEF TxOrdered, HoldsInOrder, Execute, InOrder
<1>2. st[k].op \in Ops /\ Class(st[k]) = tx[w].step + 1
  BY <1>1 DEF InOrder
<1>3. HoldsInOrder(u)
  BY <1>2, AfterHolds DEF TxOrdered
<1>4. tx' = [tx EXCEPT ![w] = u]
  BY DEF Execute
<1> HIDE DEF u
<1> QED
  BY <1>3, <1>4 DEF TxOrdered

\* COMMIT ends a transaction.
LEMMA CommitOrdered ==
  ASSUME TxOrdered, NEW w \in Workers, tx' = [tx EXCEPT ![w] = NoTransaction]
  PROVE  TxOrdered'
BY NothingHeld DEF TxOrdered

\* Of two transactions that run statements in order, one does not wait.
LEMMA NoCycle ==
  ASSUME TxOrdered, NEW w \in Workers, NEW st, InOrder(st), Blocked(w, st)
  PROVE  tx[Other(w)].step > tx[w].step
<1> DEFINE s == st[tx[w].step + 1]
           o == tx[Other(w)]
<1>1. tx[w].step + 1 \in 1 .. Len(st)
  BY DEF TxOrdered, HoldsInOrder, Blocked, InOrder
<1>2. s.op \in Ops /\ Class(s) = tx[w].step + 1
  BY <1>1 DEF InOrder
<1>3. HoldsInOrder(o)
  BY OtherWorker DEF TxOrdered, Workers
<1>4. Waits(w, s)
  BY DEF Blocked
<1>5. o.step >= Class(s)
  <2>1. CASE s.op \in {"delete_transfers", "insert_transfers"}
    <3>1. \E n \in Heights : o.gone.transfers[n] # {}
      BY <1>4, <2>1 DEF Waits
    <3> QED
      BY <1>3, <2>1, <3>1 DEF HoldsInOrder, Class
  <2>2. CASE s.op \in {"delete_blocks", "insert_blocks"}
    <3>1. \E n \in Heights : o.gone.blocks[n] # NoHash \/ o.new.blocks[n] # NoHash
      BY <1>4, <2>2 DEF Waits
    <3> QED
      BY <1>3, <2>2, <3>1 DEF HoldsInOrder, Class
  <2>3. CASE s.op = "update_checkpoint"
    <3>1. o.checkpoint
      BY <1>4, <2>3 DEF Waits
    <3> QED
      BY <1>3, <2>3, <3>1 DEF HoldsInOrder, Class
  <2> QED
    BY <1>2, <2>1, <2>2, <2>3 DEF Ops
<1>6. o.step \in Nat /\ tx[w].step \in Nat
  BY <1>3 DEF TxOrdered, HoldsInOrder
<1> QED
  BY <1>2, <1>5, <1>6

-----------------------------------------------------------------------------

\* Whatever a worker has locked in its open transaction, it has come to by going through
\* transfers, blocks and checkpoint in order, at every step.
LEMMA OrderedStep ==
  ASSUME TxOrdered, [IndexerTxNext]_indexerTxVars
  PROVE  TxOrdered'
<1>1. CASE UNCHANGED tx
  BY <1>1 DEF TxOrdered
<1>2. CASE BackfillStatement
  BY <1>2, BackfillInOrder, ExecuteOrdered DEF BackfillStatement, Workers
<1>3. CASE BackfillCommits
  BY <1>3, CommitOrdered DEF BackfillCommits, Workers
<1>4. CASE LiveStatement
  BY <1>4, LiveInOrder, ExecuteOrdered DEF LiveStatement, Workers
<1>5. CASE LiveCommitsPrune
  BY <1>5, CommitOrdered DEF LiveCommitsPrune, Workers
<1>6. CASE LiveCommits
  BY <1>6, CommitOrdered DEF LiveCommits, Workers
<1>7. CASE ExitDropsTransactions
  BY <1>7, NothingHeld DEF ExitDropsTransactions, TxOrdered
<1> QED
  BY <1>1, <1>2, <1>3, <1>4, <1>5, <1>6, <1>7
     DEF IndexerTxNext, BackfillTxLoop, LiveTxLoop, indexerTxVars

\* The inductive invariant, of every reachable state.
THEOREM TransactionsOrdered == IndexerTxSpec => []TxOrdered
<1>1. IndexerTxInit => TxOrdered
  BY NothingHeld DEF IndexerTxInit, TxOrdered
<1> QED
  BY <1>1, OrderedStep, PTL DEF IndexerTxSpec

\* The two workers never wait for each other's transaction: there is no deadlock for
\* PostgreSQL to break by failing one of them, which would end the process.
THEOREM WorkersNeverDeadlock == IndexerTxSpec => []NoLockCycle
<1>1. TxOrdered => NoLockCycle
  <2> SUFFICES ASSUME TxOrdered,
                      Blocked("backfill", backfill_statements),
                      Blocked("live", live_statements)
               PROVE  FALSE
    BY DEF NoLockCycle
  <2>1. tx["live"].step > tx["backfill"].step
    BY BackfillInOrder, NoCycle, OtherWorker DEF Workers
  <2>2. tx["backfill"].step > tx["live"].step
    BY LiveInOrder, NoCycle, OtherWorker DEF Workers
  <2>3. tx["live"].step \in Nat /\ tx["backfill"].step \in Nat
    BY DEF TxOrdered, HoldsInOrder, Workers
  <2> QED
    BY <2>1, <2>2, <2>3
<1> QED
  BY <1>1, TransactionsOrdered, PTL

-----------------------------------------------------------------------------
(* What the variables may be, whatever the interleaving.                   *)

TxTyped == tx \in [Workers -> Transaction]

\* What an insert brings are rows of the table.
WellTyped(s) ==
  /\ s.op = "insert_transfers" => s.rows \in [Heights -> SUBSET Row]
  /\ s.op = "insert_blocks" => s.rows \in [Heights -> HashOrNone]

\* A transaction is well typed if its parts are.
LEMMA RecordType ==
  ASSUME NEW step \in 0 .. 3, NEW gb \in [Heights -> HashOrNone],
         NEW gt \in [Heights -> SUBSET Row], NEW nb \in [Heights -> HashOrNone],
         NEW nt \in [Heights -> SUBSET Row], NEW c \in BOOLEAN
  PROVE  Record(step, gb, gt, nb, nt, c) \in Transaction
BY DEF Record, Transaction, Lane

\* And the other way round.
LEMMA TypeRecord ==
  ASSUME NEW t \in Transaction
  PROVE  /\ t = Record(t.step, t.gone.blocks, t.gone.transfers, t.new.blocks, t.new.transfers,
                       t.checkpoint)
         /\ t.step \in 0 .. 3
         /\ t.gone.blocks \in [Heights -> HashOrNone]
         /\ t.gone.transfers \in [Heights -> SUBSET Row]
         /\ t.new.blocks \in [Heights -> HashOrNone]
         /\ t.new.transfers \in [Heights -> SUBSET Row]
         /\ t.checkpoint \in BOOLEAN
BY DEF Record, Transaction, Lane

\* A statement deletes rows and hashes that are stored, and inserts what it brings.
LEMMA PartsTyped ==
  ASSUME db \in Database, NEW s, WellTyped(s),
         NEW gb \in [Heights -> HashOrNone], NEW gt \in [Heights -> SUBSET Row],
         NEW nb \in [Heights -> HashOrNone], NEW nt \in [Heights -> SUBSET Row]
  PROVE  /\ BlocksGone(s, gb) \in [Heights -> HashOrNone]
         /\ RowsGone(s, gt) \in [Heights -> SUBSET Row]
         /\ BlocksNew(s, nb) \in [Heights -> HashOrNone]
         /\ RowsNew(s, nt) \in [Heights -> SUBSET Row]
<1>1. /\ db.hot.blocks \in [Heights -> HashOrNone]
      /\ db.hot.transfers \in [Heights -> SUBSET Row]
      /\ NoHash \in HashOrNone
  BY DEF Database, Lane, HashOrNone
<1>2. DeletedRows(s) \in [Heights -> SUBSET Row] /\ DeletedBlocks(s) \in [Heights -> HashOrNone]
  BY <1>1 DEF DeletedRows, DeletedBlocks
<1>3. ASSUME s.rows \in [Heights -> SUBSET Row]
      PROVE  InsertedRows(s) \in [Heights -> SUBSET Row]
  BY <1>1, <1>3 DEF InsertedRows, insert_transfers_into_tx
<1> QED
  BY <1>2, <1>3 DEF WellTyped, BlocksGone, RowsGone, BlocksNew, RowsNew

\* A statement leads from a transaction to a transaction.
LEMMA AfterTyped ==
  ASSUME db \in Database, NEW t \in Transaction, t.step < 3,
         NEW s, s.op \in Ops, WellTyped(s)
  PROVE  After(t, s) \in Transaction
<1>1. t.step \in Nat /\ t.step + 1 \in 0 .. 3
  BY TypeRecord
<1> DEFINE gb == t.gone.blocks
           gt == t.gone.transfers
           nb == t.new.blocks
           nt == t.new.transfers
           k == t.step
<1>4. /\ t = Record(k, gb, gt, nb, nt, t.checkpoint)
      /\ gb \in [Heights -> HashOrNone] /\ gt \in [Heights -> SUBSET Row]
      /\ nb \in [Heights -> HashOrNone] /\ nt \in [Heights -> SUBSET Row]
      /\ t.checkpoint \in BOOLEAN
  BY TypeRecord
<1> HIDE DEF gb, gt, nb, nt
<1>2. CASE s.op = "update_checkpoint"
  <2>1. PICK x \in BOOLEAN : After(t, s) = Record(k + 1, gb, gt, nb, nt, x)
    BY <1>1, <1>2, <1>4, RecordUpdated
  <2>2. Record(k + 1, gb, gt, nb, nt, x) \in Transaction
    BY <1>1, <1>4, RecordType
  <2> QED
    BY <2>1, <2>2
<1>3. CASE s.op # "update_checkpoint"
  <2>1. After(t, s) = Record(k + 1, BlocksGone(s, gb), RowsGone(s, gt), BlocksNew(s, nb),
                             RowsNew(s, nt), t.checkpoint)
    BY <1>1, <1>3, <1>4, RecordAfter
  <2>2. /\ BlocksGone(s, gb) \in [Heights -> HashOrNone]
        /\ RowsGone(s, gt) \in [Heights -> SUBSET Row]
        /\ BlocksNew(s, nb) \in [Heights -> HashOrNone]
        /\ RowsNew(s, nt) \in [Heights -> SUBSET Row]
    BY <1>4, PartsTyped
  <2>3. Record(k + 1, BlocksGone(s, gb), RowsGone(s, gt), BlocksNew(s, nb),
               RowsNew(s, nt), t.checkpoint) \in Transaction
    BY <1>1, <1>4, <2>2, RecordType
  <2> QED
    BY <2>1, <2>3
<1> QED
  BY <1>2, <1>3

\* What a transaction brings is well typed.
AllWellTyped(statements) == \A k \in 1 .. Len(statements) : WellTyped(statements[k])

\* The statements of two and of three are those listed.
LEMMA PairTyped ==
  ASSUME NEW a, NEW b, WellTyped(a), WellTyped(b)
  PROVE  AllWellTyped(<<a, b>>)
<1> DEFINE p == <<a, b>>
<1>1. Len(p) = 2 /\ p[1] = a /\ p[2] = b
  OBVIOUS
<1>2. \A k \in 1 .. Len(p) : k = 1 \/ k = 2
  BY <1>1
<1> QED
  BY <1>1, <1>2 DEF AllWellTyped

\* With a third after.
LEMMA TripleTyped ==
  ASSUME NEW a, NEW b, NEW c, WellTyped(a), WellTyped(b), WellTyped(c)
  PROVE  AllWellTyped(<<a, b>> \o <<c>>)
<1> DEFINE p == <<a, b>> \o <<c>>
<1>1. Len(p) = 3 /\ p[1] = a /\ p[2] = b /\ p[3] = c
  <2> DEFINE T == {a, b, c}
  <2>1. <<a, b>> \in Seq(T) /\ <<c>> \in Seq(T)
    OBVIOUS
  <2> QED
    BY <2>1
<1>2. \A k \in 1 .. Len(p) : k = 1 \/ k = 2 \/ k = 3
  BY <1>1
<1> QED
  BY <1>1, <1>2 DEF AllWellTyped

\* Deletions bring nothing.
LEMMA DeleteTyped ==
  ASSUME NEW S
  PROVE  /\ AllWellTyped(DeleteFromHot(S))
         /\ AllWellTyped(DeleteFromHot(S) \o UpdateLiveCheckpoint)
<1> DEFINE a == [op |-> "delete_transfers", on |-> S]
           b == [op |-> "delete_blocks", on |-> S]
           c == [op |-> "update_checkpoint"]
<1>1. WellTyped(a) /\ WellTyped(b) /\ WellTyped(c)
  BY DEF WellTyped
<1>2. DeleteFromHot(S) = <<a, b>> /\ UpdateLiveCheckpoint = <<c>>
  BY DEF DeleteFromHot, UpdateLiveCheckpoint
<1> HIDE DEF a, b, c
<1> QED
  BY <1>1, <1>2, PairTyped, TripleTyped

\* A commit of the live worker brings the records and blocks of its range.
LEMMA InsertTyped ==
  ASSUME NEW R \in [Heights -> SUBSET Row], NEW B \in [Heights -> HashOrNone]
  PROVE  AllWellTyped(InsertIntoHot(R, B) \o UpdateLiveCheckpoint)
<1> DEFINE a == [op |-> "insert_transfers", rows |-> R]
           b == [op |-> "insert_blocks", rows |-> B]
           c == [op |-> "update_checkpoint"]
<1>1. WellTyped(a) /\ WellTyped(b) /\ WellTyped(c)
  BY DEF WellTyped
<1>2. InsertIntoHot(R, B) = <<a, b>> /\ UpdateLiveCheckpoint = <<c>>
  BY DEF InsertIntoHot, UpdateLiveCheckpoint
<1> HIDE DEF a, b, c
<1> QED
  BY <1>1, <1>2, TripleTyped

\* At every await the workers' statements are well typed.
LEMMA StatementsTyped ==
  ASSUME lpayload \in RangePayload
  PROVE  AllWellTyped(backfill_statements) /\ AllWellTyped(live_statements)
<1>1. AllWellTyped(<<>>)
  BY DEF AllWellTyped
<1>2. /\ lpayload.transfer_records \in [Heights -> SUBSET Row]
      /\ lpayload.indexed_blocks \in [Heights -> HashOrNone]
  BY DEF RangePayload
<1> QED
  BY <1>1, <1>2, DeleteTyped, InsertTyped DEF backfill_statements, live_statements

\* A statement leaves both transactions well typed.
LEMMA ExecuteTyped ==
  ASSUME TxTyped, db \in Database, NEW w \in Workers, NEW st, InOrder(st), AllWellTyped(st),
         Execute(w, st)
  PROVE  TxTyped'
<1> DEFINE k == tx[w].step + 1
           u == After(tx[w], st[k])
<1>1. tx[w] \in Transaction /\ tx[w].step \in 0 .. 3
  BY TypeRecord DEF TxTyped
<1>2. k \in 1 .. Len(st) /\ tx[w].step < 3
  BY <1>1 DEF Execute, InOrder
<1>3. st[k].op \in Ops /\ WellTyped(st[k])
  BY <1>2 DEF InOrder, AllWellTyped
<1>4. u \in Transaction
  BY <1>1, <1>2, <1>3, AfterTyped
<1>5. tx' = [tx EXCEPT ![w] = u]
  BY DEF Execute
<1> HIDE DEF u
<1> QED
  BY <1>4, <1>5 DEF TxTyped

\* No transaction is open.
LEMMA NoneTyped == NoTransaction \in Transaction
BY DEF NoTransaction, Transaction, Lane, EmptyLane, NoBlocks, NoTransfers, HashOrNone

\* COMMIT: the hot blocks are those of the statements, all else is of the single step.
LEMMA CommitOfEffect ==
  ASSUME TxTyped, db \in Database, NEW w \in Workers, NEW d \in Database
  PROVE  LET e == CommitOf(w, d) IN
           /\ e \in Database
           /\ e.cold = d.cold /\ e.checkpoint = d.checkpoint
           /\ e.liveCheckpoint = d.liveCheckpoint
           /\ \A n \in Heights :
                e.hot.blocks[n] = IF tx[w].new.blocks[n] # NoHash THEN tx[w].new.blocks[n]
                                  ELSE IF tx[w].gone.blocks[n] # NoHash THEN NoHash
                                  ELSE db.hot.blocks[n]
<1> DEFINE t == tx[w]
           bs == [n \in Heights |->
                   IF t.new.blocks[n] # NoHash THEN t.new.blocks[n]
                   ELSE IF t.gone.blocks[n] # NoHash THEN NoHash ELSE db.hot.blocks[n]]
           rs == [n \in Heights |->
                   (db.hot.transfers[n] \ t.gone.transfers[n]) \cup t.new.transfers[n]]
           e == CommitOf(w, d)
<1>1. /\ t.gone.blocks \in [Heights -> HashOrNone]
      /\ t.gone.transfers \in [Heights -> SUBSET Row]
      /\ t.new.blocks \in [Heights -> HashOrNone]
      /\ t.new.transfers \in [Heights -> SUBSET Row]
  BY TypeRecord DEF TxTyped
<1>2. /\ db.hot.blocks \in [Heights -> HashOrNone]
      /\ db.hot.transfers \in [Heights -> SUBSET Row]
      /\ NoHash \in HashOrNone
  BY DEF Database, Lane, HashOrNone
<1>3. bs \in [Heights -> HashOrNone] /\ rs \in [Heights -> SUBSET Row]
  BY <1>1, <1>2
<1>4. e = [d EXCEPT !.hot = [blocks |-> bs, transfers |-> rs]]
  BY DEF CommitOf
<1> HIDE DEF e, bs, rs
<1>5. /\ e \in Database
      /\ e.cold = d.cold /\ e.checkpoint = d.checkpoint
      /\ e.liveCheckpoint = d.liveCheckpoint
      /\ e.hot.blocks = bs
  BY <1>3, <1>4 DEF Database, Lane
<1> QED
  BY <1>5 DEF bs, e

-----------------------------------------------------------------------------
(* Reorganizations of any depth.                                           *)

\* What the live worker's range is, whatever the hot lane has become.
LShape ==
  /\ LiveTypeOK
  /\ lpc \in Building => lpayload.upto \in Heights /\ lpayload.from <= lpayload.upto
  /\ HotFetchedInv

DInv == IInv /\ JInv /\ LShape /\ TxTyped /\ TxOrdered

\* The live worker outside a range.
LEMMA ShapeGoTo ==
  ASSUME ChainTypeOK', db' \in Database, NEW pc \in {"latest", "down"}, LiveGoTo(pc)
  PROVE  LShape'
BY LiveGoToInv DEF LShape, LiveTypeOK, Building, HotFetchedInv

\* The live worker reads.
LEMMA ShapeReads ==
  ASSUME LShape, LiveReads, UNCHANGED chainVars
  PROVE  LShape' /\ UNCHANGED db
<1>1. /\ chain \in Chains /\ chain.head \in Heights /\ ChainTypeOK'
      /\ lcursor \in Heights /\ lend \in Heights /\ lstart \in Nat /\ llatest \in Heights
      /\ lpayload \in RangePayload /\ db \in Database /\ MaxBlock \in Nat
  BY AnswerType, BoundsAssumption DEF LShape, LiveTypeOK, ChainTypeOK, chainVars
<1>2. CASE LiveReadLatest
  <2>1. lstart' \in Nat
    BY <1>1, <1>2, EngineAssumption, LiveStartAssumption
       DEF LiveReadLatest, compute_live_start_block, get_latest_block_number, Larger, Monus, Heights
  <2> QED
    BY <1>1, <1>2, <2>1
       DEF LiveReadLatest, get_latest_block_number, LShape, LiveTypeOK, Building, HotFetchedInv
<1>3. CASE LiveWindow
  <2> DEFINE first == hot_validation_start(lstart, chain.head)
  <2>1. first \in Nat
    BY <1>1, EngineAssumption, LiveStartAssumption
       DEF hot_validation_start, compute_live_start_block, Larger, Monus, Heights
  <2>2. first <= chain.head => first \in Heights
    BY <1>1, <2>1 DEF Heights
  <2> HIDE DEF first
  <2> QED
    BY <1>1, <1>3, <2>2
       DEF first, LiveWindow, get_latest_block_number, LShape, LiveTypeOK, Building, HotFetchedInv
<1>4. ASSUME NextToRevalidate
      PROVE  lpc' \in {"stored", "plan"} /\ lcursor' \in Heights /\ lend' \in Heights
  BY <1>1, <1>4 DEF NextToRevalidate, Heights
<1>5. CASE LiveReadStored
  <2>1. lstored' \in HashOrNone
    BY <1>1, <1>5 DEF LiveReadStored, Database, Lane
  <2>2. lpc' \in {"stored", "plan", "compare"} /\ lcursor' \in Heights /\ lend' \in Heights
    BY <1>1, <1>4, <1>5 DEF LiveReadStored
  <2> QED
    BY <1>1, <1>5, <2>1, <2>2 DEF LiveReadStored, LShape, LiveTypeOK, Building, HotFetchedInv
<1>6. CASE LiveCompare
  <2>1. /\ lpc' \in {"stored", "plan", "rollback"} /\ lcursor' \in Heights /\ lend' \in Heights
        /\ lstored' \in HashOrNone /\ llatest' \in Heights /\ lstart' \in Nat
    BY <1>1, <1>4, <1>6 DEF LiveCompare, HashOrNone, Heights
  <2> QED
    BY <1>1, <1>6, <2>1 DEF LiveCompare, LShape, LiveTypeOK, Building, HotFetchedInv
<1>7. CASE LivePlan
  <2> DEFINE next == Larger(db.liveCheckpoint + 1, lstart)
  <2>1. next \in Nat
    BY <1>1 DEF Larger, Database, Heights
  <2>2. CASE next <= llatest
    <3>1. lpc' = "fetch" /\ lpayload' = NextRange(next, llatest)
      BY <1>7, <2>2 DEF LivePlan
    <3>2. /\ lpayload' \in RangePayload /\ lpayload'.from <= lpayload'.upto
          /\ lpayload'.upto \in Heights
      BY <1>1, <2>1, <2>2, <3>1, NextRangeEffect
    <3> QED
      BY <1>1, <1>7, <2>2, <3>1, <3>2
         DEF LivePlan, LShape, LiveTypeOK, HotFetchedInv, Heights
  <2>3. CASE ~(next <= llatest)
    BY <1>1, <1>7, <2>3, ShapeGoTo DEF LivePlan
  <2> QED
    BY <1>7, <2>2, <2>3 DEF LivePlan
<1>8. CASE LiveFetch
  <2>1. PICK n \in InFlight(lpayload) : lpayload' = WithBlock(lpayload, n)
    BY <1>8 DEF LiveFetch
  <2>2. lpayload.upto \in Heights /\ lpayload.from <= lpayload.upto
    BY <1>8 DEF LiveFetch, LShape, Building
  <2>3. n \in Heights
    BY <1>1, <2>1, <2>2 DEF InFlight, RangePayload, Heights
  <2>4. /\ lpayload' \in RangePayload
        /\ lpayload'.from = lpayload.from /\ lpayload'.upto = lpayload.upto
    BY <1>1, <2>1, <2>3, WithBlockEffect
  <2>5. lpc' \in {"fetch", "logs"} /\ (lpc' = "logs" => AllFetched(lpayload'))
    BY <1>8 DEF LiveFetch
  <2> QED
    BY <1>1, <1>8, <2>2, <2>4, <2>5
       DEF LiveFetch, LShape, LiveTypeOK, Building, HotFetchedInv
<1>9. CASE LiveFetchLogs
  <2>1. /\ lpayload.upto \in Heights /\ lpayload.from <= lpayload.upto /\ AllFetched(lpayload)
    BY <1>9 DEF LiveFetchLogs, LShape, Building, HotFetchedInv
  <2>2. /\ lpayload' \in RangePayload
        /\ lpayload'.from = lpayload.from /\ lpayload'.upto = lpayload.upto
        /\ lpayload'.indexed_blocks = lpayload.indexed_blocks
    BY <1>1, <1>9, <2>1, WithLogsEffect DEF LiveFetchLogs
  <2>3. AllFetched(lpayload') /\ lcursor' \in Heights
    BY <1>1, <1>9, <2>1, <2>2 DEF LiveFetchLogs, AllFetched, RangePayload, Heights
  <2> QED
    BY <1>1, <1>9, <2>1, <2>2, <2>3
       DEF LiveFetchLogs, LShape, LiveTypeOK, Building, HotFetchedInv
<1>10. CASE LiveValidate
  <2>1. /\ lpayload.upto \in Heights /\ lpayload.from <= lpayload.upto /\ AllFetched(lpayload)
    BY <1>10 DEF LiveValidate, LShape, Building, HotFetchedInv
  <2>2. /\ lpc' \in {"validate", "commit", "rollback"} /\ lcursor' \in Heights
        /\ lpayload' = lpayload \/ (lpc' = "rollback" /\ lpayload' = NoPayload)
    BY <1>1, <1>10, <2>1 DEF LiveValidate, Heights
  <2>3. lpayload' \in RangePayload
    BY <1>1, <2>2, NoPayloadType
  <2> QED
    BY <1>1, <1>10, <2>1, <2>2, <2>3
       DEF LiveValidate, LShape, LiveTypeOK, Building, HotFetchedInv
<1> QED
  BY <1>2, <1>3, <1>5, <1>6, <1>7, <1>8, <1>9, <1>10
     DEF LiveReads, LiveReadLatest, LiveWindow, LiveReadStored, LiveCompare, LivePlan, LiveFetch,
         LiveFetchLogs, LiveValidate

\* COMMIT of a range or of a rollback writes the cold lane as the single step does.
LEMMA BackfillCommitsCold ==
  ASSUME IInv, TxTyped, BackfillCommits
  PROVE  ColdCommits \/ ColdCuts
<1>1. db \in Database /\ "backfill" \in Workers /\ bcursor \in Heights
  BY DEF IInv, BackfillTypeOK, Workers
<1>2. CASE bpc = "commit"
  <2> DEFINE p == bpayload
             d == commit_finalized_range(db, p.transfer_records, p.indexed_blocks, p.from, p.upto)
  <2>1. /\ p.transfer_records \in [Heights -> SUBSET Row]
        /\ p.indexed_blocks \in [Heights -> HashOrNone]
        /\ p.from \in Nat /\ p.upto \in Heights
    BY <1>2 DEF IInv, BackfillTypeOK, RangeInv, RangePayload
  <2>2. ColdCommitted(db, p.transfer_records, p.indexed_blocks, p.upto, d)
    BY <1>1, <2>1, CommitFinalizedEffect
  <2>3. db' = CommitOf("backfill", d) /\ BackfillGoTo("latest")
    BY <1>2 DEF BackfillCommits
  <2> HIDE DEF d, p
  <2>4. d \in Database
    BY <2>2 DEF ColdCommitted
  <2>5. db' \in Database /\ db'.cold = d.cold /\ db'.checkpoint = d.checkpoint
    BY <1>1, <2>3, <2>4, CommitOfEffect
  <2>6. ColdCommitted(db, p.transfer_records, p.indexed_blocks, p.upto, db')
    BY <2>2, <2>5 DEF ColdCommitted
  <2> QED
    BY <1>2, <2>3, <2>6 DEF ColdCommits, p
<1>3. CASE bpc = "rollback"
  <2> DEFINE d == rollback_from_block(db, bcursor)
  <2>1. ColdCut(db, bcursor, d)
    BY <1>1, RollbackEffect
  <2>2. db' = CommitOf("backfill", d) /\ BackfillGoTo("latest")
    BY <1>3 DEF BackfillCommits
  <2> HIDE DEF d
  <2>3. d \in Database
    BY <2>1 DEF ColdCut
  <2>4. db' \in Database /\ db'.cold = d.cold /\ db'.checkpoint = d.checkpoint
    BY <1>1, <2>2, <2>3, CommitOfEffect
  <2> QED
    BY <1>3, <2>1, <2>2, <2>4 DEF ColdCut, ColdCuts
<1> QED
  BY <1>2, <1>3 DEF BackfillCommits

\* COMMIT of the live worker leaves the cold lane alone.
LEMMA LiveCommitsSpare ==
  ASSUME LShape, TxTyped, LiveCommitsPrune \/ LiveCommits
  PROVE  db' \in Database /\ db'.cold = db.cold /\ db'.checkpoint = db.checkpoint
<1>1. /\ db \in Database /\ "live" \in Workers /\ lcursor \in Heights /\ lstart \in Nat
      /\ lpayload \in RangePayload
  BY DEF LShape, LiveTypeOK, Workers
<1>2. ASSUME NEW d \in Database, d.cold = db.cold, d.checkpoint = db.checkpoint,
             db' = CommitOf("live", d)
      PROVE  db' \in Database /\ db'.cold = db.cold /\ db'.checkpoint = db.checkpoint
  BY <1>1, <1>2, CommitOfEffect
<1>3. CASE LiveCommitsPrune
  BY <1>1, <1>2, <1>3, PruneHotEffect DEF LiveCommitsPrune, HotPruned
<1>4. CASE LiveCommits /\ lpc = "commit"
  <2>1. /\ lpayload.transfer_records \in [Heights -> SUBSET Row]
        /\ lpayload.indexed_blocks \in [Heights -> HashOrNone]
        /\ lpayload.upto \in Heights
    BY <1>1, <1>4 DEF LShape, Building, RangePayload
  <2> QED
    BY <1>1, <1>2, <1>4, <2>1, CommitHotEffect DEF LiveCommits, HotCommitted
<1>5. CASE LiveCommits /\ lpc = "rollback"
  BY <1>1, <1>2, <1>5, RollbackHotEffect DEF LiveCommits, HotCut
<1> QED
  BY <1>3, <1>4, <1>5 DEF LiveCommits

\* The chain moves, or nothing does, under the live worker.
LEMMA ShapeStays ==
  ASSUME LShape, UNCHANGED lvars, db' \in Database, ChainTypeOK'
  PROVE  LShape'
BY DEF lvars, LShape, LiveTypeOK, HotFetchedInv, AllFetched

\* To the cold lane, the process with its transactions taken apart does what a
\* backfill worker may do.
LEMMA TxSteps ==
  ASSUME DInv, [IndexerTxNext]_indexerTxVars
  PROVE  ColdNext /\ LShape' /\ TxTyped'
<1>1. /\ db \in Database /\ ChainTypeOK /\ lpayload \in RangePayload /\ LShape /\ TxTyped
      /\ IInv
  BY DEF DInv, IInv, BackfillTypeOK, LShape, LiveTypeOK
<1>2. ASSUME UNCHANGED chainVars PROVE ChainTypeOK'
  BY <1>1, <1>2 DEF chainVars, ChainTypeOK
<1>3. NoTransaction \in Transaction
  BY NoneTyped
<1>4. ASSUME UNCHANGED tx PROVE TxTyped'
  BY <1>1, <1>4 DEF TxTyped
<1>5. ASSUME NEW w \in Workers, tx' = [tx EXCEPT ![w] = NoTransaction] PROVE TxTyped'
  BY <1>1, <1>3, <1>5 DEF TxTyped
<1>6. CASE BackfillReads /\ UNCHANGED <<chainVars, lvars, tx>>
  <2>1. ColdReads /\ UNCHANGED db
    BY <1>6
       DEF BackfillReads, ColdReads, ReadLatest, ReconcileMatch, ReconcileMismatch, Plan, Fetch,
           FetchLogs, Validate
  <2> QED
    BY <1>1, <1>2, <1>4, <1>6, <2>1, ShapeStays DEF ColdNext
<1>7. CASE LiveReads /\ UNCHANGED <<chainVars, bvars, tx>>
  BY <1>1, <1>4, <1>7, ShapeReads DEF ColdNext, ColdSpared
<1>8. CASE BackfillStatement /\ UNCHANGED <<chainVars, lvars>>
  <2>1. TxTyped'
    BY <1>1, <1>8, StatementsTyped, BackfillInOrder, ExecuteTyped DEF BackfillStatement, Workers
  <2> QED
    BY <1>1, <1>2, <1>8, <2>1, ShapeStays DEF BackfillStatement, ColdNext, ColdSpared
<1>9. CASE BackfillCommits /\ UNCHANGED <<chainVars, lvars>>
  <2>1. ColdCommits \/ ColdCuts
    BY <1>1, <1>9, BackfillCommitsCold
  <2>2. db' \in Database
    BY <2>1 DEF ColdCommits, ColdCommitted, ColdCuts, ColdCut
  <2>3. TxTyped'
    BY <1>5, <1>9 DEF BackfillCommits, Workers
  <2> QED
    BY <1>1, <1>2, <1>9, <2>1, <2>2, <2>3, ShapeStays DEF ColdNext
<1>10. CASE LiveStatement /\ UNCHANGED <<chainVars, bvars>>
  <2>1. TxTyped'
    BY <1>1, <1>10, StatementsTyped, LiveInOrder, ExecuteTyped DEF LiveStatement, Workers
  <2> QED
    BY <1>1, <1>2, <1>10, <2>1, ShapeStays DEF LiveStatement, ColdNext, ColdSpared
<1>11. CASE LiveCommitsPrune /\ UNCHANGED <<chainVars, bvars>>
  <2>1. db' \in Database /\ db'.cold = db.cold /\ db'.checkpoint = db.checkpoint
    BY <1>1, <1>11, LiveCommitsSpare
  <2>2. TxTyped'
    BY <1>5, <1>11 DEF LiveCommitsPrune, Workers
  <2>3. LShape'
    BY <1>1, <1>2, <1>11, <2>1
       DEF LiveCommitsPrune, LShape, LiveTypeOK, Building, HotFetchedInv
  <2> QED
    BY <1>11, <2>1, <2>2, <2>3 DEF ColdNext, ColdSpared
<1>12. CASE LiveCommits /\ UNCHANGED <<chainVars, bvars>>
  <2>1. db' \in Database /\ db'.cold = db.cold /\ db'.checkpoint = db.checkpoint
    BY <1>1, <1>12, LiveCommitsSpare
  <2>2. TxTyped'
    BY <1>5, <1>12 DEF LiveCommits, Workers
  <2>3. LShape'
    BY <1>2, <1>12, <2>1, ShapeGoTo DEF LiveCommits
  <2> QED
    BY <1>12, <2>1, <2>2, <2>3 DEF ColdNext, ColdSpared
<1>13. CASE ExitDropsTransactions /\ UNCHANGED chainVars
  <2>1. TxTyped'
    BY <1>3, <1>13 DEF ExitDropsTransactions, TxTyped
  <2>2. BackfillGoTo("down") /\ LiveGoTo("down") /\ UNCHANGED db
    BY <1>13 DEF ExitDropsTransactions, ExitNotFound, ExitErr
  <2> QED
    BY <1>1, <1>2, <1>13, <2>1, <2>2, ShapeGoTo DEF ColdNext, ColdExits
<1>14. CASE IndexerRestart /\ UNCHANGED <<chainVars, tx>>
  BY <1>1, <1>2, <1>4, <1>14, ShapeGoTo DEF IndexerRestart, ColdNext, ColdExits
<1>15. CASE ChainNext /\ UNCHANGED <<db, bvars, lvars, tx>>
  BY <1>1, <1>4, <1>15, ChainMoves, ShapeStays DEF ColdNext
<1>16. CASE UNCHANGED indexerTxVars
  BY <1>1, <1>2, <1>4, <1>16, ShapeStays
     DEF indexerTxVars, indexerVars, ColdNext, ColdSpared
<1> QED
  BY <1>6, <1>7, <1>8, <1>9, <1>10, <1>11, <1>12, <1>13, <1>14, <1>15, <1>16
     DEF IndexerTxNext, BackfillTxLoop, LiveTxLoop

\* At the start the database is the migrated one.
LEMMA IndexerStarts ==
  ASSUME StartBlock >= 1, IndexerInit
  PROVE  BackfillInit /\ IInv /\ JInv /\ HInv
<1>1. BackfillInit /\ ChainTypeOK
  BY ChainStarts DEF IndexerInit, BackfillInit
<1>2. JInv
  BY DEF IndexerInit, BackfillLocalsInit, MigratedDatabase, EmptyLane, JInv, NoPayload,
         NewPayload, NoBlocks
<1> QED
  BY <1>1, <1>2, InitInv, LiveStarts DEF IndexerInit

\* And no transaction is open.
LEMMA TxStarts ==
  ASSUME StartBlock >= 1, IndexerTxInit
  PROVE  DInv /\ HInv /\ BackfillInit
<1>1. /\ BackfillInit /\ IInv /\ JInv /\ HInv
      /\ tx = [w \in Workers |-> NoTransaction]
  BY IndexerStarts DEF IndexerTxInit
<1>2. TxTyped /\ TxOrdered
  BY <1>1, NoneTyped, NothingHeld DEF TxTyped, TxOrdered
<1>3. LShape
  BY <1>1 DEF IndexerTxInit, IndexerInit, LiveLocalsInit, HInv, LShape, Building
<1> QED
  BY <1>1, <1>2, <1>3 DEF DInv

\* What holds of the backfill worker, the types and the order of locks are kept together.
LEMMA TxStepPreserves ==
  ASSUME DInv, StartBlock >= 1, [IndexerTxNext]_indexerTxVars
  PROVE  DInv'
<1>1. ColdNext /\ LShape' /\ TxTyped'
  BY TxSteps
<1>2. IInv' /\ JInv'
  BY <1>1, StepPreserves, JustifiedStep DEF DInv
<1>3. TxOrdered'
  BY OrderedStep DEF DInv
<1> QED
  BY <1>1, <1>2, <1>3 DEF DInv

\* The backfill worker's invariants hold although its transactions and the live worker's
\* interleave statement by statement, with reorganizations of any depth.
THEOREM IndexerTxInvariant ==
  ASSUME StartBlock >= 1
  PROVE  IndexerTxSpec => []DInv
<1>1. IndexerTxInit => DInv
  BY TxStarts
<1>2. DInv /\ [IndexerTxNext]_indexerTxVars => DInv'
  BY TxStepPreserves
<1> QED
  BY <1>1, <1>2, PTL DEF IndexerTxSpec

\* Every variable keeps its type, what COMMIT makes of the hot lane included.
THEOREM IndexerTxTypeCorrect ==
  ASSUME StartBlock >= 1
  PROVE  IndexerTxSpec => []IndexerTxTypeOK
<1>1. DInv => IndexerTxTypeOK
  BY DEF DInv, IInv, LShape, TxTyped, IndexerTypeOK, IndexerTxTypeOK
<1> QED
  BY <1>1, IndexerTxInvariant, PTL

\* Whatever a torn interleaving does to the hot lane, the cold lane stays one run of blocks
\* from START_BLOCK to the checkpoint, each row under the hash beside it, and is rolled
\* back only where the chain replaced a block.
THEOREM IndexerTxColdKept ==
  ASSUME StartBlock >= 1
  PROVE  IndexerTxSpec => [](ColdContiguous /\ ColdRowsBelongToBlocks /\ RollbackJustified)
<1>1. DInv => ColdContiguous /\ ColdRowsBelongToBlocks /\ RollbackJustified
  <2>1. IInv /\ JInv => RollbackJustified
    BY BoundsAssumption DEF IInv, BackfillTypeOK, ChainTypeOK, JInv, RollbackJustified
  <2> QED
    BY <2>1 DEF DInv, IInv
<1> QED
  BY <1>1, IndexerTxInvariant, PTL

\* Seen through the cold tables, it still only appends batches or cuts suffixes.
THEOREM IndexerTxImplementsPrefix ==
  ASSUME StartBlock >= 1
  PROVE  IndexerTxSpec => ImplementsPrefix
<1>1. IndexerTxInit => Prefix!Init
  BY DEF IndexerTxInit, IndexerInit, MigratedDatabase, EmptyLane, NoBlocks, NoTransfers,
         Prefix!Init, Prefix!Bare
<1>2. DInv /\ [IndexerTxNext]_indexerTxVars =>
        [Prefix!Append \/ Prefix!Truncate]_<<db.checkpoint, db.cold.blocks, db.cold.transfers>>
  BY TxSteps, StepRefines DEF DInv
<1> QED
  BY <1>1, <1>2, IndexerTxInvariant, PTL DEF IndexerTxSpec, ImplementsPrefix, Prefix!Spec

-----------------------------------------------------------------------------
(* With CONFIRMATION_DEPTH at least as deep as the chain can reorganize.   *)

\* The live worker is about to remove hot block n.
Doomed(n) == (lpc = "prune" /\ n < lstart) \/ (lpc = "rollback" /\ n >= lcursor)

\* The statements of the live worker have found all they are to delete, whatever the
\* backfill worker has committed since, and nothing else; they bring its range.
LiveHeld ==
  /\ lpc \notin {"prune", "rollback", "commit"} => tx["live"].step = 0
  /\ \A n \in Heights : tx["live"].gone.blocks[n] # NoHash => Doomed(n)
  /\ \A n \in Heights : tx["live"].new.blocks[n] # NoHash => lpc = "commit"
  /\ tx["live"].step >= 2 =>
       /\ \A n \in Heights :
            db.hot.blocks[n] # NoHash /\ Doomed(n) => tx["live"].gone.blocks[n] # NoHash
       /\ lpc = "commit" => tx["live"].new.blocks = lpayload.indexed_blocks

\* Those of the backfill worker delete what it promotes, and bring nothing.
BackfillHeld ==
  /\ bpc \notin {"commit", "rollback"} => tx["backfill"].step = 0
  /\ \A n \in Heights : tx["backfill"].new.blocks[n] = NoHash
  /\ \A n \in Heights : tx["backfill"].gone.blocks[n] # NoHash =>
       bpc = "commit" /\ n \in bpayload.from .. bpayload.upto

\* The workers go down together.
DownTogether == bpc = "down" => lpc = "down"

SInv ==
  /\ DInv /\ FInv /\ HInv /\ KInv /\ WindowInv
  /\ NoHole(db, StartBlock .. db.checkpoint)
  /\ LiveHeld
  /\ BackfillHeld
  /\ DownTogether

\* The second statement is the one on blocks.
LEMMA SecondOnBlocks ==
  ASSUME NEW S, NEW R, NEW B
  PROVE  LET d == [op |-> "delete_blocks", on |-> S]
             i == [op |-> "insert_blocks", rows |-> B]
         IN  /\ DeleteFromHot(S)[2] = d
             /\ (DeleteFromHot(S) \o UpdateLiveCheckpoint)[2] = d
             /\ (InsertIntoHot(R, B) \o UpdateLiveCheckpoint)[2] = i
<1>1. ASSUME NEW a, NEW b, NEW c PROVE <<a, b>>[2] = b /\ (<<a, b>> \o <<c>>)[2] = b
  <2> DEFINE T == {a, b, c}
  <2>1. <<a, b>> \in Seq(T) /\ <<c>> \in Seq(T)
    OBVIOUS
  <2> QED
    BY <2>1
<1> DEFINE a1 == [op |-> "delete_transfers", on |-> S]
           b1 == [op |-> "delete_blocks", on |-> S]
           a2 == [op |-> "insert_transfers", rows |-> R]
           b2 == [op |-> "insert_blocks", rows |-> B]
           c == [op |-> "update_checkpoint"]
<1>2. /\ DeleteFromHot(S) = <<a1, b1>> /\ InsertIntoHot(R, B) = <<a2, b2>>
      /\ UpdateLiveCheckpoint = <<c>>
  BY DEF DeleteFromHot, InsertIntoHot, UpdateLiveCheckpoint
<1> HIDE DEF a1, b1, a2, b2, c
<1>3. DeleteFromHot(S)[2] = b1 /\ (DeleteFromHot(S) \o UpdateLiveCheckpoint)[2] = b1
  BY <1>1, <1>2
<1>4. (InsertIntoHot(R, B) \o UpdateLiveCheckpoint)[2] = b2
  BY <1>1, <1>2
<1> QED
  BY <1>3, <1>4 DEF b1, b2

\* What a statement does to the blocks a transaction holds.
LEMMA ExecuteBlocks ==
  ASSUME TxTyped, NEW w \in Workers, NEW st, InOrder(st), Execute(w, st)
  PROVE  LET s == st[tx[w].step + 1] IN
           /\ tx'[w].step = tx[w].step + 1
           /\ tx'[w].gone.blocks = BlocksGone(s, tx[w].gone.blocks)
           /\ tx'[w].new.blocks = BlocksNew(s, tx[w].new.blocks)
           /\ \A v \in Workers : v # w => tx'[v] = tx[v]
           /\ s.op \in {"delete_blocks", "insert_blocks"} <=> tx[w].step = 1
           /\ tx[w].step \in 0 .. 2
<1> DEFINE t == tx[w]
           s == st[t.step + 1]
           gb == t.gone.blocks
           gt == t.gone.transfers
           nb == t.new.blocks
           nt == t.new.transfers
<1>1. t \in Transaction /\ t.step \in 0 .. 3
  BY TypeRecord DEF TxTyped
<1>2. t.step + 1 \in 1 .. Len(st) /\ Len(st) \in 0 .. 3
  BY <1>1 DEF Execute, InOrder
<1>3. s.op \in Ops /\ Class(s) = t.step + 1
  BY <1>2 DEF InOrder
<1>4. s.op \in {"delete_blocks", "insert_blocks"} <=> t.step = 1
  BY <1>1, <1>3 DEF Class, Ops
<1>5. t = Record(t.step, gb, gt, nb, nt, t.checkpoint)
  BY <1>1, TypeRecord
<1>6. tx' = [tx EXCEPT ![w] = After(t, s)] /\ DOMAIN tx = Workers
  BY DEF Execute, TxTyped
<1>7. ASSUME NEW k, NEW gb2, NEW gt2, NEW nb2, NEW nt2, NEW c
      PROVE  LET r == Record(k, gb2, gt2, nb2, nt2, c) IN
               r.step = k /\ r.gone.blocks = gb2 /\ r.new.blocks = nb2
  BY DEF Record
<1> HIDE DEF s, gb, gt, nb, nt
<1>8. CASE s.op = "update_checkpoint"
  <2>1. PICK x \in BOOLEAN : After(t, s) = Record(t.step + 1, gb, gt, nb, nt, x)
    BY <1>1, <1>5, <1>8, RecordUpdated
  <2>2. BlocksGone(s, gb) = gb /\ BlocksNew(s, nb) = nb
    BY <1>8 DEF BlocksGone, BlocksNew
  <2>3. /\ After(t, s).step = t.step + 1
        /\ After(t, s).gone.blocks = BlocksGone(s, gb)
        /\ After(t, s).new.blocks = BlocksNew(s, nb)
    BY <1>7, <2>1, <2>2
  <2> QED
    BY <1>1, <1>2, <1>4, <1>6, <2>3 DEF s, gb, nb
<1>9. CASE s.op # "update_checkpoint"
  <2>1. After(t, s) = Record(t.step + 1, BlocksGone(s, gb), RowsGone(s, gt), BlocksNew(s, nb),
                             RowsNew(s, nt), t.checkpoint)
    BY <1>1, <1>3, <1>5, <1>9, RecordAfter
  <2>2. /\ After(t, s).step = t.step + 1
        /\ After(t, s).gone.blocks = BlocksGone(s, gb)
        /\ After(t, s).new.blocks = BlocksNew(s, nb)
    BY <1>7, <2>1
  <2> QED
    BY <1>1, <1>2, <1>4, <1>6, <2>2 DEF s, gb, nb
<1> QED
  BY <1>8, <1>9

\* The live worker's statement on blocks deletes all that is doomed, or brings its range.
LEMMA LiveStatementHeld ==
  ASSUME SInv, LiveStatement
  PROVE  LiveHeld'
<1> DEFINE t == tx["live"]
           s == live_statements[t.step + 1]
<1>1. /\ TxTyped /\ LiveHeld /\ InOrder(live_statements) /\ Execute("live", live_statements)
      /\ "live" \in Workers
      /\ UNCHANGED <<db, lpc, lstart, lcursor, lpayload>>
  BY LiveInOrder DEF SInv, DInv, LiveStatement, lvars, Workers
<1>2. /\ tx'["live"].step = t.step + 1
      /\ tx'["live"].gone.blocks = BlocksGone(s, t.gone.blocks)
      /\ tx'["live"].new.blocks = BlocksNew(s, t.new.blocks)
      /\ s.op \in {"delete_blocks", "insert_blocks"} <=> t.step = 1
      /\ t.step \in 0 .. 2
  BY <1>1, ExecuteBlocks
<1>3. lpc \in {"prune", "rollback", "commit"}
  <2>1. t.step < Len(live_statements)
    BY <1>1 DEF Execute
  <2>2. live_statements # <<>>
    BY <1>2, <2>1
  <2> QED
    BY <2>2 DEF live_statements
<1>4. \A n \in Heights : Doomed(n)' <=> Doomed(n)
  BY <1>1 DEF Doomed
<1> HIDE DEF s
<1>5. CASE t.step # 1
  <2>1. tx'["live"].gone.blocks = t.gone.blocks /\ tx'["live"].new.blocks = t.new.blocks
    BY <1>2, <1>5 DEF BlocksGone, BlocksNew
  <2>2. t.step + 1 >= 2 => t.step >= 2
    BY <1>2, <1>5
  <2> QED
    BY <1>1, <1>2, <1>3, <1>4, <2>1, <2>2 DEF LiveHeld
<1>6. CASE t.step = 1 /\ lpc \in {"prune", "rollback"}
  <2> DEFINE S == IF lpc = "prune" THEN {m \in Heights : m < lstart} ELSE From(lcursor)
  <2>1. s = [op |-> "delete_blocks", on |-> S]
    <3>1. \/ live_statements = DeleteFromHot(S)
          \/ live_statements = DeleteFromHot(S) \o UpdateLiveCheckpoint
      BY <1>6 DEF live_statements
    <3> HIDE DEF S
    <3>2. live_statements[2] = [op |-> "delete_blocks", on |-> S]
      BY <3>1, SecondOnBlocks
    <3>3. s = live_statements[2]
      BY <1>6 DEF s
    <3> QED
      BY <3>2, <3>3
  <2>2. \A n \in Heights : n \in S <=> Doomed(n)
    BY <1>6 DEF Doomed, From
  <2> HIDE DEF S
  <2>3. /\ \A n \in Heights : tx'["live"].gone.blocks[n] =
             IF Doomed(n) THEN db.hot.blocks[n] ELSE NoHash
        /\ tx'["live"].new.blocks = t.new.blocks
    BY <1>2, <2>1, <2>2 DEF BlocksGone, BlocksNew, DeletedBlocks
  <2> QED
    BY <1>1, <1>2, <1>4, <1>6, <2>3 DEF LiveHeld
<1>7. CASE t.step = 1 /\ lpc = "commit"
  <2>1. s = [op |-> "insert_blocks", rows |-> lpayload.indexed_blocks]
    <3>1. live_statements = InsertIntoHot(lpayload.transfer_records, lpayload.indexed_blocks)
                              \o UpdateLiveCheckpoint
      BY <1>7 DEF live_statements
    <3>2. live_statements[2] = [op |-> "insert_blocks", rows |-> lpayload.indexed_blocks]
      BY <3>1, SecondOnBlocks, ZenonT(60)
    <3>3. s = live_statements[2]
      BY <1>7 DEF s
    <3> QED
      BY <3>2, <3>3
  <2>2. /\ tx'["live"].gone.blocks = t.gone.blocks
        /\ tx'["live"].new.blocks = lpayload.indexed_blocks
    BY <1>2, <2>1 DEF BlocksGone, BlocksNew
  <2>3. \A n \in Heights : ~Doomed(n)
    BY <1>7 DEF Doomed
  <2> QED
    BY <1>1, <1>2, <1>4, <1>7, <2>2, <2>3 DEF LiveHeld
<1> QED
  BY <1>3, <1>5, <1>6, <1>7

\* The backfill worker's deletes within the range it promotes.
LEMMA BackfillStatementHeld ==
  ASSUME SInv, BackfillStatement
  PROVE  BackfillHeld'
<1> DEFINE t == tx["backfill"]
           s == backfill_statements[t.step + 1]
<1>1. /\ TxTyped /\ BackfillHeld /\ InOrder(backfill_statements)
      /\ Execute("backfill", backfill_statements)
      /\ "backfill" \in Workers /\ bpc # "rollback"
      /\ UNCHANGED <<db, bpc, bpayload>>
  BY BackfillInOrder DEF SInv, DInv, FInv, SettledInv, BackfillStatement, bvars, Workers
<1>2. /\ tx'["backfill"].gone.blocks = BlocksGone(s, t.gone.blocks)
      /\ tx'["backfill"].new.blocks = BlocksNew(s, t.new.blocks)
      /\ s.op \in {"delete_blocks", "insert_blocks"} <=> t.step = 1
      /\ t.step \in 0 .. 2
  BY <1>1, ExecuteBlocks
<1>3. bpc = "commit"
  <2>1. t.step < Len(backfill_statements)
    BY <1>1 DEF Execute
  <2>2. backfill_statements # <<>>
    BY <1>2, <2>1
  <2> QED
    BY <1>1, <2>2 DEF backfill_statements
<1> HIDE DEF s
<1>4. CASE t.step # 1
  BY <1>1, <1>2, <1>3, <1>4 DEF BlocksGone, BlocksNew, BackfillHeld
<1>5. CASE t.step = 1
  <2> DEFINE S == bpayload.from .. bpayload.upto
  <2>1. s = [op |-> "delete_blocks", on |-> S]
    <3>1. backfill_statements = DeleteFromHot(S)
      BY <1>3 DEF backfill_statements
    <3> HIDE DEF S
    <3>2. backfill_statements[2] = [op |-> "delete_blocks", on |-> S]
      BY <3>1, SecondOnBlocks
    <3>3. s = backfill_statements[2]
      BY <1>5 DEF s
    <3> QED
      BY <3>2, <3>3
  <2> HIDE DEF S
  <2>2. /\ \A n \in Heights : tx'["backfill"].gone.blocks[n] # NoHash => n \in S
        /\ tx'["backfill"].new.blocks = t.new.blocks
    BY <1>2, <2>1 DEF BlocksGone, BlocksNew, DeletedBlocks
  <2> QED
    BY <1>1, <1>3, <2>2 DEF BackfillHeld, S
<1> QED
  BY <1>4, <1>5

\* Transactions that update the live checkpoint are of three statements.
LEMMA ThreeStatements ==
  ASSUME NEW S, NEW R, NEW B
  PROVE  /\ Len(DeleteFromHot(S) \o UpdateLiveCheckpoint) = 3
         /\ Len(InsertIntoHot(R, B) \o UpdateLiveCheckpoint) = 3
<1>1. ASSUME NEW a, NEW b, NEW c PROVE Len(<<a, b>> \o <<c>>) = 3
  <2> DEFINE T == {a, b, c}
  <2>1. <<a, b>> \in Seq(T) /\ <<c>> \in Seq(T)
    OBVIOUS
  <2> QED
    BY <2>1
<1> QED
  BY <1>1 DEF DeleteFromHot, InsertIntoHot, UpdateLiveCheckpoint

\* COMMIT of the live worker does what the single step does.
LEMMA LiveCommitsHot ==
  ASSUME SInv, LiveCommitsPrune \/ LiveCommits
  PROVE  HotPrunes \/ HotCuts \/ HotCommits
<1> DEFINE t == tx["live"]
<1>1. /\ db \in Database /\ "live" \in Workers /\ lcursor \in Heights /\ lstart \in Nat
      /\ lpayload \in RangePayload /\ TxTyped /\ LiveHeld
  BY DEF SInv, DInv, LShape, LiveTypeOK, Workers
<1>2. ASSUME NEW d \in Database, db' = CommitOf("live", d)
      PROVE  /\ db' \in Database
             /\ db'.liveCheckpoint = d.liveCheckpoint
             /\ \A n \in Heights :
                  db'.hot.blocks[n] = IF t.new.blocks[n] # NoHash THEN t.new.blocks[n]
                                      ELSE IF t.gone.blocks[n] # NoHash THEN NoHash
                                      ELSE db.hot.blocks[n]
  BY <1>1, <1>2, CommitOfEffect
<1>3. CASE LiveCommitsPrune
  <2> DEFINE d == prune_hot_before_block(db, lstart)
  <2>1. d \in Database /\ d.liveCheckpoint = db.liveCheckpoint
    BY <1>1, PruneHotEffect DEF HotPruned
  <2>2. db' = CommitOf("live", d)
    BY <1>3 DEF LiveCommitsPrune
  <2>3. t.step >= 2 /\ lpc = "prune"
    <3>1. Len(DeleteFromHot({m \in Heights : m < lstart})) = 2
      BY DEF DeleteFromHot
    <3>2. lpc = "prune" /\ t.step = Len(live_statements)
      BY <1>3 DEF LiveCommitsPrune
    <3>3. live_statements = DeleteFromHot({m \in Heights : m < lstart})
      BY <3>2, Zenon DEF live_statements
    <3> QED
      BY <3>1, <3>2, <3>3
  <2>4. \A n \in Heights : Doomed(n) <=> n < lstart
    BY <2>3 DEF Doomed
  <2> HIDE DEF d
  <2>5. HotPruned(db, lstart, db')
    BY <1>1, <1>2, <2>1, <2>2, <2>3, <2>4 DEF LiveHeld, HotPruned
  <2> QED
    BY <1>3, <2>3, <2>5 DEF LiveCommitsPrune, HotPrunes
<1>5. CASE LiveCommits /\ lpc = "rollback"
  <2> DEFINE d == rollback_hot_from_block(db, lcursor)
  <2>1. d \in Database /\ d.liveCheckpoint = Monus(lcursor, 1)
    BY <1>1, RollbackHotEffect DEF HotCut
  <2>2. db' = CommitOf("live", d)
    BY <1>5 DEF LiveCommits
  <2>3. t.step >= 2
    <3>1. Len(DeleteFromHot(From(lcursor)) \o UpdateLiveCheckpoint) = 3
      BY ThreeStatements
    <3> QED
      BY <1>5, <3>1 DEF LiveCommits, live_statements
  <2>4. \A n \in Heights : Doomed(n) <=> n >= lcursor
    BY <1>5 DEF Doomed
  <2> HIDE DEF d
  <2>5. HotCut(db, lcursor, db')
    BY <1>1, <1>2, <1>5, <2>1, <2>2, <2>3, <2>4 DEF LiveHeld, HotCut
  <2> QED
    BY <1>5, <2>5 DEF LiveCommits, HotCuts
<1>6. CASE LiveCommits /\ lpc = "commit"
  <2> DEFINE d == commit_hot_range(db, lpayload.transfer_records, lpayload.indexed_blocks,
                                   lpayload.upto)
  <2>1. d \in Database /\ d.liveCheckpoint = lpayload.upto
    <3>1. /\ lpayload.transfer_records \in [Heights -> SUBSET Row]
          /\ lpayload.indexed_blocks \in [Heights -> HashOrNone]
          /\ lpayload.upto \in Heights
      BY <1>1, <1>6 DEF SInv, DInv, LShape, Building, RangePayload
    <3> QED
      BY <1>1, <3>1, CommitHotEffect DEF HotCommitted
  <2>2. db' = CommitOf("live", d)
    BY <1>6 DEF LiveCommits
  <2>3. t.step >= 2
    <3>1. Len(InsertIntoHot(lpayload.transfer_records, lpayload.indexed_blocks)
                \o UpdateLiveCheckpoint) = 3
      BY ThreeStatements
    <3> QED
      BY <1>6, <3>1 DEF LiveCommits, live_statements
  <2>4. \A n \in Heights : ~Doomed(n)
    BY <1>6 DEF Doomed
  <2> HIDE DEF d
  <2>5. HotCommitted(db, lpayload.indexed_blocks, lpayload.upto, db')
    BY <1>1, <1>2, <1>6, <2>1, <2>2, <2>3, <2>4 DEF LiveHeld, HotCommitted
  <2> QED
    BY <1>6, <2>5 DEF LiveCommits, HotCommits
<1> QED
  BY <1>3, <1>5, <1>6 DEF LiveCommits

\* What another step than the worker's own removes from the hot lane, the cold lane has.
Promoted ==
  \A n \in Heights : db.hot.blocks[n] # NoHash =>
    db'.hot.blocks[n] # NoHash \/ n \in StartBlock .. db'.checkpoint

\* COMMIT of the backfill worker removes hot blocks that it has promoted.
LEMMA BackfillCommitsHot ==
  ASSUME SInv, BackfillCommits, UNCHANGED lvars
  PROVE  HotThins /\ Promoted
<1> DEFINE t == tx["backfill"]
           p == bpayload
           d == commit_finalized_range(db, p.transfer_records, p.indexed_blocks, p.from, p.upto)
<1>0. SInv => IInv /\ TxTyped /\ BackfillHeld /\ bpc # "rollback"
  BY DEF SInv, DInv, FInv, SettledInv
<1>1. /\ db \in Database /\ "backfill" \in Workers /\ TxTyped /\ BackfillHeld /\ IInv
      /\ bpc = "commit" /\ StartBlock \in Nat
  BY <1>0, EngineAssumption DEF IInv, BackfillTypeOK, Workers, BackfillCommits
<1>2. /\ p.transfer_records \in [Heights -> SUBSET Row]
      /\ p.indexed_blocks \in [Heights -> HashOrNone]
      /\ p.from \in Nat /\ p.upto \in Heights /\ p.from >= StartBlock
  BY <1>1, BoundsAssumption
     DEF IInv, BackfillTypeOK, RangeInv, RangePayload, Larger, Database, Heights
<1>3. d \in Database /\ d.checkpoint = p.upto
  <2>1. ColdCommitted(db, p.transfer_records, p.indexed_blocks, p.upto, d)
    BY <1>1, <1>2, CommitFinalizedEffect
  <2> QED
    BY <2>1 DEF ColdCommitted
<1>4. d.liveCheckpoint = db.liveCheckpoint
  BY DEF commit_finalized_range
<1>5. db' = CommitOf("backfill", d)
  BY <1>1 DEF BackfillCommits
<1> HIDE DEF d, p
<1>6. /\ db' \in Database
      /\ db'.liveCheckpoint = db.liveCheckpoint /\ db'.checkpoint = p.upto
      /\ \A n \in Heights :
           db'.hot.blocks[n] = IF t.new.blocks[n] # NoHash THEN t.new.blocks[n]
                               ELSE IF t.gone.blocks[n] # NoHash THEN NoHash
                               ELSE db.hot.blocks[n]
  BY <1>1, <1>3, <1>4, <1>5, CommitOfEffect
<1>7. HotThins
  BY <1>1, <1>6 DEF BackfillHeld, HotThins, HotThinned
<1>8. \A n \in Heights : t.gone.blocks[n] # NoHash => n \in StartBlock .. p.upto
  BY <1>1, <1>2 DEF BackfillHeld, Heights, p
<1>9. Promoted
  BY <1>1, <1>6, <1>8 DEF BackfillHeld, Promoted
<1> QED
  BY <1>7, <1>9

\* Under the other worker's steps what a worker holds stays what it needs.
LEMMA HeldStays ==
  /\ (LiveHeld /\ tx'["live"] = tx["live"] /\ UNCHANGED lvars
       /\ (\A n \in Heights : db'.hot.blocks[n] \in {NoHash, db.hot.blocks[n]})) => LiveHeld'
  /\ (BackfillHeld /\ tx'["backfill"] = tx["backfill"] /\ UNCHANGED bvars) => BackfillHeld'
BY DEF LiveHeld, Doomed, lvars, BackfillHeld, bvars

\* Outside a transaction a worker holds nothing.
LEMMA HeldIdle ==
  ASSUME TxOrdered'
  PROVE  /\ tx'["live"].step = 0 => LiveHeld'
         /\ tx'["backfill"].step = 0 => BackfillHeld'
<1>1. HoldsInOrder(tx["live"])' /\ HoldsInOrder(tx["backfill"])'
  BY DEF TxOrdered, Workers
<1>2. ASSUME tx'["live"].step = 0 PROVE LiveHeld'
  <2>1. \A n \in Heights : tx'["live"].gone.blocks[n] = NoHash /\ tx'["live"].new.blocks[n] = NoHash
    BY <1>1, <1>2 DEF HoldsInOrder
  <2> QED
    BY <1>2, <2>1 DEF LiveHeld
<1>3. ASSUME tx'["backfill"].step = 0 PROVE BackfillHeld'
  <2>1. \A n \in Heights :
          tx'["backfill"].gone.blocks[n] = NoHash /\ tx'["backfill"].new.blocks[n] = NoHash
    BY <1>1, <1>3 DEF HoldsInOrder
  <2> QED
    BY <1>3, <2>1 DEF BackfillHeld
<1> QED
  BY <1>2, <1>3

\* To the hot lane, the process with its transactions taken apart does what a live worker
\* may do beside one that only promotes.
LEMMA TxHotSteps ==
  ASSUME SInv, [IndexerTxNext]_indexerTxVars
  PROVE  HotStays /\ (HotThins => Promoted) /\ LiveHeld' /\ BackfillHeld' /\ DownTogether'
<1>1. /\ DInv /\ db \in Database /\ LShape /\ TxTyped /\ LiveHeld /\ BackfillHeld
      /\ DOMAIN tx = Workers /\ "live" \in Workers /\ "backfill" \in Workers
      /\ bpc # "rollback" /\ DownTogether
  BY DEF SInv, DInv, FInv, SettledInv, LShape, LiveTypeOK, TxTyped, Workers
<1>2. TxOrdered'
  BY <1>1, OrderedStep DEF DInv
<1>3. ASSUME UNCHANGED db PROVE Promoted
  BY <1>3 DEF Promoted
<1>4. ASSUME UNCHANGED db, UNCHANGED lvars, UNCHANGED chainVars PROVE HotStays
  BY <1>1, <1>4 DEF HotStays, HotThins, HotThinned
<1>5. NoTransaction.step = 0
  BY DEF NoTransaction
<1>16. ASSUME bpc' # "down" \/ (bpc' = bpc /\ lpc # "down") \/ lpc' = "down"
              \/ (bpc' = bpc /\ lpc' = lpc)
       PROVE  DownTogether'
  BY <1>1, <1>16 DEF DownTogether
<1>6. CASE BackfillReads /\ UNCHANGED <<chainVars, lvars, tx>>
  <2>1. UNCHANGED db /\ bpc \notin {"commit", "rollback"} /\ bpc' # "down"
    BY <1>6
       DEF BackfillGoTo, BackfillReads, ReadLatest, ReconcileMatch, ReconcileMismatch, Plan,
           Fetch, FetchLogs, Validate
  <2>2. tx'["backfill"].step = 0
    BY <1>1, <1>6, <2>1 DEF BackfillHeld
  <2> QED
    BY <1>1, <1>2, <1>3, <1>4, <1>6, <1>16, <2>1, <2>2, HeldStays, HeldIdle
<1>7. CASE LiveReads /\ UNCHANGED <<chainVars, bvars, tx>>
  <2>1. lpc \notin {"prune", "commit", "rollback", "down"} /\ bpc' = bpc
    BY <1>7
       DEF bvars, LiveReads, LiveReadLatest, LiveWindow, LiveReadStored, LiveCompare, LivePlan,
           LiveFetch, LiveFetchLogs, LiveValidate
  <2>2. tx'["live"].step = 0
    BY <1>1, <1>7, <2>1 DEF LiveHeld
  <2>3. UNCHANGED db
    BY <1>1, <1>7, ShapeReads
  <2>4. HotStays
    BY <1>7 DEF LiveReads, HotReads, HotStays
  <2> QED
    BY <1>1, <1>2, <1>3, <1>7, <1>16, <2>1, <2>2, <2>3, <2>4, HeldStays, HeldIdle
<1>8. CASE BackfillStatement /\ UNCHANGED <<chainVars, lvars>>
  <2>1. UNCHANGED db /\ tx'["live"] = tx["live"] /\ UNCHANGED <<bpc, lpc>>
    BY <1>1, <1>8 DEF BackfillStatement, Execute, Workers, bvars, lvars
  <2> QED
    BY <1>1, <1>3, <1>4, <1>8, <1>16, <2>1, HeldStays, BackfillStatementHeld
<1>9. CASE BackfillCommits /\ UNCHANGED <<chainVars, lvars>>
  <2>1. HotThins /\ Promoted
    BY <1>9, BackfillCommitsHot
  <2>2. tx'["live"] = tx["live"] /\ tx'["backfill"].step = 0 /\ bpc' # "down"
    BY <1>1, <1>5, <1>9 DEF BackfillCommits, BackfillGoTo, Workers
  <2>3. LiveHeld'
    BY <1>1, <1>9, <2>1, <2>2, HeldStays DEF HotThins, HotThinned
  <2> QED
    BY <1>2, <1>9, <1>16, <2>1, <2>2, <2>3, HeldIdle DEF HotStays
<1>10. CASE LiveStatement /\ UNCHANGED <<chainVars, bvars>>
  <2>1. UNCHANGED db /\ UNCHANGED lvars /\ tx'["backfill"] = tx["backfill"]
        /\ UNCHANGED <<bpc, lpc>>
    BY <1>1, <1>10 DEF LiveStatement, Execute, Workers, bvars, lvars
  <2> QED
    BY <1>1, <1>3, <1>4, <1>10, <1>16, <2>1, HeldStays, LiveStatementHeld
<1>11. CASE (LiveCommitsPrune \/ LiveCommits) /\ UNCHANGED <<chainVars, bvars>>
  <2>1. HotPrunes \/ HotCuts \/ HotCommits
    BY <1>11, LiveCommitsHot
  <2>2. ~HotThins
    BY <2>1 DEF HotPrunes, HotCuts, HotCommits, HotThins, LiveGoTo, lvars
  <2>3. tx'["backfill"] = tx["backfill"] /\ tx'["live"].step = 0
        /\ bpc' = bpc /\ lpc # "down"
    BY <1>1, <1>5, <1>11 DEF LiveCommitsPrune, LiveCommits, Workers, bvars
  <2> QED
    BY <1>1, <1>2, <1>11, <1>16, <2>1, <2>2, <2>3, HeldStays, HeldIdle DEF HotStays
<1>12. CASE ExitDropsTransactions /\ UNCHANGED chainVars
  <2>1. LiveGoTo("down") /\ UNCHANGED db /\ lpc' = "down"
    BY <1>12 DEF ExitDropsTransactions, ExitNotFound, ExitErr, LiveGoTo
  <2>2. tx'["backfill"].step = 0 /\ tx'["live"].step = 0
    BY <1>5, <1>12 DEF ExitDropsTransactions, Workers
  <2> QED
    BY <1>2, <1>3, <1>12, <1>16, <2>1, <2>2, HeldIdle DEF HotStays, HotExits
<1>13. CASE IndexerRestart /\ UNCHANGED <<chainVars, tx>>
  <2>1. /\ LiveGoTo("latest") /\ UNCHANGED db /\ bpc' # "down"
        /\ bpc = "down" /\ lpc = "down"
    BY <1>1, <1>13 DEF IndexerRestart, BackfillGoTo, DownTogether
  <2>2. tx'["backfill"].step = 0 /\ tx'["live"].step = 0
    BY <1>1, <1>13, <2>1 DEF BackfillHeld, LiveHeld
  <2> QED
    BY <1>1, <1>2, <1>3, <1>13, <1>16, <2>1, <2>2, HeldIdle DEF HotStays, HotExits
<1>14. CASE ChainNext /\ UNCHANGED <<db, bvars, lvars, tx>>
  BY <1>1, <1>3, <1>14, <1>16, HeldStays DEF HotStays, bvars, lvars
<1>15. CASE UNCHANGED indexerTxVars
  BY <1>1, <1>3, <1>4, <1>15, <1>16, HeldStays DEF indexerTxVars, indexerVars, bvars, lvars
<1> QED
  BY <1>6, <1>7, <1>8, <1>9, <1>10, <1>11, <1>12, <1>13, <1>14, <1>15
     DEF IndexerTxNext, BackfillTxLoop, LiveTxLoop

\* At the start nothing is stored and no transaction is open.
LEMMA SettledStarts ==
  ASSUME StartBlock >= 1, IndexerTxInit
  PROVE  SInv
<1>1. DInv /\ HInv /\ FInv
  BY TxStarts, FinalInit
<1>2. KInv /\ WindowInv /\ NoHole(db, StartBlock .. db.checkpoint)
  <2> DEFINE S == StartBlock .. db.checkpoint
  <2>1. db = MigratedDatabase /\ LiveLocalsInit
    BY DEF IndexerTxInit, IndexerInit
  <2> HIDE DEF S
  <2>2. KInv /\ WindowInv /\ NoHole(db, S)
    BY <2>1, KeptStarts
  <2> QED
    BY <2>2 DEF S
<1>3. LiveHeld /\ BackfillHeld /\ DownTogether
  <2>1. bpc = "latest" /\ tx = [w \in Workers |-> NoTransaction]
    BY DEF IndexerTxInit, IndexerInit, BackfillLocalsInit
  <2>2. \A w \in Workers :
          /\ tx[w].step = 0
          /\ \A n \in Heights : tx[w].gone.blocks[n] = NoHash /\ tx[w].new.blocks[n] = NoHash
    BY <2>1 DEF NoTransaction, EmptyLane, NoBlocks
  <2> QED
    BY <2>1, <2>2 DEF Workers, LiveHeld, BackfillHeld, DownTogether
<1> QED
  BY <1>1, <1>2, <1>3 DEF SInv

\* Every step keeps all of it: to each worker the other one does only what the proofs
\* about that worker allow for.
LEMMA SettledStep ==
  ASSUME SInv, StartBlock >= 1, ConfirmationDepth >= ReorgDepth,
         [IndexerTxNext]_indexerTxVars
  PROVE  SInv'
<1>1. /\ IInv /\ FInv /\ HInv /\ KInv /\ WindowInv /\ DInv
      /\ NoHole(db, StartBlock .. db.checkpoint)
      /\ db.checkpoint \in Nat /\ db'.checkpoint \in Nat /\ StartBlock \in Nat
  <2>1. DInv /\ DInv'
    BY TxStepPreserves DEF SInv
  <2>2. IInv /\ IInv'
    BY <2>1 DEF DInv
  <2> QED
    BY <2>1, <2>2, BoundsAssumption, EngineAssumption
       DEF SInv, IInv, BackfillTypeOK, Database, Heights
<1>2. DInv' /\ ColdNext
  BY <1>1, TxStepPreserves, TxSteps
<1>3. FInv'
  BY <1>1, <1>2, FinalStep
<1>4. HotStays /\ (HotThins => Promoted) /\ LiveHeld' /\ BackfillHeld' /\ DownTogether'
  BY TxHotSteps
<1>5. HInv' /\ KInv' /\ WindowInv'
  BY <1>1, <1>4, HotStepPreserves, KeptStep, WindowStep
<1>6. NoHole(db', StartBlock .. db'.checkpoint)
  <2> DEFINE S == StartBlock .. db.checkpoint
             T == StartBlock .. db'.checkpoint
  <2>1. S \subseteq T
    BY <1>1, <1>2, CheckpointGrows
  <2>2. HotThins => \A n \in Heights :
          db.hot.blocks[n] # NoHash => db'.hot.blocks[n] # NoHash \/ n \in T
    BY <1>4 DEF Promoted
  <2>3. NoHole(db, S)
    BY <1>1
  <2> HIDE DEF S, T
  <2>4. NoHole(db', T)
    BY <1>1, <1>4, <2>1, <2>2, <2>3, NoHoleStep
  <2> QED
    BY <2>4 DEF T
<1>7. NoHole(db, StartBlock .. db.checkpoint)'
  BY <1>6 DEF NoHole
<1> QED
  BY <1>2, <1>3, <1>4, <1>5, <1>7 DEF SInv

\* All of it holds in every reachable state.
THEOREM IndexerTxSettled ==
  ASSUME StartBlock >= 1, ConfirmationDepth >= ReorgDepth
  PROVE  IndexerTxSpec => []SInv
<1>1. IndexerTxInit => SInv
  BY SettledStarts
<1>2. SInv /\ [IndexerTxNext]_indexerTxVars => SInv'
  BY SettledStep
<1> QED
  BY <1>1, <1>2, PTL DEF IndexerTxSpec

\* From the lowest hot block to the live checkpoint every block is in one of the lanes,
\* although the backfill worker's deletes and the live worker's inserts interleave
\* statement by statement.
THEOREM IndexerTxNoGap ==
  ASSUME StartBlock >= 1, ConfirmationDepth >= ReorgDepth
  PROVE  IndexerTxSpec => []NoGapBetweenLanes
<1>1. SInv => NoGapBetweenLanes
  <2> SUFFICES ASSUME SInv, NEW m \in Heights, NEW n \in Heights,
                      db.hot.blocks[m] # NoHash, m <= n, n <= db.liveCheckpoint
               PROVE  InSomeLane(n)
    BY DEF NoGapBetweenLanes
  <2>1. db.hot.blocks[n] # NoHash \/ n \in StartBlock .. db.checkpoint
    BY DEF SInv, NoHole
  <2>2. ColdContiguous
    BY DEF SInv, DInv, IInv
  <2> QED
    BY <2>1, <2>2 DEF ColdContiguous, InSomeLane
<1> QED
  BY <1>1, IndexerTxSettled, PTL

\* The cold lane is the canonical chain at every moment, with exactly its transfers,
\* whatever the live worker does between the backfill worker's statements.
THEOREM IndexerTxColdCanonical ==
  ASSUME StartBlock >= 1, ConfirmationDepth >= ReorgDepth
  PROVE  IndexerTxSpec => []ColdCanonical
<1>1. SInv => ColdCanonical
  BY DEF SInv, FInv
<1> QED
  BY <1>1, IndexerTxSettled, PTL

\* The live worker never finds a hot row at a height it inserts.
THEOREM IndexerTxHotBelowLiveCheckpoint ==
  ASSUME StartBlock >= 1, ConfirmationDepth >= ReorgDepth
  PROVE  IndexerTxSpec => []HotBelowLiveCheckpoint
<1>1. SInv => HotBelowLiveCheckpoint
  BY DEF SInv, HInv, HotBounded, HotBelowLiveCheckpoint
<1> QED
  BY <1>1, IndexerTxSettled, PTL

\* Neither worker deletes a block that the chain has not replaced.
THEOREM IndexerTxRollbackJustified ==
  ASSUME StartBlock >= 1, ConfirmationDepth >= ReorgDepth
  PROVE  IndexerTxSpec => [](bpc # "rollback" /\ HotRollbackJustified)
<1>1. SInv => bpc # "rollback" /\ HotRollbackJustified
  BY KeptJustifies DEF SInv, FInv, SettledInv
<1> QED
  BY <1>1, IndexerTxSettled, PTL

\* A promotion loses nothing: a block leaves both lanes only when the live worker's own
\* COMMIT prunes it or rolls it back.
THEOREM IndexerTxPromotion ==
  ASSUME StartBlock >= 1, ConfirmationDepth >= ReorgDepth
  PROVE  IndexerTxSpec => PromotionLosesNothing
<1> DEFINE Kept ==
      \A n \in Heights : InSomeLane(n) /\ ~InSomeLane(n)' =>
        /\ lpc' # lpc
        /\ \/ lpc = "prune" /\ n < lstart
           \/ lpc = "rollback" /\ n >= lcursor
<1>1. SInv /\ [IndexerTxNext]_indexerTxVars => Kept
  <2> SUFFICES ASSUME SInv, [IndexerTxNext]_indexerTxVars, NEW n \in Heights,
                      InSomeLane(n), ~InSomeLane(n)'
               PROVE  /\ lpc' # lpc
                      /\ \/ lpc = "prune" /\ n < lstart
                         \/ lpc = "rollback" /\ n >= lcursor
    OBVIOUS
  <2>1. /\ DInv /\ IInv /\ FInv /\ HInv /\ IInv'
    <3>1. DInv /\ DInv'
      BY TxStepPreserves DEF SInv
    <3> QED
      BY <3>1 DEF SInv, DInv
  <2>2. ColdNext /\ HotStays /\ (HotThins => Promoted)
    BY <2>1, TxSteps, TxHotSteps
  <2>3. /\ db.checkpoint \in Nat /\ db'.checkpoint \in Nat /\ StartBlock \in Nat /\ n \in Nat
        /\ db'.checkpoint >= db.checkpoint
    BY <2>1, <2>2, CheckpointGrows, BoundsAssumption, EngineAssumption
       DEF IInv, BackfillTypeOK, Database, Heights
  <2>4. /\ db.cold.blocks[n] # NoHash <=> StartBlock <= n /\ n <= db.checkpoint
        /\ db'.cold.blocks[n] # NoHash <=> StartBlock <= n /\ n <= db'.checkpoint
    BY <2>1 DEF IInv, ColdContiguous
  <2>5. /\ db.hot.blocks[n] # NoHash /\ db'.hot.blocks[n] = NoHash
        /\ n \notin StartBlock .. db'.checkpoint
    BY <2>3, <2>4 DEF InSomeLane
  <2>6. ~HotThins
    BY <2>2, <2>5 DEF Promoted
  <2>7. ~HotReads /\ ~HotExits /\ db' # db
    BY <2>5
       DEF HotExits, HotReads, LiveReadLatest, LiveWindow, LiveReadStored, LiveCompare,
           LivePlan, LiveFetch, LiveFetchLogs, LiveValidate
  <2>8. ~HotCommits
    BY <2>5 DEF HotCommits, HotCommitted
  <2>9. HotPrunes \/ HotCuts
    BY <2>2, <2>6, <2>7, <2>8 DEF HotStays
  <2> QED
    BY <2>5, <2>9 DEF HotPrunes, HotPruned, HotCuts, HotCut, LiveGoTo
<1> HIDE DEF Kept
<1>3. SInv /\ [IndexerTxNext]_indexerTxVars => [Kept]_db
  BY <1>1
<1>4. IndexerTxSpec => [][Kept]_db
  BY <1>3, IndexerTxSettled, PTL DEF IndexerTxSpec
<1> QED
  BY <1>4 DEF PromotionLosesNothing, Kept

-----------------------------------------------------------------------------
(* Refinement of ServedChain.                                              *)

\* With what SInv says, all a reader of both lanes relies on.
VInv == SInv /\ FromStart

\* Every step keeps it.
LEMMA ServedInvStep ==
  ASSUME VInv, StartBlock >= 1, ConfirmationDepth >= ReorgDepth,
         [IndexerTxNext]_indexerTxVars
  PROVE  VInv'
<1>1. HotStays
  BY TxHotSteps DEF VInv
<1>2. FromStart'
  BY <1>1, FromStartStep DEF VInv, SInv
<1> QED
  BY <1>2, SettledStep DEF VInv

\* What a reader finds: up to the checkpoint the cold block, above it the hot one.
LEMMA WhatIsServed ==
  ASSUME IInv, FromStart, NEW n \in Heights
  PROVE  /\ StartBlock <= n /\ n <= db.checkpoint =>
              BlockServed(n) = db.cold.blocks[n] /\ BlockServed(n) # NoHash
         /\ n > db.checkpoint => BlockServed(n) = db.hot.blocks[n]
         /\ n < StartBlock => BlockServed(n) = NoHash
<1>1. db.checkpoint \in Nat /\ StartBlock \in Nat /\ n \in Nat
  BY BoundsAssumption, EngineAssumption DEF IInv, BackfillTypeOK, Database, Heights
<1>2. db.cold.blocks[n] # NoHash <=> StartBlock <= n /\ n <= db.checkpoint
  BY DEF IInv, ColdContiguous
<1> QED
  BY <1>1, <1>2 DEF FromStart, BlockServed

\* COMMIT of the backfill worker finalizes its range, and changes nothing else that a
\* reader sees: the hot blocks it deletes are those it brings.
LEMMA CommitFinalizes ==
  ASSUME VInv, VInv', StartBlock >= 1, BackfillCommits, UNCHANGED <<chainVars, lvars>>
  PROVE  Served!Finalize
<1> DEFINE p == bpayload
           first == Served!Next1
<1>1. /\ IInv /\ IInv' /\ FromStart /\ FromStart' /\ FInv /\ TxTyped /\ StartBlock \in Nat
      /\ db.checkpoint \in Nat /\ db'.checkpoint \in Nat
  BY BoundsAssumption, EngineAssumption
     DEF VInv, SInv, DInv, IInv, BackfillTypeOK, Database, Heights
<1>2. ColdCommits
  BY <1>1, BackfillCommitsCold, NoRollback
<1>3. HotThins /\ Promoted
  BY BackfillCommitsHot DEF VInv
<1>4. first = Larger(db.checkpoint + 1, StartBlock)
  BY <1>1 DEF Served!Next1, Larger
<1>5. /\ db'.checkpoint = p.upto /\ p.from = first
      /\ p.from <= p.upto /\ p.upto <= p.from + BLOCK_BATCH_SIZE - 1
      /\ \A n \in Heights : n \in p.from .. p.upto => db'.cold.blocks[n] \in Hashes
      /\ \A n \in Heights : n \notin p.from .. p.upto => db'.cold.blocks[n] = db.cold.blocks[n]
  BY <1>1, <1>2, <1>4, CommitEffect
<1>6. first \in Nat /\ first > db.checkpoint /\ first >= StartBlock
  BY <1>1, <1>4 DEF Larger
<1> HIDE DEF first, p
<1>7. db'.checkpoint \in first .. first + BLOCK_BATCH_SIZE - 1
  BY <1>1, <1>5, <1>6, EngineAssumption
<1>8. ASSUME NEW n \in Heights, n \in first .. db'.checkpoint
      PROVE  BlockServed(n)' \in Hashes
  <2>1. n \in p.from .. p.upto /\ StartBlock <= n
    BY <1>5, <1>6, <1>8, BoundsAssumption, EngineAssumption DEF Heights
  <2> QED
    BY <1>5, <2>1, ChainsAssumption DEF BlockServed
<1>9. ASSUME NEW n \in Heights, n \notin first .. db'.checkpoint
      PROVE  BlockServed(n)' = BlockServed(n)
  <2>1. db'.cold.blocks[n] = db.cold.blocks[n]
    BY <1>5, <1>9
  <2>2. CASE db.cold.blocks[n] # NoHash
    BY <2>1, <2>2 DEF BlockServed
  <2>3. CASE db.cold.blocks[n] = NoHash
    <3>1. n \in Nat /\ (n < StartBlock \/ n > db'.checkpoint)
      BY <1>1, <2>1, <2>3, BoundsAssumption DEF IInv, ColdContiguous, Heights
    <3>2. db'.hot.blocks[n] = db.hot.blocks[n]
      BY <1>1, <1>3, <3>1 DEF HotThins, HotThinned, Promoted, FromStart
    <3> QED
      BY <2>1, <3>2 DEF BlockServed
  <2> QED
    BY <2>2, <2>3
<1> QED
  BY <1>7, <1>8, <1>9 DEF first, Served!Finalize, Served!Written

\* COMMIT of the live worker makes the run of recent blocks longer at its end, or takes
\* blocks from one of its ends.
LEMMA LiveCommitMoves ==
  ASSUME VInv, VInv', StartBlock >= 1, LiveCommitsPrune \/ LiveCommits,
         UNCHANGED <<chainVars, bvars>>
  PROVE  [Served!Next]_<<db.checkpoint, [n \in Heights |-> BlockServed(n)]>>
<1>1. /\ IInv /\ IInv' /\ FromStart /\ FromStart' /\ HInv /\ WindowInv /\ StartBlock \in Nat
      /\ NoHole(db, StartBlock .. db.checkpoint)
      /\ db.checkpoint \in Nat /\ db.liveCheckpoint \in Heights
      /\ db.hot.blocks \in [Heights -> HashOrNone] /\ lcursor \in Nat /\ lstart \in Nat
      /\ lpayload \in RangePayload /\ Heights \subseteq Nat
  <2>1. /\ IInv /\ IInv' /\ FromStart /\ FromStart' /\ HInv /\ WindowInv
        /\ NoHole(db, StartBlock .. db.checkpoint)
    BY DEF VInv, SInv, DInv
  <2>2. StartBlock \in Nat /\ Heights \subseteq Nat
    BY BoundsAssumption, EngineAssumption DEF Heights
  <2>3. db \in Database /\ lcursor \in Heights /\ lstart \in Nat /\ lpayload \in RangePayload
    BY <2>1 DEF HInv, LiveTypeOK
  <2>4. /\ db.checkpoint \in Heights /\ db.liveCheckpoint \in Heights
        /\ db.hot.blocks \in [Heights -> HashOrNone]
    BY <2>3 DEF Database, Lane
  <2> QED
    BY <2>1, <2>2, <2>3, <2>4
<1>2. db'.cold = db.cold /\ db'.checkpoint = db.checkpoint
  BY LiveCommitsSpare DEF VInv, SInv, DInv
<1>3. HotPrunes \/ HotCuts \/ HotCommits
  BY LiveCommitsHot DEF VInv
<1> DEFINE R == Served!Recent
<1>4. R = {n \in Heights : n > db.checkpoint /\ db.hot.blocks[n] # NoHash}
  BY <1>1, WhatIsServed DEF Served!Recent
<1>5. \A n \in Heights :
        /\ n > db.checkpoint =>
             BlockServed(n) = db.hot.blocks[n] /\ BlockServed(n)' = db'.hot.blocks[n]
        /\ n <= db.checkpoint => BlockServed(n)' = BlockServed(n)
  <2> TAKE n \in Heights
  <2>1. CASE db.cold.blocks[n] # NoHash
    <3>1. n <= db.checkpoint
      BY <1>1, <2>1 DEF IInv, ColdContiguous
    <3> QED
      BY <1>1, <1>2, <2>1, <3>1 DEF BlockServed
  <2>2. CASE db.cold.blocks[n] = NoHash
    <3>1. n < StartBlock \/ n > db.checkpoint
      BY <1>1, <2>2 DEF IInv, ColdContiguous
    <3>2. n < StartBlock => db.hot.blocks[n] = NoHash /\ db'.hot.blocks[n] = NoHash
      BY <1>1 DEF FromStart
    <3> QED
      BY <1>1, <1>2, <2>2, <3>1, <3>2 DEF BlockServed
  <2> QED
    BY <2>1, <2>2
<1>6. ASSUME NEW S, S \subseteq R,
             \A n \in Heights : n > db.checkpoint =>
               db'.hot.blocks[n] = IF n \in S THEN NoHash ELSE db.hot.blocks[n]
      PROVE  Served!Dropped(S)
  <2> SUFFICES ASSUME NEW n \in Heights
               PROVE  BlockServed(n)' = IF n \in S THEN NoHash ELSE BlockServed(n)
    BY <1>2 DEF Served!Dropped
  <2>1. n \in S => n > db.checkpoint
    BY <1>4, <1>6
  <2> QED
    BY <1>1, <1>5, <1>6, <2>1
<1>7. CASE HotPrunes
  <2> DEFINE S == {n \in R : n < lstart}
  <2>1. S \subseteq R /\ \A m \in S, n \in R \ S : m < n
    BY <1>1, <1>4, BoundsAssumption DEF Heights
  <2>2. \A n \in Heights : n > db.checkpoint =>
          db'.hot.blocks[n] = IF n \in S THEN NoHash ELSE db.hot.blocks[n]
    BY <1>4, <1>7 DEF HotPrunes, HotPruned
  <2> HIDE DEF S
  <2>3. Served!Forget
    BY <1>6, <2>1, <2>2 DEF Served!Forget
  <2> QED
    BY <2>3 DEF Served!Next
<1>8. CASE HotCuts
  <2> DEFINE S == {n \in R : n >= lcursor}
  <2>1. S \subseteq R /\ \A m \in S, n \in R \ S : n < m
    BY <1>1, <1>4, BoundsAssumption DEF Heights
  <2>2. \A n \in Heights : n > db.checkpoint =>
          db'.hot.blocks[n] = IF n \in S THEN NoHash ELSE db.hot.blocks[n]
    BY <1>4, <1>8 DEF HotCuts, HotCut
  <2> HIDE DEF S
  <2>3. Served!Withdraw
    BY <1>6, <2>1, <2>2 DEF Served!Withdraw
  <2> QED
    BY <2>3 DEF Served!Next
<1>9. CASE HotCommits
  <2> DEFINE p == lpayload
             first == Served!Next1
             a == Larger(p.from, first)
             b == p.upto
  <2>1. /\ p.from \in Nat /\ b \in Heights /\ b \in Nat /\ p.from <= b
        /\ p.indexed_blocks \in [Heights -> HashOrNone]
        /\ \A n \in Heights : db.hot.blocks[n] # NoHash => n < p.from
        /\ \A n \in Heights : db'.hot.blocks[n] =
             IF n \in p.from .. b THEN p.indexed_blocks[n] ELSE db.hot.blocks[n]
        /\ \A n \in Heights : n \in p.from .. b <=> p.indexed_blocks[n] # NoHash
    BY <1>1, <1>9, CommitWrites DEF RangePayload
  <2>2. StartBlock <= p.from /\ b < p.from + BLOCK_BATCH_SIZE
    BY <1>1, <1>9 DEF HotCommits, FromStart, Building
  <2>3. first \in Nat /\ first = IF db.checkpoint < StartBlock THEN StartBlock
                                 ELSE db.checkpoint + 1
    BY <1>1 DEF Served!Next1
  <2> HIDE DEF first
  <2>4. a \in Nat /\ a >= p.from /\ a >= first /\ (a = p.from \/ a = first)
    BY <2>1, <2>3 DEF Larger
  <2>5. a > db.checkpoint
    BY <1>1, <2>3, <2>4
  <2>6. ASSUME NEW n \in Heights, n \notin a .. b
        PROVE  BlockServed(n)' = BlockServed(n)
    <3>1. CASE n <= db.checkpoint
      BY <1>5, <3>1
    <3>2. CASE n > db.checkpoint
      <4>1. n \notin p.from .. b
        BY <1>1, <2>1, <2>2, <2>3, <2>4, <2>6, <3>2
      <4> QED
        BY <1>5, <2>1, <3>2, <4>1
    <3> QED
      BY <1>1, <3>1, <3>2
  <2>7. ASSUME NEW n \in Heights, n \in a .. b
        PROVE  BlockServed(n)' \in Hashes
    <3>1. n \in p.from .. b /\ n > db.checkpoint
      BY <1>1, <2>1, <2>4, <2>5, <2>7
    <3> QED
      BY <1>5, <2>1, <3>1 DEF HashOrNone
  <2>8. ASSUME NEW n \in R
        PROVE  n < a /\ a - 1 \in R
    <3>1. n \in Heights /\ n \in Nat /\ n > db.checkpoint /\ db.hot.blocks[n] # NoHash
      BY <1>1, <1>4, <2>8
    <3>2. p.from = db.liveCheckpoint + 1 /\ n < p.from
      BY <1>1, <1>9, <2>1, <3>1 DEF HotCommits, WindowInv, Building
    <3>3. p.from >= first
      <4>1. /\ db.checkpoint \in Nat /\ StartBlock \in Nat /\ p.from \in Nat /\ n \in Nat
            /\ n > db.checkpoint /\ n < p.from
        BY <1>1, <2>1, <3>1, <3>2
      <4> QED
        BY <2>2, <2>3, <4>1
    <3>4. a = p.from /\ a - 1 = db.liveCheckpoint
      BY <1>1, <2>1, <2>3, <2>4, <3>2, <3>3, BoundsAssumption DEF Heights
    <3>5. n <= db.liveCheckpoint /\ db.liveCheckpoint > db.checkpoint
      BY <1>1, <3>1, <3>2, BoundsAssumption DEF Heights
    <3>6. db.hot.blocks[db.liveCheckpoint] # NoHash
      <4>1. /\ db.liveCheckpoint \in Heights /\ db.liveCheckpoint <= db.liveCheckpoint
            /\ NoHole(db, StartBlock .. db.checkpoint)
        BY <1>1, BoundsAssumption DEF Heights
      <4>2. db.liveCheckpoint \notin StartBlock .. db.checkpoint
        BY <1>1, <3>5
      <4> QED
        BY <3>1, <3>5, <4>1, <4>2 DEF NoHole
    <3> QED
      BY <1>1, <1>4, <3>2, <3>4, <3>5, <3>6
  <2> HIDE DEF a, b
  <2>9. CASE a <= b
    <3>1. a \in Heights
      BY <2>1, <2>4, <2>9, BoundsAssumption DEF Heights
    <3>2. b < a + BLOCK_BATCH_SIZE
      BY <2>1, <2>2, <2>4, EngineAssumption
    <3>3. Served!Written(a .. b)
      BY <2>6, <2>7 DEF Served!Written
    <3>4. Served!Advance
      BY <1>2, <2>1, <2>4, <2>8, <2>9, <3>1, <3>2, <3>3 DEF first, Served!Advance
    <3> QED
      BY <3>4 DEF Served!Next
  <2>10. CASE ~(a <= b)
    BY <1>2, <2>1, <2>4, <2>6, <2>10
  <2> QED
    BY <2>9, <2>10
<1> QED
  BY <1>3, <1>7, <1>8, <1>9

\* Only the two workers' COMMITs are visible.
LEMMA ServedStep ==
  ASSUME VInv, StartBlock >= 1, ConfirmationDepth >= ReorgDepth,
         [IndexerTxNext]_indexerTxVars
  PROVE  [Served!Next]_<<db.checkpoint, [n \in Heights |-> BlockServed(n)]>>
<1>1. VInv'
  BY ServedInvStep
<1>2. CASE BackfillCommits /\ UNCHANGED <<chainVars, lvars>>
  BY <1>1, <1>2, CommitFinalizes DEF Served!Next
<1>3. CASE (LiveCommitsPrune \/ LiveCommits) /\ UNCHANGED <<chainVars, bvars>>
  BY <1>1, <1>3, LiveCommitMoves
<1>4. CASE UNCHANGED db
  BY <1>4 DEF BlockServed
<1>5. CASE LiveReads /\ UNCHANGED <<chainVars, bvars, tx>>
  BY <1>4, <1>5, ShapeReads DEF VInv, SInv, DInv
<1> QED
  BY <1>2, <1>3, <1>4, <1>5
     DEF IndexerTxNext, BackfillTxLoop, LiveTxLoop, BackfillReads, ReadLatest, ReconcileMatch,
         ReconcileMismatch, Plan, Fetch, FetchLogs, Validate, BackfillStatement, LiveStatement,
         ExitDropsTransactions, ExitNotFound, ExitErr, IndexerRestart, indexerTxVars, indexerVars

\* To a reader of both lanes, the two workers with their overlapping transactions,
\* crashes and restarts are a chain that finalizes batches in order, never takes a final
\* block back, and has one run of recent blocks above them.
THEOREM IndexerTxImplementsServed ==
  ASSUME StartBlock >= 1, ConfirmationDepth >= ReorgDepth
  PROVE  IndexerTxSpec => ImplementsServed
<1>1. IndexerTxInit => VInv
  BY SettledStarts, FromStartStarts DEF VInv, IndexerTxInit, IndexerInit
<1>2. VInv /\ [IndexerTxNext]_indexerTxVars => VInv'
  BY ServedInvStep
<1>3. IndexerTxInit => Served!Init
  BY DEF IndexerTxInit, IndexerInit, MigratedDatabase, EmptyLane, NoBlocks, BlockServed,
         Served!Init
<1>4. VInv /\ [IndexerTxNext]_indexerTxVars =>
        [Served!Next]_<<db.checkpoint, [n \in Heights |-> BlockServed(n)]>>
  BY ServedStep
<1> QED
  BY <1>1, <1>2, <1>3, <1>4, PTL DEF IndexerTxSpec, ImplementsServed, Served!Spec
=============================================================================
