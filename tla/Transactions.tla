---------------------------- MODULE Transactions ----------------------------
(***************************************************************************)
(* The statements of the workers' transactions, as PostgreSQL runs them at *)
(* its default level READ COMMITTED: one at a time, each on the rows that  *)
(* are committed when it starts.  A statement waits while a row it would   *)
(* change is locked by the other worker's transaction; it does not see     *)
(* what that one has inserted.                                             *)
(*                                                                         *)
(* Only the hot tables and the live checkpoint are written by both         *)
(* workers.  Statements on the cold tables have no effect before COMMIT    *)
(* and meet no other writer: they are part of the COMMIT.                  *)
(*                                                                         *)
(* A statement takes all its row locks at once.                            *)
(***************************************************************************)
EXTENDS Storage, Sequences

Workers == {"backfill", "live"}

VARIABLE tx  \* each worker's open transaction

\* step: statements done; gone: hot rows deleted; new: hot rows written;
\* checkpoint: the row of live_indexer_checkpoint is updated.
Transaction == [step : 0 .. 3, gone : Lane, new : Lane, checkpoint : BOOLEAN]
NoTransaction == [step |-> 0, gone |-> EmptyLane, new |-> EmptyLane, checkpoint |-> FALSE]

Other(w) == CHOOSE v \in Workers : v # w

-----------------------------------------------------------------------------
(* The statements. *)

\* Mutant: the rows of the first block stay (> for >=).
DeleteFromHot_KeepsFirst(heights) ==
  <<[op |-> "delete_transfers", on |-> {n \in heights : n > 0 /\ n - 1 \in heights}],
    [op |-> "delete_blocks", on |-> heights]>>

DeleteFromHot(heights) ==
  <<[op |-> "delete_transfers", on |-> heights], [op |-> "delete_blocks", on |-> heights]>>

\* Of a mutant: blocks before transfers.
DeleteBlocksFirst(heights) ==
  <<[op |-> "delete_blocks", on |-> heights], [op |-> "delete_transfers", on |-> heights]>>

InsertIntoHot(records, indexed_blocks) ==
  <<[op |-> "insert_transfers", rows |-> records],
    [op |-> "insert_blocks", rows |-> indexed_blocks]>>

UpdateLiveCheckpoint == <<[op |-> "update_checkpoint"]>>

\* Statement s of worker w has to wait for the other's transaction.
Waits(w, s) ==
  LET o == tx[Other(w)] IN
  CASE s.op = "delete_transfers"  -> \E n \in s.on \cap Heights : o.gone.transfers[n] # {}
    [] s.op = "delete_blocks"     -> \E n \in s.on \cap Heights :
                                       \/ o.gone.blocks[n] # NoHash
                                       \/ o.new.blocks[n] # NoHash /\ db.hot.blocks[n] # NoHash
    [] s.op = "insert_transfers"  -> \E n \in Heights : \E r \in s.rows[n] :
                                       \E q \in o.gone.transfers[n] : q.key = r.key
    [] s.op = "insert_blocks"     -> \E n \in Heights :
                                       s.rows[n] # NoHash /\ o.gone.blocks[n] # NoHash
    [] s.op = "update_checkpoint" -> o.checkpoint

\* What statement s adds to transaction t.
Effect(t, s) ==
  CASE s.op = "delete_transfers"  ->
         [t EXCEPT !.gone.transfers =
           [n \in Heights |-> IF n \in s.on THEN db.hot.transfers[n] ELSE {}]]
    [] s.op = "delete_blocks"     ->
         [t EXCEPT !.gone.blocks =
           [n \in Heights |-> IF n \in s.on THEN db.hot.blocks[n] ELSE NoHash]]
    [] s.op = "insert_transfers"  ->
         [t EXCEPT !.new.transfers =
           [n \in Heights |->
             insert_transfers_into_tx(db.hot, s.rows).transfers[n] \ db.hot.transfers[n]]]
    [] s.op = "insert_blocks"     -> [t EXCEPT !.new.blocks = s.rows]
    [] s.op = "update_checkpoint" -> [t EXCEPT !.checkpoint = TRUE]

After(t, s) == [Effect(t, s) EXCEPT !.step = t.step + 1]

\* Worker w runs the next of its statements.
Execute(w, statements) ==
  /\ tx[w].step < Len(statements)
  /\ ~Waits(w, statements[tx[w].step + 1])
  /\ tx' = [tx EXCEPT ![w] = After(tx[w], statements[tx[w].step + 1])]

Blocked(w, statements) ==
  tx[w].step < Len(statements) /\ Waits(w, statements[tx[w].step + 1])

\* COMMIT: database d, in which a transaction has its effect as a single step, with
\* the hot rows that the statements of worker w found and wrote instead.
CommitOf(w, d) ==
  LET t == tx[w] IN
  [d EXCEPT !.hot =
    [blocks    |-> [n \in Heights |->
       IF t.new.blocks[n] # NoHash THEN t.new.blocks[n]
       ELSE IF t.gone.blocks[n] # NoHash THEN NoHash ELSE db.hot.blocks[n]],
     transfers |-> [n \in Heights |->
       (db.hot.transfers[n] \ t.gone.transfers[n]) \cup t.new.transfers[n]]]]
=============================================================================
