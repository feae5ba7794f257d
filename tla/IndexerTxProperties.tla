------------------------- MODULE IndexerTxProperties -------------------------
(***************************************************************************)
(* What the interleaving of statements leaves of the two workers'          *)
(* guarantees.                                                             *)
(***************************************************************************)
EXTENDS IndexerTx, IndexerProperties

\* The transactions of the two workers never wait for each other: every one of them
\* goes through transfers, blocks and checkpoint in this order.
NoLockCycle ==
  ~(Blocked("backfill", backfill_statements) /\ Blocked("live", live_statements))

\* README, Rollback support: "Removes invalid data from the first bad block onward and
\* rebuilds from canonical chain state."  A hot transfer row is not kept under the
\* block that has replaced its own, by the live worker's rollback and commits beside the
\* backfill worker's deletes.  A reorganization deeper than CONFIRMATION_DEPTH breaks this:
\* what rollback_from_block misses, because it is inserted but not committed, DO NOTHING
\* keeps.
NoRowOfReplacedBlock ==
  \A n \in Heights : \A r \in db.hot.transfers[n] :
    db.hot.blocks[n] \in {NoHash, r.block_hash}

-----------------------------------------------------------------------------
(* With a chain that reorganizes deeper than CONFIRMATION_DEPTH.           *)

\* Once the errors stop, the cold lane holds every block up to the safe head as the
\* chain has it, those included that a finalized rollback in the middle of a live
\* commit has left in neither lane (the live checkpoint is above them, so that the live
\* worker does not go back), and the live worker has come to the head.
\* While the head is below the checkpoint the process can only restart and fail again;
\* while it is below the live checkpoint the live worker waits.
LanesConverge ==
  <>[][~ExitErr]_indexerTxVars =>
    <>[](db.checkpoint <= chain.head =>
           /\ C!ColdCaughtUp
           /\ db.liveCheckpoint <= chain.head => db.liveCheckpoint = chain.head)
=============================================================================
