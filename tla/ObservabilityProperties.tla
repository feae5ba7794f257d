---------------------- MODULE ObservabilityProperties ----------------------
(***************************************************************************)
(* What the metrics of the backfill worker say about the database.         *)
(***************************************************************************)
EXTENDS Observability

Counting == bpc # "down" /\ untold # Resuming

\* indexer_checkpoint_block, "Latest persisted checkpoint per worker.", is behind the
\* persisted checkpoint only between a COMMIT and record_batch_success, and ahead of
\* it only in a process that has counted a rollback: record_rollback leaves it alone.
GaugeExplained ==
  Counting =>
    /\ metrics.finalized_checkpoint < db.checkpoint
         => untold.what = "batch" /\ untold.checkpoint = db.checkpoint
    /\ metrics.finalized_checkpoint > db.checkpoint => metrics.rollbacks > 0

\* A gauge left ahead by a rollback does not stay so: once the errors stop, it names
\* the persisted checkpoint, unless it is above the safe head, where no batch is due.
GaugeCatchesUp ==
  <>[][~ObservedErrs /\ ~RpcExhausted]_observabilityVars
    => <>[](metrics.finalized_checkpoint <= safe_head(chain.head)
              => metrics.finalized_checkpoint = db.checkpoint)

\* Every block the cold lane holds was found at the start or counted as successful, and
\* no other unless a rollback was counted; a recovery is counted exactly when the
\* process found blocks (record_batch_success, record_checkpoint_resume).
SuccessesAddUp ==
  Counting =>
    /\ BlocksStored <= history.found + metrics.successful_blocks + untold.blocks
    /\ metrics.rollbacks = 0
         => BlocksStored = history.found + metrics.successful_blocks + untold.blocks
    /\ metrics.checkpoint_recoveries = 1 <=> history.found > 0

\* However the attempts of the requests in flight interleave, the call that ends the
\* worker has failed RPC_MAX_RETRIES + 1 times itself, no fewer and no more: what other
\* calls failed, beside it or before it, does not count (with_retry counts per call).
CallsGetTheirRetries == calls.given_up \in {0, max_retries + 1}

\* The rolling total is what was recorded in the last window_secs seconds, in at most
\* one bucket each, over the seconds of it since the first batch.  prune stops at the
\* first recent bucket: after the clock was set back old buckets outlive the window and
\* recent ones are gone, until a window has passed since the second it was set back from.
WindowExact ==
  LET now == prune(throughput, clock)
      window == saturating_sub(clock, window_secs - 1) .. clock
      busy == {s \in Seconds : history.recorded[s] > 0} IN
  history.set_back = 0 \/ clock >= history.set_back + window_secs =>
    /\ total_blocks(now) = SumFunctionOnSet(history.recorded, window)
    /\ Len(now.buckets) <= window_secs
    /\ busy # {} =>
         denominator(now, clock) = Cardinality({s \in window : s >= Min(busy)})
=============================================================================
