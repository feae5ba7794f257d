--------------------------- MODULE Observability ---------------------------
(***************************************************************************)
(* The backfill worker with what it tells crates/observability and with    *)
(* the attempts of RpcClient::with_retry: IndexerMetrics counts from the   *)
(* start of the process, and a new process starts from zero.               *)
(*                                                                         *)
(* A record_* call that follows an await is a step of its own: between the *)
(* COMMIT and record_batch_success the rows are there and the metrics do   *)
(* not say so, and the process may die there.  record_rollback precedes    *)
(* the transaction and belongs to the step that decides on it.             *)
(*                                                                         *)
(* failed_blocks, lags, delays and duplicates are left out: the first is   *)
(* only ever counted on the way out of the process.                        *)
(***************************************************************************)
EXTENDS Backfill, RollingThroughput

CONSTANTS
  max_retries,  \* RPC_MAX_RETRIES
  MaxFailures,  \* bound: failed attempts of one process
  MaxClock      \* bound: seconds the system clock can show

ASSUME ObservabilityAssumption ==
  /\ max_retries \in Nat
  /\ MaxFailures \in Nat
  /\ MaxClock \in Nat

VARIABLES
  metrics,     \* IndexerMetrics, finalized lane
  throughput,  \* its RollingThroughput
  untold,      \* what the worker has done and has still to record
  attempts,    \* failed attempts of the request in flight for each block
  clock,       \* the system clock, in seconds
  history,     \* history: of this process, for the properties
  calls        \* history: what each call in flight failed, and the call given up

observers == <<metrics, throughput, untold, attempts>>
observabilityVars == <<backfillVars, observers, clock, history, calls>>

Seconds == 0 .. MaxClock

NewMetrics ==
  [successful_blocks |-> 0, reorg_events |-> 0, rollbacks |-> 0, rpc_failures |-> 0,
   rpc_retries |-> 0, checkpoint_recoveries |-> 0, finalized_checkpoint |-> 0]

Nothing == [what |-> "nothing", blocks |-> 0, checkpoint |-> 0]
Resuming == [Nothing EXCEPT !.what = "resume"]

NoAttempts == [n \in Heights |-> 0]

\* What the process found stored, the blocks recorded in each second, and the highest
\* second the clock was set back from (0: it was not).
NewHistory == [found |-> 0, recorded |-> [s \in Seconds |-> 0], set_back |-> 0]

\* The failures of the call in flight for each block, counted call by call, and those
\* of the call that ended the worker (0: none did).
NoCalls == [failed |-> NoAttempts, given_up |-> 0]

BlocksStored == Cardinality({n \in Heights : db.cold.blocks[n] # NoHash})

ObservabilityTypeOK ==
  /\ BackfillTypeOK
  /\ metrics \in [DOMAIN NewMetrics -> Nat]
  /\ throughput.started_at_sec \subseteq Seconds
  /\ throughput.buckets \in Seq(Bucket)
  /\ untold \in [what : {"nothing", "resume", "batch"}, blocks : Nat, checkpoint : Heights]
  /\ attempts \in [Heights -> 0 .. max_retries]
  /\ \A n \in Heights \ InFlight(bpayload) : bpc = "fetch" => attempts[n] = 0
  /\ clock \in Seconds

NewProcess ==
  /\ metrics' = NewMetrics
  /\ throughput' = NewThroughput
  /\ untold' = Resuming
  /\ attempts' = NoAttempts
  /\ history' = NewHistory
  /\ calls' = NoCalls

ObservabilityInit ==
  /\ BackfillInit
  /\ metrics = NewMetrics
  /\ throughput = NewThroughput
  /\ untold = Resuming
  /\ attempts = NoAttempts
  /\ clock = 0
  /\ history = NewHistory
  /\ calls = NoCalls

-----------------------------------------------------------------------------
(* RpcClient::with_retry *)

\* The requests in flight; one that is not for a block has the place of block 0.
RequestsInFlight ==
  IF untold # Nothing THEN {}
  ELSE IF bpc \in {"latest", "logs"} THEN {0} ELSE BackfillRequests

\* An attempt fails and another follows.
RpcRetry ==
  /\ metrics.rpc_failures < MaxFailures
  /\ \E n \in RequestsInFlight :
       /\ attempts[n] + 1 <= max_retries
       /\ attempts' = [attempts EXCEPT ![n] = attempts[n] + 1]
       /\ calls' = [calls EXCEPT !.failed[n] = @ + 1]
  /\ metrics' = [metrics EXCEPT !.rpc_failures = metrics.rpc_failures + 1,
                                !.rpc_retries = metrics.rpc_retries + 1]
  /\ UNCHANGED <<db, bvars, throughput, untold, history>>

\* The last attempt fails: the error ends the worker, and requests beside it are dropped.
\* (.buffered hands it over only after the answers before it; here it ends at once.)
RpcExhausted ==
  /\ metrics.rpc_failures < MaxFailures
  /\ \E n \in RequestsInFlight :
       /\ attempts[n] + 1 > max_retries
       /\ calls' = [failed |-> NoAttempts, given_up |-> calls.failed[n] + 1]
  /\ metrics' = [metrics EXCEPT !.rpc_failures = metrics.rpc_failures + 1]
  /\ BackfillGoTo("down")
  /\ attempts' = NoAttempts
  /\ UNCHANGED <<db, throughput, untold, history>>

\* Mutant: what one request failed counts against the next.
CallsAnswered_Shared == UNCHANGED attempts

\* A step of the worker ends the calls it was waiting for; others stay in flight.
StillInFlight(n) == bpc = "fetch" /\ bpc' = "fetch" /\ n \in InFlight(bpayload')

CallsAnswered ==
  attempts' = [n \in Heights |-> IF StillInFlight(n) THEN attempts[n] ELSE 0]

CallsEnd ==
  calls' = [calls EXCEPT !.failed =
              [n \in Heights |-> IF StillInFlight(n) THEN calls.failed[n] ELSE 0]]

-----------------------------------------------------------------------------
(* What the worker records. *)

\* Mutant: the gauge is left for the first batch to set.
resumed_metrics_NoGauge ==
  [metrics EXCEPT !.checkpoint_recoveries =
     IF db.checkpoint > 0 /\ db.checkpoint >= StartBlock THEN 1 ELSE 0]

resumed_metrics ==
  [metrics EXCEPT
    !.finalized_checkpoint = db.checkpoint,
    !.checkpoint_recoveries =
      IF db.checkpoint > 0 /\ db.checkpoint >= StartBlock THEN 1 ELSE 0]

record_checkpoint_resume ==
  /\ bpc # "down"
  /\ untold = Resuming
  /\ metrics' = resumed_metrics
  /\ untold' = Nothing
  /\ history' = [history EXCEPT !.found = BlocksStored]
  /\ UNCHANGED <<db, bvars, throughput, attempts, calls>>

\* Mutant: the gauge moves only when the process resumes.
batch_metrics_NoGauge ==
  [metrics EXCEPT !.successful_blocks = metrics.successful_blocks + untold.blocks]

batch_metrics ==
  [metrics EXCEPT
    !.successful_blocks = metrics.successful_blocks + untold.blocks,
    !.finalized_checkpoint = untold.checkpoint]

record_batch_success ==
  /\ bpc # "down"
  /\ untold.what = "batch"
  /\ metrics' = batch_metrics
  /\ throughput' = record(throughput, clock, untold.blocks)
  /\ history' = [history EXCEPT !.recorded[clock] = @ + untold.blocks]
  /\ untold' = Nothing
  /\ UNCHANGED <<db, bvars, attempts, calls>>

\* record_reorg_detected and record_rollback, before rollback_from_block is called.
\* Neither touches the checkpoint.
ObservedDecision ==
  /\ untold = Nothing
  /\ ReconcileMismatch \/ Validate
  /\ metrics' =
       IF bpc' = "rollback"
       THEN [metrics EXCEPT !.reorg_events = metrics.reorg_events + 1,
                            !.rollbacks = metrics.rollbacks + 1]
       ELSE metrics
  /\ CallsAnswered
  /\ CallsEnd
  /\ UNCHANGED <<throughput, untold, history>>

\* Mutant: every batch counts as a full one.
batch_blocks_Full(p) == BLOCK_BATCH_SIZE

\* indexed_blocks.len()
batch_blocks(p) == p.upto - p.from + 1

ObservedCommit ==
  /\ untold = Nothing
  /\ Commit
  /\ untold' = [what |-> "batch", blocks |-> batch_blocks(bpayload), checkpoint |-> bpayload.upto]
  /\ UNCHANGED <<metrics, throughput, attempts, history, calls>>

ObservedQuiet ==
  /\ untold = Nothing
  /\ ReadLatest \/ ReconcileMatch \/ Rollback \/ Plan \/ Fetch \/ FetchLogs
  /\ CallsAnswered
  /\ CallsEnd
  /\ UNCHANGED <<metrics, throughput, untold, history>>

ObservedNotFound ==
  /\ BackfillNotFound
  /\ attempts' = NoAttempts
  /\ calls' = [calls EXCEPT !.failed = NoAttempts]
  /\ UNCHANGED <<metrics, throughput, untold, history>>

ObservedErrs ==
  /\ BackfillErrs
  /\ attempts' = NoAttempts
  /\ calls' = [calls EXCEPT !.failed = NoAttempts]
  /\ UNCHANGED <<metrics, throughput, untold, history>>

ObservedRestart == BackfillRestart /\ NewProcess

\* The snapshot logger's tick; /metrics shows what the last batch computed.
Snapshot ==
  /\ bpc # "down"
  /\ throughput' = prune(throughput, clock)
  /\ UNCHANGED <<backfillVars, metrics, untold, attempts, clock, history, calls>>

-----------------------------------------------------------------------------

Tick ==
  /\ clock < MaxClock
  /\ clock' = clock + 1
  /\ UNCHANGED <<backfillVars, observers, history, calls>>

\* The clock is set back.
SetBack ==
  /\ clock' \in 0 .. clock - 1
  /\ history' = [history EXCEPT !.set_back = Larger(@, clock)]
  /\ UNCHANGED <<backfillVars, observers, calls>>

ObservedStep ==
  /\ \/ record_checkpoint_resume
     \/ record_batch_success
     \/ ObservedDecision
     \/ ObservedCommit
     \/ ObservedQuiet
     \/ ObservedNotFound
     \/ ObservedRestart
  /\ UNCHANGED <<chainVars, clock>>

ObservedFailure ==
  (RpcRetry \/ RpcExhausted \/ ObservedErrs) /\ UNCHANGED <<chainVars, clock>>

ObservabilityNext ==
  \/ ObservedStep
  \/ ObservedFailure
  \/ Snapshot
  \/ Tick
  \/ SetBack
  \/ ChainNext /\ UNCHANGED <<db, bvars, observers, clock, history, calls>>

\* The runtime polls the worker's task, every await returns, a supervisor restarts the
\* process: as BackfillFairSpec.
ObservabilitySpec ==
  /\ ObservabilityInit
  /\ [][ObservabilityNext]_observabilityVars
  /\ WF_observabilityVars(ObservedStep)
=============================================================================
