------------------------ MODULE ObservabilityProofs ------------------------
(***************************************************************************)
(* Theorems about the backfill worker, what it records and the attempts of *)
(* its requests, for every block tree, depth of reorganization and         *)
(* configuration with START_BLOCK at least 1.                              *)
(*                                                                         *)
(* With its metrics the worker does nothing that it does not do without    *)
(* them, so that IInv is its invariant still.  AInv, inductive given IInv  *)
(* and the types (TInv), compares the checkpoint with what is recorded and *)
(* what is committed and has still to be recorded.  CallsInv says that     *)
(* what with_retry counts for a call is what that call has failed.         *)
(*                                                                         *)
(* WInv, inductive given the types, relates the buckets of the rolling     *)
(* throughput to what was recorded in each second since the clock was set  *)
(* back.  That the total is exact compares two folds, over buckets and     *)
(* over seconds: each is the number of units of blocks that it counts      *)
(* (SumIsUnits), and the units of one are in bijection with the other's.   *)
(***************************************************************************)
EXTENDS ObservabilityProperties, BackfillProofs, FiniteSetTheorems

-----------------------------------------------------------------------------
(* The worker under observation is the worker.                             *)

\* Every step of the observed process is one of the worker or of the chain, or leaves both
\* alone: a request given up is an error of the worker, or one that would have been NotFound.
LEMMA ObservedSteps ==
  ASSUME [ObservabilityNext]_observabilityVars
  PROVE  [BackfillNext]_backfillVars
<1>1. CASE ObservedStep \/ ((RpcRetry \/ ObservedErrs) /\ UNCHANGED <<chainVars, clock>>)
  BY <1>1
     DEF ObservedStep, record_checkpoint_resume, record_batch_success, ObservedDecision,
         ObservedCommit, ObservedQuiet, ObservedNotFound, ObservedRestart, RpcRetry,
         ObservedErrs, BackfillNext, BackfillStep, BackfillLoop, backfillVars
<1>2. CASE RpcExhausted /\ UNCHANGED <<chainVars, clock>>
  <2>1. bpc # "down"
    BY <1>2 DEF RpcExhausted, RequestsInFlight, BackfillRequests
  <2>2. BackfillGoTo("down") /\ UNCHANGED db
    BY <1>2 DEF RpcExhausted
  <2> QED
    BY <1>2, <2>1, <2>2 DEF BackfillNext, BackfillStep, BackfillNotFound, BackfillErrs
<1>3. CASE Snapshot \/ Tick \/ SetBack
  BY <1>3 DEF Snapshot, Tick, SetBack
<1>4. CASE ChainNext /\ UNCHANGED <<db, bvars, observers, clock, history, calls>>
  BY <1>4 DEF BackfillNext
<1>5. CASE UNCHANGED observabilityVars
  BY <1>5 DEF observabilityVars
<1> QED
  BY <1>1, <1>2, <1>3, <1>4, <1>5 DEF ObservabilityNext, ObservedFailure

\* Retries and metrics change nothing of what the worker does.
THEOREM ObservedIsBackfill == ObservabilitySpec => BackfillSpec
<1>1. ObservabilityInit => BackfillInit
  BY DEF ObservabilityInit
<1>2. [ObservabilityNext]_observabilityVars => [BackfillNext]_backfillVars
  BY ObservedSteps
<1> QED
  BY <1>1, <1>2, PTL DEF ObservabilitySpec, BackfillSpec

-----------------------------------------------------------------------------
(* Types.                                                                  *)

Metrics == [DOMAIN NewMetrics -> Nat]

Throughput == [started_at_sec : SUBSET Seconds, buckets : Seq(Bucket)]

Untold == [what : {"nothing", "resume", "batch"}, blocks : Nat, checkpoint : Heights]

\* The metrics by their names.
LEMMA MetricNames ==
  /\ DOMAIN NewMetrics =
       {"successful_blocks", "reorg_events", "rollbacks", "rpc_failures", "rpc_retries",
        "checkpoint_recoveries", "finalized_checkpoint"}
  /\ NewMetrics \in Metrics
BY DEF NewMetrics, Metrics

\* A set of counts that has an element has a least one.
LEMMA MinOf ==
  ASSUME NEW T, T \subseteq Nat, T # {}
  PROVE  Min(T) \in T /\ \A n \in T : Min(T) <= n
BY LeastOf DEF Min

\* Buckets leave from the front.
LEMMA PruneTyped ==
  ASSUME NEW t \in Throughput, NEW now
  PROVE  prune(t, now) \in Throughput
<1> DEFINE b == t.buckets
           recent == {i \in 1 .. Len(b) : b[i].second >= oldest_second(now)}
           T == recent \cup {Len(b) + 1}
           c == SubSeq(b, Min(T), Len(b))
<1>1. b \in Seq(Bucket) /\ Len(b) \in Nat
  BY DEF Throughput
<1>2. T \subseteq Nat /\ T # {} /\ \A i \in T : i >= 1
  BY <1>1
<1>3. Min(T) \in T
  <2> HIDE DEF T
  <2> QED
    BY <1>2, MinOf
<1>4. Min(T) \in Nat /\ Min(T) >= 1
  BY <1>2, <1>3
<1> HIDE DEF T
<1>5. c \in Seq(Bucket)
  BY <1>1, <1>4
<1>6. prune(t, now) = [t EXCEPT !.buckets = c]
  BY DEF prune, T
<1> HIDE DEF c
<1> QED
  BY <1>5, <1>6 DEF Throughput

\* A batch is added to the last bucket or to a new one.
LEMMA RecordTyped ==
  ASSUME NEW t \in Throughput, NEW now \in Seconds, NEW blocks \in Nat
  PROVE  record(t, now, blocks) \in Throughput
<1> DEFINE b == t.buckets
           n == Len(b)
           added ==
             IF n > 0 /\ b[n].second = now
             THEN [b EXCEPT ![n].blocks = b[n].blocks + blocks]
             ELSE Append(b, [second |-> now, blocks |-> blocks])
           started == IF t.started_at_sec = {} THEN {now} ELSE t.started_at_sec
<1>1. b \in Seq(Bucket) /\ n \in Nat /\ now \in Nat
  BY ObservabilityAssumption DEF Throughput, Seconds
<1>2. added \in Seq(Bucket)
  <2>1. CASE n > 0 /\ b[n].second = now
    <3>1. b[n] \in Bucket
      BY <1>1, <2>1
    <3>2. [b[n] EXCEPT !.blocks = b[n].blocks + blocks] \in Bucket
      BY <3>1 DEF Bucket
    <3> QED
      BY <1>1, <2>1, <3>2
  <2>2. CASE ~(n > 0 /\ b[n].second = now)
    <3>1. [second |-> now, blocks |-> blocks] \in Bucket
      BY <1>1 DEF Bucket
    <3> QED
      BY <1>1, <2>2, <3>1
  <2> QED
    BY <2>1, <2>2
<1>3. started \in SUBSET Seconds
  BY DEF Throughput
<1>4. record(t, now, blocks) = prune([started_at_sec |-> started, buckets |-> added], now)
  BY DEF record
<1> HIDE DEF added, started
<1>5. [started_at_sec |-> started, buckets |-> added] \in Throughput
  BY <1>2, <1>3 DEF Throughput
<1> QED
  BY <1>4, <1>5, PruneTyped

\* No request has failed more often than it may and not have ended the process; one that
\* is not in flight has not failed.
AttemptsInv ==
  /\ attempts \in [Heights -> 0 .. max_retries]
  /\ \A n \in Heights \ InFlight(bpayload) : bpc = "fetch" => attempts[n] = 0

TInv ==
  /\ metrics \in Metrics
  /\ throughput \in Throughput
  /\ untold \in Untold
  /\ AttemptsInv
  /\ clock \in Seconds
  /\ history = [found |-> history.found, recorded |-> history.recorded,
                set_back |-> history.set_back]

\* Counters only count; each changes alone.
LEMMA MetricsChange ==
  ASSUME NEW m \in Metrics, NEW x \in Nat, NEW y \in Nat
  PROVE  /\ \A f \in DOMAIN NewMetrics : m[f] \in Nat
         /\ [m EXCEPT !.rpc_failures = x, !.rpc_retries = y] \in Metrics
         /\ [m EXCEPT !.rpc_failures = x] \in Metrics
         /\ [m EXCEPT !.finalized_checkpoint = x, !.checkpoint_recoveries = y] \in Metrics
         /\ [m EXCEPT !.successful_blocks = x, !.finalized_checkpoint = y] \in Metrics
         /\ [m EXCEPT !.reorg_events = x, !.rollbacks = y] \in Metrics
BY DEF Metrics

\* A process without failed attempts.
LEMMA NoAttemptsInv ==
  ASSUME attempts' = NoAttempts
  PROVE  AttemptsInv'
<1>1. \A n \in Heights : attempts'[n] = 0
  BY DEF NoAttempts
<1>2. attempts' \in [Heights -> 0 .. max_retries]
  BY ObservabilityAssumption DEF NoAttempts
<1> QED
  BY <1>1, <1>2 DEF AttemptsInv

\* The calls that are answered are forgotten, the others stay in flight.
LEMMA AnsweredInv ==
  ASSUME AttemptsInv, CallsAnswered
  PROVE  AttemptsInv'
<1>1. \A n \in Heights :
        attempts'[n] = IF bpc = "fetch" /\ bpc' = "fetch" /\ n \in InFlight(bpayload')
                       THEN attempts[n] ELSE 0
  BY DEF CallsAnswered, StillInFlight
<1>2. attempts' \in [Heights -> 0 .. max_retries]
  BY ObservabilityAssumption DEF CallsAnswered, AttemptsInv
<1> QED
  BY <1>1, <1>2 DEF AttemptsInv

\* The worker goes on to the same requests, or to none.
LEMMA SameAttempts ==
  ASSUME AttemptsInv, UNCHANGED attempts, UNCHANGED bvars \/ bpc' # "fetch"
  PROVE  AttemptsInv'
BY DEF AttemptsInv, bvars

\* A new process.
LEMMA NewProcessTyped ==
  ASSUME NewProcess, UNCHANGED clock, clock \in Seconds
  PROVE  TInv'
<1>1. metrics' \in Metrics
  BY MetricNames DEF NewProcess
<1>2. AttemptsInv'
  BY NoAttemptsInv DEF NewProcess
<1>3. throughput' \in Throughput
  BY DEF NewProcess, NewThroughput, Throughput
<1>4. untold' \in Untold
  BY BoundsAssumption DEF NewProcess, Resuming, Nothing, Untold, Heights
<1>5. history' = [found |-> history'.found, recorded |-> history'.recorded,
                  set_back |-> history'.set_back]
  BY DEF NewProcess, NewHistory
<1> QED
  BY <1>1, <1>2, <1>3, <1>4, <1>5 DEF TInv

\* What the process holds at the start.
LEMMA ObservedStarts == ObservabilityInit => TInv
<1> SUFFICES ASSUME ObservabilityInit PROVE TInv
  OBVIOUS
<1>1. metrics \in Metrics
  BY MetricNames DEF ObservabilityInit
<1>2. AttemptsInv
  <2>1. attempts \in [Heights -> 0 .. max_retries] /\ \A n \in Heights : attempts[n] = 0
    BY ObservabilityAssumption DEF ObservabilityInit, NoAttempts
  <2> QED
    BY <2>1 DEF AttemptsInv
<1>3. throughput \in Throughput
  BY DEF ObservabilityInit, NewThroughput, Throughput
<1>4. untold \in Untold
  BY BoundsAssumption DEF ObservabilityInit, Resuming, Nothing, Untold, Heights
<1>5. history = [found |-> history.found, recorded |-> history.recorded,
                 set_back |-> history.set_back]
  BY DEF ObservabilityInit, NewHistory
<1>6. clock \in Seconds
  BY ObservabilityAssumption DEF ObservabilityInit, Seconds
<1> QED
  BY <1>1, <1>2, <1>3, <1>4, <1>5, <1>6 DEF TInv

\* An attempt fails: the request has failed once more.
LEMMA RetryTyped ==
  ASSUME TInv, RpcRetry, UNCHANGED clock
  PROVE  TInv'
<1>1. /\ metrics \in Metrics /\ AttemptsInv /\ metrics.rpc_failures \in Nat
      /\ metrics.rpc_retries \in Nat
  BY MetricNames DEF TInv, Metrics
<1>2. metrics' \in Metrics
  <2> DEFINE x == metrics.rpc_failures + 1
             y == metrics.rpc_retries + 1
  <2>1. metrics' = [metrics EXCEPT !.rpc_failures = x, !.rpc_retries = y]
    BY DEF RpcRetry
  <2>2. x \in Nat /\ y \in Nat
    BY <1>1
  <2> HIDE DEF x, y
  <2> QED
    BY <1>1, <2>1, <2>2, MetricsChange, MetricNames DEF Metrics
<1>3. PICK n \in RequestsInFlight :
        /\ attempts[n] + 1 <= max_retries
        /\ attempts' = [attempts EXCEPT ![n] = attempts[n] + 1]
  BY DEF RpcRetry
<1>4. AttemptsInv'
  <2>1. bpc = "fetch" => n \in InFlight(bpayload)
    BY <1>3 DEF RequestsInFlight, BackfillRequests
  <2>2. \A m \in Heights : attempts[m] \in 0 .. max_retries
    BY <1>1 DEF AttemptsInv
  <2>3. \A m \in Heights : attempts'[m] = IF m = n THEN attempts[m] + 1 ELSE attempts[m]
    BY <1>1, <1>3 DEF AttemptsInv
  <2>4. attempts' \in [Heights -> 0 .. max_retries]
    <3>1. \A m \in Heights : attempts'[m] \in 0 .. max_retries
      BY <1>3, <2>2, <2>3, ObservabilityAssumption
    <3>2. attempts' = [m \in Heights |-> attempts'[m]]
      BY <1>1, <1>3 DEF AttemptsInv
    <3> QED
      BY <3>1, <3>2
  <2>5. UNCHANGED <<bpc, bpayload>>
    BY DEF RpcRetry, bvars
  <2> QED
    BY <1>1, <1>2, <2>1, <2>2, <2>3, <2>4, <2>5 DEF AttemptsInv
<1> QED
  BY <1>2, <1>4 DEF TInv, RpcRetry

\* The worker records that it resumes, or a batch.
LEMMA RecordsTyped ==
  ASSUME IInv, TInv, record_checkpoint_resume \/ record_batch_success, UNCHANGED clock
  PROVE  TInv'
<1>1. /\ metrics \in Metrics /\ \A f \in DOMAIN NewMetrics : metrics[f] \in Nat
      /\ db.checkpoint \in Heights /\ db.checkpoint \in Nat
      /\ untold \in Untold /\ untold.blocks \in Nat /\ untold.checkpoint \in Nat
  BY BoundsAssumption DEF TInv, Metrics, IInv, BackfillTypeOK, Database, Untold, Heights
<1>2. metrics' \in Metrics
  <2>1. CASE metrics' = resumed_metrics
    <3> DEFINE k == IF db.checkpoint > 0 /\ db.checkpoint >= StartBlock THEN 1 ELSE 0
    <3>1. k \in Nat /\ metrics' = [metrics EXCEPT !.finalized_checkpoint = db.checkpoint,
                                                  !.checkpoint_recoveries = k]
      BY <2>1 DEF resumed_metrics
    <3> HIDE DEF k
    <3> QED
      BY <1>1, <3>1, MetricsChange, MetricNames DEF Metrics
  <2>2. CASE metrics' = batch_metrics
    <3> DEFINE k == metrics.successful_blocks + untold.blocks
    <3>1. k \in Nat /\ metrics' = [metrics EXCEPT !.successful_blocks = k,
                                                  !.finalized_checkpoint = untold.checkpoint]
      BY <1>1, <2>2, MetricNames DEF batch_metrics
    <3> HIDE DEF k
    <3> QED
      BY <1>1, <3>1, MetricsChange, MetricNames DEF Metrics
  <2> QED
    BY <2>1, <2>2 DEF record_checkpoint_resume, record_batch_success
<1>3. AttemptsInv'
  BY SameAttempts DEF TInv, record_checkpoint_resume, record_batch_success
<1>4. throughput' \in Throughput
  BY <1>1, RecordTyped DEF TInv, record_checkpoint_resume, record_batch_success
<1>5. untold' \in Untold
  BY BoundsAssumption
     DEF record_checkpoint_resume, record_batch_success, Nothing, Untold, Heights
<1>6. history' = [found |-> history'.found, recorded |-> history'.recorded,
                  set_back |-> history'.set_back]
  BY DEF TInv, record_checkpoint_resume, record_batch_success
<1> QED
  BY <1>2, <1>3, <1>4, <1>5, <1>6 DEF TInv

\* A request is given up: one more failure, and the worker is down.
LEMMA ExhaustedTyped ==
  ASSUME TInv, RpcExhausted, UNCHANGED clock
  PROVE  TInv'
<1> DEFINE x == metrics.rpc_failures + 1
<1>1. /\ metrics \in Metrics /\ x \in Nat
      /\ metrics' = [metrics EXCEPT !.rpc_failures = x]
  BY MetricNames DEF TInv, Metrics, RpcExhausted
<1> HIDE DEF x
<1>2. metrics' \in Metrics
  BY <1>1, MetricsChange, MetricNames DEF Metrics
<1>3. AttemptsInv'
  BY NoAttemptsInv DEF RpcExhausted
<1> QED
  BY <1>1, <1>2, <1>3 DEF TInv, RpcExhausted

\* The worker finds a replaced block, or that there is none.
LEMMA DecisionTyped ==
  ASSUME TInv, ObservedDecision, UNCHANGED clock
  PROVE  TInv'
<1>1. metrics \in Metrics /\ AttemptsInv
  BY DEF TInv
<1>2. metrics' \in Metrics
  <2> DEFINE x == metrics.reorg_events + 1
             y == metrics.rollbacks + 1
  <2>1. x \in Nat /\ y \in Nat
    BY <1>1, MetricNames DEF Metrics
  <2>2. metrics' = metrics \/ metrics' = [metrics EXCEPT !.reorg_events = x, !.rollbacks = y]
    BY DEF ObservedDecision
  <2> HIDE DEF x, y
  <2>3. CASE metrics' = [metrics EXCEPT !.reorg_events = x, !.rollbacks = y]
    BY <1>1, <2>1, <2>3, MetricsChange, MetricNames DEF Metrics
  <2> QED
    BY <1>1, <2>2, <2>3
<1>3. AttemptsInv'
  BY <1>1, AnsweredInv DEF ObservedDecision
<1> QED
  BY <1>2, <1>3 DEF TInv, ObservedDecision

\* A batch is committed and not yet recorded.
LEMMA CommitTyped ==
  ASSUME IInv, TInv, ObservedCommit, UNCHANGED clock
  PROVE  TInv'
<1>1. AttemptsInv'
  BY SameAttempts DEF TInv, ObservedCommit, Commit, BackfillGoTo
<1>2. untold' \in Untold
  <2> DEFINE k == batch_blocks(bpayload)
  <2>1. bpc = "commit" /\ bpayload \in RangePayload
    BY DEF ObservedCommit, Commit, IInv, BackfillTypeOK
  <2>2. /\ bpayload.from \in Nat /\ bpayload.upto \in Nat /\ bpayload.upto \in Heights
        /\ bpayload.from <= bpayload.upto
    BY <2>1 DEF IInv, RangeInv, RangePayload
  <2>3. k \in Nat
    BY <2>2 DEF batch_blocks
  <2>4. untold' = [what |-> "batch", blocks |-> k, checkpoint |-> bpayload.upto]
    BY DEF ObservedCommit
  <2> HIDE DEF k
  <2> QED
    BY <2>2, <2>3, <2>4 DEF Untold
<1> QED
  BY <1>1, <1>2 DEF TInv, ObservedCommit

\* The process ends or starts again with no request in flight.
LEMMA ExitsTyped ==
  ASSUME TInv, ObservedNotFound \/ ObservedErrs, UNCHANGED clock
  PROVE  TInv'
<1>1. UNCHANGED <<metrics, throughput, untold, history>> /\ attempts' = NoAttempts
  BY DEF ObservedNotFound, ObservedErrs
<1>2. AttemptsInv'
  BY <1>1, NoAttemptsInv
<1> QED
  BY <1>1, <1>2 DEF TInv

\* Every step keeps the types.
LEMMA TypedStep ==
  ASSUME IInv, TInv, [ObservabilityNext]_observabilityVars
  PROVE  TInv'
<1>1. CASE ObservedStep
  <2>1. CASE ObservedQuiet
    <3>1. AttemptsInv'
      BY <2>1, AnsweredInv DEF TInv, ObservedQuiet
    <3> QED
      BY <1>1, <2>1, <3>1 DEF TInv, ObservedQuiet, ObservedStep
  <2>2. CASE ObservedRestart
    BY <1>1, <2>2, NewProcessTyped DEF TInv, ObservedRestart, ObservedStep
  <2> QED
    BY <1>1, <2>1, <2>2, RecordsTyped, DecisionTyped, CommitTyped, ExitsTyped DEF ObservedStep
<1>2. CASE ObservedFailure
  BY <1>2, RetryTyped, ExhaustedTyped, ExitsTyped DEF ObservedFailure
<1>3. CASE Snapshot
  <2>1. AttemptsInv'
    BY <1>3, SameAttempts DEF TInv, Snapshot, backfillVars
  <2>2. throughput' \in Throughput
    BY <1>3, PruneTyped DEF TInv, Snapshot
  <2> QED
    BY <1>3, <2>1, <2>2 DEF TInv, Snapshot
<1>4. CASE Tick \/ SetBack
  <2>1. UNCHANGED <<bvars, metrics, throughput, untold, attempts>>
    BY <1>4 DEF Tick, SetBack, backfillVars, observers
  <2>2. AttemptsInv'
    BY <2>1, SameAttempts DEF TInv
  <2>3. clock' \in Seconds
    BY <1>4, ObservabilityAssumption DEF Tick, SetBack, TInv, Seconds
  <2>4. history' = [found |-> history'.found, recorded |-> history'.recorded,
                    set_back |-> history'.set_back]
    BY <1>4 DEF Tick, SetBack, TInv
  <2> QED
    BY <2>1, <2>2, <2>3, <2>4 DEF TInv
<1>5. CASE UNCHANGED <<bvars, observers, clock, history>>
  <2>1. AttemptsInv'
    BY <1>5, SameAttempts DEF TInv, observers
  <2> QED
    BY <1>5, <2>1 DEF TInv, observers
<1>6. CASE UNCHANGED observabilityVars
  BY <1>5, <1>6 DEF observabilityVars, backfillVars
<1> QED
  BY <1>1, <1>2, <1>3, <1>4, <1>5, <1>6 DEF ObservabilityNext

\* The worker's invariant and the types are kept together.
LEMMA ObservedPreserves ==
  ASSUME StartBlock >= 1, IInv, [ObservabilityNext]_observabilityVars
  PROVE  IInv' /\ [BackfillNext]_backfillVars
BY ObservedSteps, BackfillColdNext, StepPreserves

\* Every metric, bucket and count of attempts keeps its type, and no request fails more
\* often than with_retry lets it.
THEOREM ObservabilityTypeCorrect ==
  ASSUME StartBlock >= 1
  PROVE  ObservabilitySpec => []ObservabilityTypeOK
<1>1. ObservabilityInit => IInv /\ TInv
  BY ObservedStarts, InitInv DEF ObservabilityInit
<1>2. IInv /\ TInv /\ [ObservabilityNext]_observabilityVars => (IInv /\ TInv)'
  BY TypedStep, ObservedPreserves
<1>3. IInv /\ TInv => ObservabilityTypeOK
  BY DEF IInv, TInv, Metrics, Throughput, Untold, AttemptsInv, ObservabilityTypeOK
<1> QED
  BY <1>1, <1>2, <1>3, PTL DEF ObservabilitySpec

\* What with_retry counts for a call is what that call has failed, and the call that was
\* given up has failed one time more than it may be retried.
CallsInv ==
  /\ calls = [failed |-> attempts, given_up |-> calls.given_up]
  /\ calls.given_up \in {0, max_retries + 1}

\* The calls that are in flight have heights of their own.
LEMMA FlightHeights ==
  ASSUME IInv
  PROVE  RequestsInFlight \subseteq Heights
<1>1. /\ bcursor \in Heights /\ bpayload.from \in Nat /\ 0 \in Heights
      /\ bpc = "fetch" => bpayload.upto \in Heights
  BY BoundsAssumption DEF IInv, BackfillTypeOK, RangeInv, RangePayload, Heights
<1> QED
  BY <1>1, BoundsAssumption DEF RequestsInFlight, BackfillRequests, InFlight, Heights

\* Every step counts for the call what it counts for its attempts.
LEMMA CallsStep ==
  ASSUME IInv, TInv, CallsInv, [ObservabilityNext]_observabilityVars
  PROVE  CallsInv'
<1>1. attempts \in [Heights -> 0 .. max_retries] /\ RequestsInFlight \subseteq Heights
  BY FlightHeights DEF TInv, AttemptsInv
<1>2. CASE RpcRetry
  BY <1>1, <1>2 DEF RpcRetry, CallsInv
<1>3. CASE RpcExhausted
  <2>1. PICK n \in RequestsInFlight :
          /\ attempts[n] + 1 > max_retries
          /\ calls' = [failed |-> NoAttempts, given_up |-> calls.failed[n] + 1]
    BY <1>3 DEF RpcExhausted
  <2>2. calls.failed[n] = attempts[n]
    BY DEF CallsInv
  <2>3. attempts[n] \in 0 .. max_retries
    BY <1>1, <2>1
  <2>4. attempts[n] + 1 = max_retries + 1
    BY <2>1, <2>3, ObservabilityAssumption
  <2> QED
    BY <1>3, <2>1, <2>2, <2>4 DEF RpcExhausted, CallsInv
<1>4. CASE CallsAnswered /\ CallsEnd
  BY <1>4 DEF CallsAnswered, CallsEnd, CallsInv
<1>5. CASE attempts' = NoAttempts /\ calls' = [calls EXCEPT !.failed = NoAttempts]
  BY <1>5 DEF CallsInv
<1>6. CASE NewProcess
  BY <1>6 DEF NewProcess, NoCalls, CallsInv
<1>7. CASE UNCHANGED <<attempts, calls>>
  BY <1>7 DEF CallsInv
<1>8. \/ RpcRetry \/ RpcExhausted \/ (CallsAnswered /\ CallsEnd)
      \/ (attempts' = NoAttempts /\ calls' = [calls EXCEPT !.failed = NoAttempts])
      \/ NewProcess \/ UNCHANGED <<attempts, calls>>
  BY DEF ObservabilityNext, observabilityVars, observers, ObservedStep, ObservedFailure,
         record_checkpoint_resume, record_batch_success, ObservedDecision, ObservedCommit,
         ObservedQuiet, ObservedNotFound, ObservedErrs, ObservedRestart, Snapshot, Tick, SetBack
<1> QED
  BY <1>2, <1>3, <1>4, <1>5, <1>6, <1>7, <1>8

\* However the attempts of the requests in flight interleave, the call that ends the worker
\* has failed RPC_MAX_RETRIES + 1 times itself, no fewer and no more.
THEOREM OwnRetries ==
  ASSUME StartBlock >= 1
  PROVE  ObservabilitySpec => []CallsGetTheirRetries
<1>1. ObservabilityInit => IInv /\ TInv /\ CallsInv
  BY ObservedStarts, InitInv DEF ObservabilityInit, NoCalls, CallsInv
<1>2. IInv /\ TInv /\ CallsInv /\ [ObservabilityNext]_observabilityVars
        => (IInv /\ TInv /\ CallsInv)'
  BY TypedStep, ObservedPreserves, CallsStep
<1>3. CallsInv => CallsGetTheirRetries
  BY DEF CallsInv, CallsGetTheirRetries
<1> QED
  BY <1>1, <1>2, <1>3, PTL DEF ObservabilitySpec

-----------------------------------------------------------------------------
(* What the metrics say of the database.                                   *)

\* How many blocks a lane with this checkpoint holds.
Span(checkpoint) == IF checkpoint >= StartBlock THEN checkpoint - StartBlock + 1 ELSE 0

\* As many as are stored.
LEMMA StoredSpan ==
  ASSUME IInv
  PROVE  BlocksStored = Span(db.checkpoint)
<1>1. /\ db.checkpoint \in Nat /\ db.checkpoint \in Heights /\ StartBlock \in Nat
      /\ db.checkpoint \in Int /\ StartBlock \in Int
  BY BoundsAssumption, EngineAssumption DEF IInv, BackfillTypeOK, Database, Heights
<1>2. {n \in Heights : db.cold.blocks[n] # NoHash} = StartBlock .. db.checkpoint
  BY <1>1, BoundsAssumption DEF IInv, ColdContiguous, Heights
<1>3. Cardinality(StartBlock .. db.checkpoint) =
        IF StartBlock > db.checkpoint THEN 0 ELSE db.checkpoint - StartBlock + 1
  BY <1>1, FS_Interval
<1>4. BlocksStored = Cardinality(StartBlock .. db.checkpoint)
  BY <1>2, Zenon DEF BlocksStored
<1> QED
  BY <1>1, <1>3, <1>4 DEF Span

\* Until the process has resumed it has done nothing.  What is committed and not recorded
\* is the checkpoint's; a rollback is counted before it is made.
AInv ==
  /\ untold = Resuming =>
       metrics.successful_blocks = 0 /\ (bpc # "down" => bpc = "latest")
  /\ untold.what = "batch" => untold.checkpoint = db.checkpoint
  /\ untold.what # "batch" => untold.blocks = 0
  /\ Counting /\ bpc = "rollback" => metrics.rollbacks > 0
  /\ GaugeExplained
  /\ Counting =>
       /\ Span(db.checkpoint) <= history.found + metrics.successful_blocks + untold.blocks
       /\ metrics.rollbacks = 0 =>
            Span(db.checkpoint) = history.found + metrics.successful_blocks + untold.blocks
       /\ metrics.checkpoint_recoveries = 1 <=> history.found > 0
  /\ history.found \in Nat

\* The counts it is about.
LEMMA Counts ==
  ASSUME IInv, TInv
  PROVE  /\ \A f \in DOMAIN NewMetrics : metrics[f] \in Nat
         /\ metrics.successful_blocks \in Nat /\ metrics.rollbacks \in Nat
         /\ metrics.finalized_checkpoint \in Nat
         /\ untold.blocks \in Nat /\ untold.checkpoint \in Nat
         /\ db.checkpoint \in Nat /\ StartBlock \in Nat
BY MetricNames, BoundsAssumption, EngineAssumption
   DEF TInv, Metrics, Untold, IInv, BackfillTypeOK, Database, Heights

\* The two notes that say nothing of a batch.
LEMMA NoBatch ==
  /\ Nothing.what = "nothing" /\ Nothing.blocks = 0
  /\ Resuming.what = "resume" /\ Resuming.blocks = 0
  /\ Nothing # Resuming
BY DEF Nothing, Resuming

\* Where the worker's process is down or has not resumed, nothing is counted.
LEMMA NotCounting ==
  ASSUME bpc' = "down" \/ untold' = Resuming,
         untold' = Resuming => metrics'.successful_blocks = 0 /\ (bpc' # "down" => bpc' = "latest"),
         untold'.what = "batch" => untold'.checkpoint = db'.checkpoint,
         untold'.what # "batch" => untold'.blocks = 0,
         history'.found \in Nat
  PROVE  AInv'
BY DEF AInv, Counting, GaugeExplained

\* Where nothing it is about changes, it stays.
LEMMA AccountStays ==
  ASSUME AInv, UNCHANGED <<bpc, metrics, untold, history>>, db'.checkpoint = db.checkpoint
  PROVE  AInv'
BY DEF AInv, Counting, GaugeExplained, Span

\* A process that resumes names the checkpoint and counts what it finds.
LEMMA ResumeAccounts ==
  ASSUME StartBlock >= 1, IInv, TInv, AInv, record_checkpoint_resume
  PROVE  AInv'
<1>1. /\ untold = Resuming /\ bpc = "latest" /\ bpc' = bpc /\ db' = db
      /\ untold' = Nothing /\ metrics' = resumed_metrics
      /\ history' = [history EXCEPT !.found = BlocksStored]
  BY DEF record_checkpoint_resume, bvars, AInv
<1>2. history'.found = Span(db.checkpoint)
  BY <1>1, StoredSpan DEF TInv
<1>3. /\ metrics'.finalized_checkpoint = db.checkpoint
      /\ metrics'.successful_blocks = 0
      /\ metrics'.checkpoint_recoveries =
           IF db.checkpoint > 0 /\ db.checkpoint >= StartBlock THEN 1 ELSE 0
      /\ metrics'.rollbacks = metrics.rollbacks
  BY <1>1, MetricNames DEF resumed_metrics, TInv, Metrics, AInv
<1>4. Span(db.checkpoint) \in Nat /\ (Span(db.checkpoint) > 0 <=> db.checkpoint >= StartBlock)
  BY Counts DEF Span
<1>5. untold'.blocks = 0 /\ untold'.what = "nothing"
  BY <1>1, NoBatch
<1> QED
  BY <1>1, <1>2, <1>3, <1>4, <1>5, Counts, NoBatch DEF AInv, Counting, GaugeExplained

\* A recorded batch is the one that the checkpoint names.
LEMMA BatchAccounts ==
  ASSUME IInv, TInv, AInv, record_batch_success
  PROVE  AInv'
<1>1. /\ untold.what = "batch" /\ bpc # "down" /\ UNCHANGED <<bpc, db>>
      /\ untold' = Nothing /\ metrics' = batch_metrics
      /\ history' = [history EXCEPT !.recorded[clock] = @ + untold.blocks]
  BY DEF record_batch_success, bvars
<1>2. history'.found = history.found
  BY <1>1 DEF TInv
<1>3. /\ metrics'.finalized_checkpoint = db.checkpoint
      /\ metrics'.successful_blocks = metrics.successful_blocks + untold.blocks
      /\ metrics'.checkpoint_recoveries = metrics.checkpoint_recoveries
      /\ metrics'.rollbacks = metrics.rollbacks
  BY <1>1, MetricNames DEF batch_metrics, TInv, Metrics, AInv
<1>4. untold'.blocks = 0 /\ untold'.what = "nothing" /\ Counting
  BY <1>1, NoBatch DEF Counting
<1> QED
  BY <1>1, <1>2, <1>3, <1>4, Counts, NoBatch DEF AInv, Counting, GaugeExplained, Span

\* The decision to roll back is counted before it is acted on.
LEMMA DecisionAccounts ==
  ASSUME IInv, TInv, AInv, ObservedDecision
  PROVE  AInv'
<1>1. /\ untold = Nothing /\ bpc # "down" /\ bpc # "rollback" /\ UNCHANGED <<db, untold, history>>
      /\ bpc' # "down"
  BY DEF ObservedDecision, ReconcileMismatch, Validate
<1>2. /\ metrics'.finalized_checkpoint = metrics.finalized_checkpoint
      /\ metrics'.successful_blocks = metrics.successful_blocks
      /\ metrics'.checkpoint_recoveries = metrics.checkpoint_recoveries
      /\ metrics'.rollbacks =
           IF bpc' = "rollback" THEN metrics.rollbacks + 1 ELSE metrics.rollbacks
  BY MetricNames DEF ObservedDecision, TInv, Metrics
<1> QED
  BY <1>1, <1>2, Counts, NoBatch DEF AInv, Counting, GaugeExplained, Span

\* A committed batch moves the checkpoint by its blocks.
LEMMA CommitAccounts ==
  ASSUME IInv, TInv, AInv, ObservedCommit
  PROVE  AInv'
<1> DEFINE p == bpayload
<1>1. /\ untold = Nothing /\ bpc # "down" /\ bpc' = "latest" /\ UNCHANGED <<metrics, history>>
      /\ untold'.what = "batch" /\ untold'.blocks = p.upto - p.from + 1
      /\ untold'.checkpoint = p.upto
  BY DEF ObservedCommit, Commit, BackfillGoTo, batch_blocks
<1>2. ColdCommits
  BY CommitCommits DEF ObservedCommit
<1>3. /\ db'.checkpoint = p.upto /\ p.upto \in Nat
      /\ p.from = Larger(db.checkpoint + 1, StartBlock) /\ p.from <= p.upto
  BY <1>2, CommitEffect, BoundsAssumption DEF Heights
<1>4. p.from \in Nat
  BY <1>3, Counts DEF Larger
<1>5. Span(db'.checkpoint) = Span(db.checkpoint) + untold'.blocks
  BY <1>1, <1>3, <1>4, Counts DEF Span, Larger
<1>6. db'.checkpoint > db.checkpoint
  BY <1>3, Counts DEF Larger
<1>7. Span(db.checkpoint) \in Nat
  BY Counts DEF Span
<1> HIDE DEF p
<1> QED
  BY <1>1, <1>3, <1>4, <1>5, <1>6, <1>7, Counts, NoBatch DEF AInv, Counting, GaugeExplained

\* A rollback lowers the checkpoint, and was counted.
LEMMA RollbackAccounts ==
  ASSUME StartBlock >= 1, IInv, TInv, AInv, untold = Nothing, Rollback,
         UNCHANGED <<metrics, untold, history>>
  PROVE  AInv'
<1>1. bpc = "rollback" /\ bpc' = "latest"
  BY DEF Rollback, BackfillGoTo
<1>2. /\ db'.checkpoint \in Nat /\ db'.checkpoint < db.checkpoint
  <2>1. bcursor \in Nat /\ StartBlock <= bcursor /\ bcursor <= db.checkpoint
    BY <1>1, BoundsAssumption DEF IInv, BackfillTypeOK, CursorInv, Heights
  <2>2. db'.checkpoint = Monus(bcursor, 1)
    BY DEF Rollback, rollback_from_block
  <2> QED
    BY <2>1, <2>2, Counts DEF Monus
<1>3. Span(db'.checkpoint) <= Span(db.checkpoint)
  BY <1>2, Counts DEF Span
<1>4. Span(db.checkpoint) \in Nat /\ Span(db'.checkpoint) \in Nat
  BY <1>2, Counts DEF Span
<1> QED
  BY <1>1, <1>2, <1>3, <1>4, Counts, NoBatch DEF AInv, Counting, GaugeExplained

\* Requests that fail, and a process that ends or starts again, count nothing here.
LEMMA ExitsAccount ==
  ASSUME IInv, TInv, AInv,
         RpcRetry \/ RpcExhausted \/ ObservedNotFound \/ ObservedErrs \/ ObservedRestart
  PROVE  AInv'
<1>1. CASE RpcRetry
  <2>1. UNCHANGED <<db, bpc, untold, history>>
    BY <1>1 DEF RpcRetry, bvars
  <2>2. /\ metrics'.finalized_checkpoint = metrics.finalized_checkpoint
        /\ metrics'.successful_blocks = metrics.successful_blocks
        /\ metrics'.checkpoint_recoveries = metrics.checkpoint_recoveries
        /\ metrics'.rollbacks = metrics.rollbacks
    BY <1>1, MetricNames DEF RpcRetry, TInv, Metrics
  <2> QED
    BY <2>1, <2>2 DEF AInv, Counting, GaugeExplained, Span
<1>2. CASE RpcExhausted \/ ObservedNotFound \/ ObservedErrs
  <2>1. UNCHANGED <<db, untold, history>> /\ bpc' = "down"
    BY <1>2
       DEF RpcExhausted, ObservedNotFound, ObservedErrs, BackfillNotFound, BackfillErrs,
           BackfillGoTo
  <2>2. metrics'.successful_blocks = metrics.successful_blocks
    BY <1>2, MetricNames DEF RpcExhausted, ObservedNotFound, ObservedErrs, TInv, Metrics
  <2> QED
    BY <2>1, <2>2, NotCounting DEF AInv
<1>3. CASE ObservedRestart
  <2>1. untold' = Resuming /\ bpc' = "latest" /\ history'.found = 0
    BY <1>3 DEF ObservedRestart, BackfillRestart, BackfillGoTo, NewProcess, NewHistory
  <2>2. metrics'.successful_blocks = 0
    BY <1>3 DEF ObservedRestart, NewProcess, NewMetrics
  <2> QED
    BY <2>1, <2>2, NoBatch, NotCounting
<1> QED
  BY <1>1, <1>2, <1>3

\* The other awaits touch neither the checkpoint nor the metrics.
LEMMA QuietAccounts ==
  ASSUME StartBlock >= 1, IInv, TInv, AInv, ObservedQuiet
  PROVE  AInv'
<1>1. CASE Rollback
  BY <1>1, RollbackAccounts DEF ObservedQuiet
<1>2. CASE ReadLatest \/ ReconcileMatch \/ Plan \/ Fetch \/ FetchLogs
  <2>1. UNCHANGED <<db, metrics, untold, history>> /\ untold = Nothing
    BY <1>2 DEF ObservedQuiet, ReadLatest, ReconcileMatch, Plan, Fetch, FetchLogs
  <2>2. bpc # "down" /\ bpc' # "rollback"
    BY <1>2 DEF ReadLatest, ReconcileMatch, Plan, Fetch, FetchLogs, BackfillGoTo
  <2> QED
    BY <2>1, <2>2, NoBatch DEF AInv, Counting, GaugeExplained, Span
<1> QED
  BY <1>1, <1>2 DEF ObservedQuiet

\* The clock, the logger and the chain do not touch them either.
LEMMA AccountStep ==
  ASSUME StartBlock >= 1, IInv, TInv, AInv, [ObservabilityNext]_observabilityVars
  PROVE  AInv'
<1>1. CASE ObservedStep \/ ObservedFailure
  BY <1>1, ResumeAccounts, BatchAccounts, DecisionAccounts, CommitAccounts, QuietAccounts,
     ExitsAccount DEF ObservedStep, ObservedFailure
<1>2. CASE SetBack
  <2>1. UNCHANGED <<bpc, db, metrics, untold>>
    BY <1>2 DEF SetBack, backfillVars, bvars, observers
  <2>2. history'.found = history.found
    BY <1>2 DEF SetBack, TInv
  <2> QED
    BY <2>1, <2>2 DEF AInv, Counting, GaugeExplained, Span
<1>3. CASE Snapshot \/ Tick \/ UNCHANGED observabilityVars
             \/ (ChainNext /\ UNCHANGED <<db, bvars, observers, clock, history, calls>>)
  <2>1. UNCHANGED <<bpc, db, metrics, untold, history>>
    BY <1>3 DEF Snapshot, Tick, observabilityVars, backfillVars, bvars, observers
  <2> QED
    BY <2>1, AccountStays
<1> QED
  BY <1>1, <1>2, <1>3 DEF ObservabilityNext

\* At the start the process has found and done nothing.
LEMMA AccountStarts == ObservabilityInit => AInv
<1> SUFFICES ASSUME ObservabilityInit PROVE AInv
  OBVIOUS
<1>1. untold = Resuming /\ bpc = "latest" /\ history.found = 0 /\ metrics.successful_blocks = 0
  BY DEF ObservabilityInit, BackfillInit, BackfillLocalsInit, NewHistory, NewMetrics
<1> QED
  BY <1>1, NoBatch DEF AInv, Counting, GaugeExplained

\* What the worker stores and what it records stay in step, whenever the process dies.
THEOREM ObservabilityInvariant ==
  ASSUME StartBlock >= 1
  PROVE  ObservabilitySpec => [](IInv /\ TInv /\ AInv)
<1>1. ObservabilityInit => IInv /\ TInv /\ AInv
  BY ObservedStarts, AccountStarts, InitInv DEF ObservabilityInit
<1>2. IInv /\ TInv /\ AInv /\ [ObservabilityNext]_observabilityVars => (IInv /\ TInv /\ AInv)'
  BY TypedStep, AccountStep, ObservedPreserves
<1> QED
  BY <1>1, <1>2, PTL DEF ObservabilitySpec

\* The checkpoint gauge is behind the persisted checkpoint only between a COMMIT and its
\* record, and ahead of it only in a process that has counted a rollback.
THEOREM GaugeIsExplained ==
  ASSUME StartBlock >= 1
  PROVE  ObservabilitySpec => []GaugeExplained
<1>1. AInv => GaugeExplained
  BY DEF AInv
<1> QED
  BY <1>1, ObservabilityInvariant, PTL

\* Every block that the cold lane holds was found at the start or counted as successful,
\* and unless a rollback was counted no other was.
THEOREM SuccessesAccountFor ==
  ASSUME StartBlock >= 1
  PROVE  ObservabilitySpec => []SuccessesAddUp
<1>1. IInv /\ AInv => SuccessesAddUp
  BY StoredSpan DEF AInv, SuccessesAddUp
<1> QED
  BY <1>1, ObservabilityInvariant, PTL

-----------------------------------------------------------------------------
(* Sums over finite sets.                                                  *)

\* A sum of counts as a number of elements: f[x] units for each x of s.
Units(f, s) == UNION {{x} \X (1 .. f[x]) : x \in s}

\* There are finitely many.
LEMMA UnitsFinite ==
  ASSUME NEW s, IsFiniteSet(s), NEW f, \A x \in s : f[x] \in Nat
  PROVE  IsFiniteSet(Units(f, s)) /\ Cardinality(Units(f, s)) \in Nat
<1> DEFINE F == [x \in s |-> {x} \X (1 .. f[x])]
           T == {{x} \X (1 .. f[x]) : x \in s}
<1>1. IsFiniteSet(T)
  <2>1. F \in Surjection(s, T)
    BY DEF Surjection
  <2> HIDE DEF F, T
  <2> QED
    BY <2>1, FS_Surjection
<1>2. \A S \in T : IsFiniteSet(S)
  <2> SUFFICES ASSUME NEW x \in s PROVE IsFiniteSet({x} \X (1 .. f[x]))
    OBVIOUS
  <2>1. f[x] \in Int
    OBVIOUS
  <2>2. IsFiniteSet(1 .. f[x])
    BY <2>1, FS_Interval
  <2>3. IsFiniteSet({x})
    BY FS_Singleton
  <2> QED
    BY <2>2, <2>3, FS_Product
<1>3. IsFiniteSet(UNION T)
  <2> HIDE DEF T
  <2> QED
    BY <1>1, <1>2, FS_UNION
<1>4. IsFiniteSet(Units(f, s))
  BY <1>3 DEF Units
<1> QED
  BY <1>4, FS_CardinalityType

\* Without x there are f[x] fewer.
LEMMA UnitsWithout ==
  ASSUME NEW s, IsFiniteSet(s), NEW f, \A x \in s : f[x] \in Nat, NEW x \in s
  PROVE  Cardinality(Units(f, s)) = f[x] + Cardinality(Units(f, s \ {x}))
<1> DEFINE A == {x} \X (1 .. f[x])
           R == Units(f, s \ {x})
<1>1. IsFiniteSet(A) /\ Cardinality(A) = f[x]
  <2>1. IsFiniteSet(1 .. f[x]) /\ Cardinality(1 .. f[x]) = f[x]
    BY FS_Interval
  <2>2. IsFiniteSet({x}) /\ Cardinality({x}) = 1
    BY FS_Singleton
  <2>3. IsFiniteSet(A) /\ Cardinality(A) = 1 * f[x]
    BY <2>1, <2>2, FS_Product, ZenonT(60)
  <2> QED
    BY <2>3
<1>2. IsFiniteSet(R) /\ Cardinality(R) \in Nat
  BY UnitsFinite, FS_RemoveElement
<1>3. Units(f, s) = A \cup R
  BY DEF Units
<1>4. A \cap R = {}
  BY DEF Units
<1>5. Cardinality(A \cup R) = Cardinality(A) + Cardinality(R) - Cardinality(A \cap R)
  BY <1>1, <1>2, FS_Union
<1>6. Cardinality({}) = 0
  BY FS_EmptySet
<1>7. f[x] \in Nat
  OBVIOUS
<1> HIDE DEF A
<1>8. Cardinality(A \cup R) = f[x] + Cardinality(R)
  <2> HIDE DEF R
  <2> QED
    <3>1. Cardinality(A \cup R) = Cardinality(A) + Cardinality(R) - 0
      BY <1>4, <1>5, <1>6
    <3> QED
      BY <1>1, <1>2, <1>7, <3>1
<1> QED
  BY <1>3, <1>8

\* What MapThenFoldSet chooses: g[s] is the sum over s, ch[s] the element that is taken out
\* next, whose count is the first or the second argument of the addition.
Sums(f, ch, U, g) ==
  g = [s \in SUBSET U |-> IF s = {} THEN 0 ELSE f[ch[s]] + g[s \ {ch[s]}]]

Adds(f, ch, U, g) ==
  g = [s \in SUBSET U |-> IF s = {} THEN 0 ELSE g[s \ {ch[s]}] + f[ch[s]]]

\* There is such a function, and any two of them agree: the smallest set on which one differs
\* from the number of units would differ without the element taken out.
LEMMA SumIsUnits ==
  ASSUME NEW U, IsFiniteSet(U), NEW f, \A x \in U : f[x] \in Nat,
         NEW ch, \A s \in SUBSET U : s # {} => ch[s] \in s
  PROVE  /\ \E g : Sums(f, ch, U, g)
         /\ \E g : Adds(f, ch, U, g)
         /\ \A g : Sums(f, ch, U, g) \/ Adds(f, ch, U, g) => g[U] = Cardinality(Units(f, U))
<1> DEFINE G == [s \in SUBSET U |-> Cardinality(Units(f, s))]
<1>1. \A s \in SUBSET U : IsFiniteSet(s)
  BY FS_Subset
<1>2. Cardinality(Units(f, {})) = 0
  BY FS_EmptySet DEF Units
<1>3. \A s \in SUBSET U : s # {} =>
        Cardinality(Units(f, s)) = f[ch[s]] + Cardinality(Units(f, s \ {ch[s]}))
  <2> SUFFICES ASSUME NEW s \in SUBSET U, s # {}
               PROVE  Cardinality(Units(f, s)) = f[ch[s]] + Cardinality(Units(f, s \ {ch[s]}))
    OBVIOUS
  <2> QED
    BY <1>1, UnitsWithout
<1>4. \A s \in SUBSET U : s \ {ch[s]} \in SUBSET U
  OBVIOUS
<1>5. Sums(f, ch, U, G) /\ Adds(f, ch, U, G)
  <2>1. \A s \in SUBSET U : G[s] \in Nat /\ (s # {} => f[ch[s]] \in Nat)
    BY <1>1, UnitsFinite
  <2>2. \A s \in SUBSET U : G[s] = IF s = {} THEN 0 ELSE f[ch[s]] + G[s \ {ch[s]}]
    BY <1>2, <1>3, <1>4
  <2>3. G = [s \in SUBSET U |-> G[s]]
    OBVIOUS
  <2> HIDE DEF G
  <2>4. \A s \in SUBSET U : G[s] = IF s = {} THEN 0 ELSE G[s \ {ch[s]}] + f[ch[s]]
    <3>1. \A s \in SUBSET U : s # {} => G[s \ {ch[s]}] + f[ch[s]] = f[ch[s]] + G[s \ {ch[s]}]
      BY <1>4, <2>1
    <3> HIDE DEF G
    <3> QED
      BY <2>2, <3>1
  <2> QED
    BY <2>2, <2>3, <2>4 DEF Sums, Adds
<1>6. ASSUME NEW g, Sums(f, ch, U, g) \/ Adds(f, ch, U, g)
      PROVE  g[U] = Cardinality(Units(f, U))
  <2> DEFINE T == {s \in SUBSET U : g[s] # Cardinality(Units(f, s))}
  <2>1. SUFFICES ASSUME T # {} PROVE FALSE
    OBVIOUS
  <2>2. T \subseteq FiniteSubsetsOf(U)
    BY FS_FiniteSubsetsOfFinite
  <2>3. PICK s \in T : \A y \in T : <<y, s>> \notin StrictSubsetOrdering(U)
    <3> HIDE DEF T
    <3> QED
      BY <2>1, <2>2, FS_StrictSubsetOrderingWellFounded, WFMin
  <2>4. s # {}
    BY <1>2, <1>6 DEF Sums, Adds
  <2>5. s \ {ch[s]} \notin T
    BY <2>3, <2>4 DEF StrictSubsetOrdering
  <2>6. g[s] = f[ch[s]] + g[s \ {ch[s]}] \/ g[s] = g[s \ {ch[s]}] + f[ch[s]]
    BY <1>6, <2>4 DEF Sums, Adds
  <2>7. g[s \ {ch[s]}] = Cardinality(Units(f, s \ {ch[s]}))
    BY <2>5
  <2>8. f[ch[s]] \in Nat
    BY <2>4
  <2>9. Cardinality(Units(f, s \ {ch[s]})) \in Nat
    <3>1. IsFiniteSet(s \ {ch[s]}) /\ \A x \in s \ {ch[s]} : f[x] \in Nat
      BY <1>1, <1>4
    <3> QED
      BY <3>1, UnitsFinite
  <2> QED
    BY <1>3, <2>4, <2>6, <2>7, <2>8, <2>9
<1> QED
  BY <1>5, <1>6

\* SumFunctionOnSet takes out any element.
LEMMA SumOfFunction ==
  ASSUME NEW U, IsFiniteSet(U), NEW f, \A x \in U : f[x] \in Nat
  PROVE  SumFunctionOnSet(f, U) = Cardinality(Units(f, U))
<1> DEFINE ch == [s \in SUBSET U |-> CHOOSE x \in s : TRUE]
           sum == CHOOSE g : Sums(f, ch, U, g)
<1>1. \A s \in SUBSET U : s # {} => ch[s] \in s
  OBVIOUS
<1>2. SumFunctionOnSet(f, U) = sum[U]
  <2>1. ASSUME NEW g
        PROVE  Sums(f, ch, U, g)
                 <=> g = [s \in SUBSET U |->
                            IF s = {} THEN 0
                            ELSE f[CHOOSE x \in s : TRUE] + g[s \ {CHOOSE x \in s : TRUE}]]
    BY DEF Sums
  <2> QED
    BY <2>1, ZenonT(60) DEF SumFunctionOnSet, FoldFunctionOnSet, MapThenFoldSet
<1> HIDE DEF ch
<1>3. Sums(f, ch, U, sum)
  BY <1>1, SumIsUnits
<1> QED
  BY <1>1, <1>2, <1>3, SumIsUnits

\* A set of indices that has an element has a last one.
LEMMA MaxOf ==
  ASSUME NEW n \in Nat, NEW s \in SUBSET (1 .. n), s # {}
  PROVE  Max(s) \in s /\ \A i \in s : i <= Max(s)
<1> DEFINE T == {n - i : i \in s}
<1>1. T \subseteq Nat /\ T # {}
  <2>1. \A i \in s : n - i \in Nat
    OBVIOUS
  <2> QED
    BY <2>1
<1>2. PICK k \in T : \A j \in T : k <= j
  <2> HIDE DEF T
  <2> QED
    BY <1>1, LeastOf
<1>3. \E i \in s : \A j \in s : i >= j
  <2>1. PICK i \in s : k = n - i
    OBVIOUS
  <2>2. \A j \in s : n - i <= n - j
    BY <1>2, <2>1
  <2> QED
    BY <2>2
<1> QED
  BY <1>3 DEF Max

BlocksOf(b) == [i \in 1 .. Len(b) |-> b[i].blocks]

\* total_blocks folds over the buckets from the first to the last.
LEMMA TotalOfBuckets ==
  ASSUME NEW t, t.buckets \in Seq(Bucket)
  PROVE  total_blocks(t) = Cardinality(Units(BlocksOf(t.buckets), 1 .. Len(t.buckets)))
<1> DEFINE b == t.buckets
           U == 1 .. Len(b)
           f == BlocksOf(b)
           ch == [s \in SUBSET U |-> Max(s)]
           sum == CHOOSE g : Adds(f, ch, U, g)
<1>1. b \in Seq(Bucket) /\ Len(b) \in Nat /\ DOMAIN b = U
  OBVIOUS
<1>2. IsFiniteSet(U)
  <2>1. Len(b) \in Int
    BY <1>1
  <2> QED
    BY <2>1, FS_Interval
<1>3. \A i \in U : f[i] \in Nat
  <2> SUFFICES ASSUME NEW i \in U PROVE f[i] \in Nat
    OBVIOUS
  <2>1. b[i] \in Bucket
    BY <1>1
  <2> QED
    BY <2>1 DEF BlocksOf, Bucket
<1>4. \A s \in SUBSET U : s # {} => ch[s] \in s
  BY <1>1, MaxOf
<1>5. total_blocks(t) = sum[U]
  <2>1. ASSUME NEW g
        PROVE  Adds(f, ch, U, g)
                 <=> g = [s \in SUBSET U |->
                            IF s = {} THEN 0 ELSE g[s \ {Max(s)}] + b[Max(s)].blocks]
    <3>1. \A s \in SUBSET U : ch[s] = Max(s)
      OBVIOUS
    <3>2. \A s \in SUBSET U : s # {} => f[ch[s]] = b[Max(s)].blocks
      BY <1>4, <3>1 DEF BlocksOf
    <3> HIDE DEF ch, f, U
    <3> QED
      BY <3>1, <3>2 DEF Adds
  <2>2. total_blocks(t) = (CHOOSE g : g =
          [s \in SUBSET U |-> IF s = {} THEN 0 ELSE g[s \ {Max(s)}] + b[Max(s)].blocks])[U]
    BY <1>1 DEF total_blocks, FoldLeft, MapThenFoldSet
  <2> HIDE DEF ch, f, U
  <2> QED
    BY <2>1, <2>2
<1> HIDE DEF ch
<1>6. Adds(f, ch, U, sum)
  BY <1>2, <1>3, <1>4, SumIsUnits
<1> QED
  BY <1>2, <1>3, <1>4, <1>5, <1>6, SumIsUnits

-----------------------------------------------------------------------------
(* The rolling window.                                                     *)

\* A second after every one that the clock was set back from.
Late(h, s) == h.set_back = 0 \/ s > h.set_back

\* Late buckets are in the order of their seconds and hold what was recorded in them, and the
\* recent ones are all there.
Orderly(b, h, now) ==
  /\ \A i \in 1 .. Len(b) : b[i].second <= now \/ b[i].second <= h.set_back
  /\ \A i, j \in 1 .. Len(b) : i < j /\ Late(h, b[i].second) => b[i].second < b[j].second
  /\ \A i \in 1 .. Len(b) : Late(h, b[i].second) => b[i].blocks = h.recorded[b[i].second]
  /\ \A s \in Seconds :
       Late(h, s) /\ h.recorded[s] > 0 /\ s >= oldest_second(now)
         => \E i \in 1 .. Len(b) : b[i].second = s

\* The seconds in which a batch was recorded.
Busy(h) == {s \in Seconds : h.recorded[s] > 0}

\* The throughput began with a busy second, which is the first of them if it is late.
Begun(started, h, now) ==
  /\ \A s \in Busy(h) : s <= now \/ s <= h.set_back
  /\ \/ started = {} /\ Busy(h) = {}
     \/ \E s \in Busy(h) :
          started = {s} /\ (Late(h, s) => \A r \in Busy(h) : s <= r)

\* WInv, inductive given the types.
WInv ==
  /\ history.recorded \in [Seconds -> Nat]
  /\ history.set_back \in Seconds
  /\ untold.what = "batch" => untold.blocks > 0
  /\ Orderly(throughput.buckets, history, clock)
  /\ Begun(throughput.started_at_sec, history, clock)

\* c is b from its m-th bucket on, the first recent one.
Cut(b, c, m, now) ==
  /\ m \in 1 .. Len(b) + 1
  /\ c \in Seq(Bucket)
  /\ Len(c) = Len(b) + 1 - m
  /\ \A i \in 1 .. Len(c) : c[i] = b[i + m - 1]
  /\ \A i \in 1 .. m - 1 : b[i].second < oldest_second(now)
  /\ m <= Len(b) => b[m].second >= oldest_second(now)

\* The oldest second of the window is not after the clock.
LEMMA OldestSecond ==
  ASSUME NEW now \in Nat
  PROVE  oldest_second(now) \in Nat /\ oldest_second(now) <= now
BY WindowAssumption DEF oldest_second, saturating_sub

\* prune cuts.
LEMMA PruneCuts ==
  ASSUME NEW t \in Throughput, NEW now \in Nat
  PROVE  /\ prune(t, now).started_at_sec = t.started_at_sec
         /\ \E m : Cut(t.buckets, prune(t, now).buckets, m, now)
<1> DEFINE b == t.buckets
           n == Len(b)
           recent == {i \in 1 .. n : b[i].second >= oldest_second(now)}
           T == recent \cup {n + 1}
           m == Min(T)
           c == SubSeq(b, m, n)
<1>1. b \in Seq(Bucket) /\ n \in Nat
  BY DEF Throughput
<1>2. T \subseteq Nat /\ T # {} /\ T \subseteq 1 .. n + 1
  BY <1>1
<1>3. m \in T /\ \A i \in T : m <= i
  <2> HIDE DEF T
  <2> QED
    BY <1>2, MinOf
<1>4. m \in 1 .. n + 1
  BY <1>2, <1>3
<1>5. \A i \in 1 .. m - 1 : b[i].second < oldest_second(now)
  <2> SUFFICES ASSUME NEW i \in 1 .. m - 1 PROVE b[i].second < oldest_second(now)
    OBVIOUS
  <2> HIDE DEF m
  <2>1. i \in 1 .. n /\ ~(m <= i)
    BY <1>1, <1>4
  <2>2. i \notin T
    BY <1>3, <2>1
  <2>3. b[i] \in Bucket
    BY <1>1, <2>1
  <2>4. b[i].second \in Nat
    BY <2>3 DEF Bucket
  <2>5. ~(b[i].second >= oldest_second(now))
    BY <2>1, <2>2
  <2> QED
    BY <2>4, <2>5, OldestSecond
<1>6. m <= n => b[m].second >= oldest_second(now)
  <2> HIDE DEF m
  <2> QED
    BY <1>1, <1>3
<1>7. prune(t, now) = [t EXCEPT !.buckets = c]
  BY DEF prune
<1> HIDE DEF m
<1>8. c \in Seq(Bucket) /\ Len(c) = n + 1 - m /\ \A i \in 1 .. Len(c) : c[i] = b[i + m - 1]
  BY <1>1, <1>4
<1>9. Cut(b, c, m, now)
  BY <1>4, <1>5, <1>6, <1>8 DEF Cut
<1> HIDE DEF c
<1>10. prune(t, now).started_at_sec = t.started_at_sec /\ prune(t, now).buckets = c
  BY <1>7 DEF Throughput
<1> QED
  BY <1>9, <1>10

\* What a bucket holds.
LEMMA BucketAt ==
  ASSUME NEW b \in Seq(Bucket), NEW i \in 1 .. Len(b)
  PROVE  b[i].second \in Nat /\ b[i].blocks \in Nat
<1>1. b[i] \in Bucket
  OBVIOUS
<1> QED
  BY <1>1 DEF Bucket

\* Buckets that leave at the front leave the others in order.
LEMMA CutOrderly ==
  ASSUME NEW b \in Seq(Bucket), NEW c, NEW m, NEW now \in Nat, Cut(b, c, m, now),
         NEW h, Orderly(b, h, now)
  PROVE  Orderly(c, h, now)
<1>1. /\ Len(b) \in Nat /\ Len(c) \in Nat /\ m \in 1 .. Len(b) + 1
      /\ Len(c) = Len(b) + 1 - m
  BY DEF Cut
<1>2. \A i \in 1 .. Len(c) : c[i] = b[i + m - 1] /\ i + m - 1 \in 1 .. Len(b)
  BY <1>1 DEF Cut
<1>3. \A i \in 1 .. Len(c) : c[i].second <= now \/ c[i].second <= h.set_back
  BY <1>2 DEF Orderly
<1>4. \A i, j \in 1 .. Len(c) : i < j /\ Late(h, c[i].second) => c[i].second < c[j].second
  <2> SUFFICES ASSUME NEW i \in 1 .. Len(c), NEW j \in 1 .. Len(c), i < j,
                      Late(h, c[i].second)
               PROVE  c[i].second < c[j].second
    OBVIOUS
  <2>1. i + m - 1 < j + m - 1
    BY <1>1
  <2> QED
    BY <1>2, <2>1 DEF Orderly
<1>5. \A i \in 1 .. Len(c) : Late(h, c[i].second) => c[i].blocks = h.recorded[c[i].second]
  BY <1>2 DEF Orderly
<1>6. ASSUME NEW s \in Seconds, Late(h, s), h.recorded[s] > 0, s >= oldest_second(now)
      PROVE  \E i \in 1 .. Len(c) : c[i].second = s
  <2>1. PICK i \in 1 .. Len(b) : b[i].second = s
    BY <1>6 DEF Orderly
  <2>2. ~(i \in 1 .. m - 1)
    <3>1. s \in Nat /\ oldest_second(now) \in Nat
      BY <2>1, BucketAt, OldestSecond
    <3>2. i \in 1 .. m - 1 => s < oldest_second(now)
      BY <2>1 DEF Cut
    <3> QED
      BY <1>6, <3>1, <3>2
  <2>3. i + 1 - m \in 1 .. Len(c) /\ (i + 1 - m) + m - 1 = i
    BY <1>1, <2>2
  <2> QED
    BY <1>2, <2>1, <2>3
<1> QED
  BY <1>3, <1>4, <1>5, <1>6 DEF Orderly

\* The bucket that a batch is added to, or the new one, is the last.
Added(b, now, blocks) ==
  IF Len(b) > 0 /\ b[Len(b)].second = now
  THEN [b EXCEPT ![Len(b)].blocks = b[Len(b)].blocks + blocks]
  ELSE Append(b, [second |-> now, blocks |-> blocks])

Recorded(h, now, blocks) == [h EXCEPT !.recorded[now] = h.recorded[now] + blocks]

History == [found : Nat, recorded : [Seconds -> Nat], set_back : Seconds]

\* Seconds are counted from zero.
LEMMA SecondsAreNat == Seconds \subseteq Nat
BY ObservabilityAssumption DEF Seconds

\* What was recorded in each second once a batch is.
LEMMA RecordedAt ==
  ASSUME NEW h \in History, NEW now \in Seconds, NEW blocks \in Nat
  PROVE  /\ Recorded(h, now, blocks) \in History
         /\ Recorded(h, now, blocks).set_back = h.set_back
         /\ \A s \in Seconds : Recorded(h, now, blocks).recorded[s] =
              IF s = now THEN h.recorded[s] + blocks ELSE h.recorded[s]
BY DEF Recorded, History

\* A late bucket is not after the clock, and before it if it is not the last one.
LEMMA LateBuckets ==
  ASSUME NEW b \in Seq(Bucket), NEW h \in History, NEW now \in Seconds, Orderly(b, h, now),
         NEW i \in 1 .. Len(b), Late(h, b[i].second)
  PROVE  /\ b[i].second \in Nat /\ b[i].second <= now
         /\ i < Len(b) => b[i].second < now
         /\ b[Len(b)].second # now => b[i].second < now
<1>1. \A j \in 1 .. Len(b) : Late(h, b[j].second) => b[j].second \in Nat /\ b[j].second <= now
  <2> SUFFICES ASSUME NEW j \in 1 .. Len(b), Late(h, b[j].second)
               PROVE  b[j].second \in Nat /\ b[j].second <= now
    OBVIOUS
  <2>1. b[j].second \in Nat /\ now \in Nat /\ h.set_back \in Nat
    BY BucketAt, SecondsAreNat DEF History
  <2>2. b[j].second <= now \/ b[j].second <= h.set_back
    BY DEF Orderly
  <2> QED
    BY <2>1, <2>2 DEF Late
<1>2. i < Len(b) => b[i].second < b[Len(b)].second /\ Late(h, b[Len(b)].second)
  <2>1. Len(b) \in 1 .. Len(b)
    OBVIOUS
  <2>2. b[i].second \in Nat /\ b[Len(b)].second \in Nat /\ h.set_back \in Nat
    BY <2>1, BucketAt, SecondsAreNat DEF History
  <2> QED
    BY <2>1, <2>2 DEF Orderly, Late
<1>3. Len(b) \in 1 .. Len(b) /\ i \in Nat /\ i <= Len(b) /\ now \in Nat
  BY SecondsAreNat
<1> QED
  BY <1>1, <1>2, <1>3

\* A batch keeps the buckets in order.
LEMMA AddedOrderly ==
  ASSUME NEW b \in Seq(Bucket), NEW h \in History, NEW now \in Seconds, NEW blocks \in Nat,
         Orderly(b, h, now)
  PROVE  /\ Added(b, now, blocks) \in Seq(Bucket)
         /\ Orderly(Added(b, now, blocks), Recorded(h, now, blocks), now)
<1> DEFINE a == Added(b, now, blocks)
           g == Recorded(h, now, blocks)
           n == Len(b)
<1> SUFFICES a \in Seq(Bucket) /\ Orderly(a, g, now)
  OBVIOUS
<1>1. /\ n \in Nat /\ now \in Nat /\ h.set_back \in Nat /\ oldest_second(now) <= now
      /\ \A i \in 1 .. n : b[i].second \in Nat /\ b[i].blocks \in Nat
  <2>1. now \in Nat /\ h.set_back \in Nat
    BY SecondsAreNat DEF History
  <2> QED
    BY <2>1, BucketAt, OldestSecond, SMTT(60)
<1>2. /\ g.set_back = h.set_back
      /\ \A s \in Seconds :
           g.recorded[s] = IF s = now THEN h.recorded[s] + blocks ELSE h.recorded[s]
  BY RecordedAt
<1>3. \A s : Late(g, s) <=> Late(h, s)
  BY <1>2 DEF Late
<1> HIDE DEF g
<1>4. \A i \in 1 .. n : b[i].second \in Seconds
  <2>1. /\ now <= MaxClock /\ h.set_back <= MaxClock /\ MaxClock \in Nat
        /\ \A s \in Nat : s <= MaxClock => s \in Seconds
    BY ObservabilityAssumption DEF Seconds, History
  <2>2. \A i \in 1 .. n : b[i].second <= now \/ b[i].second <= h.set_back
    BY DEF Orderly
  <2> QED
    BY <1>1, <2>1, <2>2
<1>5. CASE n > 0 /\ b[n].second = now
  <2>1. a = [b EXCEPT ![n].blocks = b[n].blocks + blocks]
    BY <1>5 DEF Added
  <2>2. b[n] \in Bucket
    BY <1>1, <1>5
  <2>3. [b[n] EXCEPT !.blocks = b[n].blocks + blocks] \in Bucket
    BY <2>2, SMTT(60) DEF Bucket
  <2>4. /\ a \in Seq(Bucket) /\ Len(a) = n
        /\ \A i \in 1 .. n : a[i].second = b[i].second
        /\ \A i \in 1 .. n :
             a[i].blocks = IF i = n THEN b[n].blocks + blocks ELSE b[i].blocks
    <3>1. /\ a \in Seq(Bucket) /\ Len(a) = n
          /\ \A i \in 1 .. n : a[i] = IF i = n THEN [b[n] EXCEPT !.blocks = b[n].blocks + blocks]
                                      ELSE b[i]
      BY <1>1, <1>5, <2>1, <2>3
    <3> HIDE DEF a
    <3> QED
      BY <2>2, <3>1 DEF Bucket
  <2> HIDE DEF a
  <2>5. \A i \in 1 .. n : a[i].second <= now \/ a[i].second <= g.set_back
    BY <1>2, <2>4 DEF Orderly
  <2>6. \A i, j \in 1 .. n : i < j /\ Late(g, a[i].second) => a[i].second < a[j].second
    BY <1>3, <2>4 DEF Orderly
  <2>7. ASSUME NEW i \in 1 .. n, Late(g, a[i].second)
        PROVE  a[i].blocks = g.recorded[a[i].second]
    <3>1. Late(h, b[i].second) /\ b[i].blocks = h.recorded[b[i].second]
      BY <1>3, <2>4, <2>7 DEF Orderly
    <3>2. i # n => b[i].second < now
      BY <1>1, <3>1, LateBuckets
    <3>3. CASE i = n
      <4>1. a[i].second = now /\ a[i].blocks = h.recorded[now] + blocks
        BY <1>5, <2>4, <3>1, <3>3
      <4> QED
        BY <1>2, <4>1
    <3>4. CASE i # n
      <4>1. a[i].second = b[i].second /\ a[i].blocks = b[i].blocks
        BY <2>4, <3>4
      <4>2. b[i].second # now /\ b[i].second \in Seconds
        BY <1>1, <1>4, <3>2, <3>4
      <4> QED
        BY <1>2, <3>1, <4>1, <4>2
    <3> QED
      BY <3>3, <3>4
  <2>8. ASSUME NEW s \in Seconds, Late(g, s), g.recorded[s] > 0, s >= oldest_second(now)
        PROVE  \E i \in 1 .. n : a[i].second = s
    <3>1. CASE s = now
      BY <1>1, <1>5, <2>4, <3>1
    <3>2. CASE s # now
      BY <1>2, <1>3, <2>4, <2>8, <3>2 DEF Orderly
    <3> QED
      BY <3>1, <3>2
  <2> QED
    BY <2>4, <2>5, <2>6, <2>7, <2>8 DEF Orderly
<1>6. CASE ~(n > 0 /\ b[n].second = now)
  <2>1. a = Append(b, [second |-> now, blocks |-> blocks])
    BY <1>6 DEF Added
  <2>2. [second |-> now, blocks |-> blocks] \in Bucket
    BY <1>1 DEF Bucket
  <2>3. /\ a \in Seq(Bucket) /\ Len(a) = n + 1
        /\ \A i \in 1 .. n : a[i] = b[i]
        /\ a[n + 1].second = now /\ a[n + 1].blocks = blocks
    BY <1>1, <2>1, <2>2
  <2> HIDE DEF a
  <2>4. \A i \in 1 .. n : Late(h, b[i].second) => b[i].second < now
    BY <1>1, <1>6, LateBuckets
  <2>5. \A i \in 1 .. n + 1 : a[i].second <= now \/ a[i].second <= g.set_back
    BY <1>1, <1>2, <2>3 DEF Orderly
  <2>6. ASSUME NEW i \in 1 .. n + 1, NEW j \in 1 .. n + 1, i < j, Late(g, a[i].second)
        PROVE  a[i].second < a[j].second
    <3>1. i \in 1 .. n /\ Late(h, b[i].second)
      BY <1>1, <1>3, <2>3, <2>6
    <3>2. CASE j \in 1 .. n
      BY <2>3, <2>6, <3>1, <3>2 DEF Orderly
    <3>3. CASE j = n + 1
      BY <2>3, <2>4, <3>1, <3>3
    <3> QED
      BY <1>1, <3>2, <3>3
  <2>7. ASSUME NEW i \in 1 .. n + 1, Late(g, a[i].second)
        PROVE  a[i].blocks = g.recorded[a[i].second]
    <3>1. CASE i \in 1 .. n
      <4>1. Late(h, b[i].second) /\ b[i].blocks = h.recorded[b[i].second]
        BY <1>3, <2>3, <2>7, <3>1 DEF Orderly
      <4>2. b[i].second # now /\ b[i].second \in Seconds
        BY <1>1, <1>4, <2>4, <3>1, <4>1
      <4> QED
        BY <1>2, <2>3, <3>1, <4>1, <4>2
    <3>2. CASE i = n + 1
      <4>1. Late(h, now)
        BY <1>3, <2>3, <2>7, <3>2
      <4>2. ~(h.recorded[now] > 0)
        <5>1. SUFFICES ASSUME h.recorded[now] > 0 PROVE FALSE
          OBVIOUS
        <5>2. PICK k \in 1 .. n : b[k].second = now
          BY <1>1, <4>1, <5>1 DEF Orderly
        <5> QED
          BY <1>1, <2>4, <4>1, <5>2
      <4>3. h.recorded[now] = 0
        BY <4>2 DEF History
      <4> QED
        BY <1>2, <2>3, <3>2, <4>3
    <3> QED
      BY <1>1, <3>1, <3>2
  <2>8. ASSUME NEW s \in Seconds, Late(g, s), g.recorded[s] > 0, s >= oldest_second(now)
        PROVE  \E i \in 1 .. n + 1 : a[i].second = s
    <3>1. CASE s = now
      BY <1>1, <2>3, <3>1
    <3>2. CASE s # now
      BY <1>1, <1>2, <1>3, <2>3, <2>8, <3>2, SMTT(60) DEF Orderly
    <3> QED
      BY <3>1, <3>2
  <2> QED
    BY <2>3, <2>5, <2>6, <2>7, <2>8 DEF Orderly
<1> QED
  BY <1>5, <1>6

\* The batch's second is busy from now on.
LEMMA BusyAfter ==
  ASSUME NEW h \in History, NEW now \in Seconds, NEW blocks \in Nat, blocks > 0
  PROVE  Busy(Recorded(h, now, blocks)) = Busy(h) \cup {now}
<1>1. \A s \in Seconds : h.recorded[s] \in Nat
  BY DEF History
<1>2. ASSUME NEW s \in Seconds
      PROVE  Recorded(h, now, blocks).recorded[s] > 0 <=> h.recorded[s] > 0 \/ s = now
  <2>1. Recorded(h, now, blocks).recorded[s] =
          IF s = now THEN h.recorded[s] + blocks ELSE h.recorded[s]
    BY RecordedAt
  <2>2. h.recorded[s] \in Nat /\ h.recorded[s] + blocks > 0
    BY <1>1
  <2> QED
    BY <2>1, <2>2
<1> QED
  BY <1>2 DEF Busy

\* A batch is recorded.
LEMMA RecordKeeps ==
  ASSUME NEW t \in Throughput, NEW h \in History, NEW now \in Seconds, NEW blocks \in Nat,
         blocks > 0, Orderly(t.buckets, h, now), Begun(t.started_at_sec, h, now)
  PROVE  /\ Orderly(record(t, now, blocks).buckets, Recorded(h, now, blocks), now)
         /\ Begun(record(t, now, blocks).started_at_sec, Recorded(h, now, blocks), now)
<1> DEFINE g == Recorded(h, now, blocks)
           b == t.buckets
           a == Added(b, now, blocks)
           started == IF t.started_at_sec = {} THEN {now} ELSE t.started_at_sec
           u == [started_at_sec |-> started, buckets |-> a]
<1>1. b \in Seq(Bucket) /\ now \in Nat /\ h.set_back \in Nat
  BY SecondsAreNat DEF Throughput, History
<1>2. a \in Seq(Bucket) /\ Orderly(a, g, now)
  BY <1>1, AddedOrderly
<1>3. record(t, now, blocks) = prune(u, now)
  BY DEF record, Added
<1> HIDE DEF a
<1>4. u \in Throughput
  BY <1>2 DEF Throughput
<1>5. u.started_at_sec = started /\ u.buckets = a
  OBVIOUS
<1> HIDE DEF u, started
<1>6. PICK m : Cut(a, prune(u, now).buckets, m, now)
  BY <1>1, <1>4, <1>5, PruneCuts
<1>7. Orderly(prune(u, now).buckets, g, now)
  BY <1>1, <1>2, <1>6, CutOrderly
<1>8. prune(u, now).started_at_sec = started
  BY <1>1, <1>4, <1>5, PruneCuts
<1>9. Begun(started, g, now)
  <2>1. Busy(g) = Busy(h) \cup {now}
    BY BusyAfter
  <2>2. g.set_back = h.set_back /\ \A s : Late(g, s) <=> Late(h, s)
    BY RecordedAt DEF Late
  <2> HIDE DEF g
  <2>3. \A s \in Busy(g) : s <= now \/ s <= g.set_back
    BY <1>1, <2>1, <2>2 DEF Begun
  <2>4. CASE t.started_at_sec = {}
    <3>1. Busy(g) = {now} /\ started = {now}
      BY <2>1, <2>4 DEF Begun, started
    <3> QED
      BY <1>1, <2>3, <3>1 DEF Begun
  <2>5. CASE t.started_at_sec # {}
    <3>1. PICK s \in Busy(h) :
            t.started_at_sec = {s} /\ (Late(h, s) => \A r \in Busy(h) : s <= r)
      BY <2>5 DEF Begun
    <3>2. started = {s} /\ s \in Busy(g)
      BY <2>1, <2>5, <3>1 DEF started
    <3>3. Late(h, s) => s <= now
      <4>1. s \in Nat /\ (s <= now \/ s <= h.set_back)
        BY SecondsAreNat DEF Busy, Begun
      <4> QED
        BY <1>1, <4>1 DEF Late
    <3>4. Late(g, s) => \A r \in Busy(g) : s <= r
      BY <2>1, <2>2, <3>1, <3>3
    <3> QED
      BY <2>3, <3>2, <3>4 DEF Begun
  <2> QED
    BY <2>4, <2>5
<1> QED
  BY <1>3, <1>7, <1>8, <1>9

\* The clock goes on.
LEMMA TickKeeps ==
  ASSUME NEW b, NEW started, NEW h, NEW now \in Nat,
         Orderly(b, h, now), Begun(started, h, now), h \in History,
         b \in Seq(Bucket)
  PROVE  Orderly(b, h, now + 1) /\ Begun(started, h, now + 1)
<1>1. /\ oldest_second(now) \in Nat /\ oldest_second(now + 1) \in Nat
      /\ oldest_second(now) <= oldest_second(now + 1)
  BY WindowAssumption DEF oldest_second, saturating_sub
<1>2. \A s \in Seconds : s \in Nat
  BY SecondsAreNat
<1>3. h.set_back \in Nat
  BY <1>2 DEF History
<1>4. \A i \in 1 .. Len(b) : b[i].second <= now + 1 \/ b[i].second <= h.set_back
  <2>1. \A i \in 1 .. Len(b) : b[i].second \in Nat
    BY BucketAt
  <2> QED
    BY <1>3, <2>1 DEF Orderly
<1>5. ASSUME NEW s \in Seconds, Late(h, s), h.recorded[s] > 0, s >= oldest_second(now + 1)
      PROVE  \E i \in 1 .. Len(b) : b[i].second = s
  <2>1. s >= oldest_second(now)
    BY <1>1, <1>2, <1>5
  <2> QED
    BY <1>5, <2>1 DEF Orderly
<1>6. Orderly(b, h, now + 1)
  BY <1>4, <1>5 DEF Orderly
<1>7. \A s \in Busy(h) : s <= now + 1 \/ s <= h.set_back
  BY <1>2 DEF Busy, Begun
<1> QED
  BY <1>6, <1>7 DEF Begun

\* The clock is set back: no late second is busy.
LEMMA SetBackKeeps ==
  ASSUME NEW b \in Seq(Bucket), NEW started, NEW h \in History, NEW now \in Seconds,
         NEW before \in 0 .. now - 1,
         Orderly(b, h, now), Begun(started, h, now)
  PROVE  LET g == [h EXCEPT !.set_back = Larger(h.set_back, now)] IN
         Orderly(b, g, before) /\ Begun(started, g, before)
<1> DEFINE g == [h EXCEPT !.set_back = Larger(h.set_back, now)]
<1>1. now \in Nat /\ h.set_back \in Nat /\ now > 0
  <2>1. now \in Nat /\ h.set_back \in Nat
    BY SecondsAreNat DEF History
  <2> QED
    BY <2>1
<1>2. /\ g.set_back \in Nat /\ g.set_back >= now /\ g.set_back >= h.set_back
      /\ g.recorded = h.recorded
  BY <1>1 DEF History, Larger
<1>3. \A s \in Nat : Late(g, s) => Late(h, s) /\ s > now /\ s > h.set_back
  BY <1>1, <1>2 DEF Late
<1>4. Busy(g) = Busy(h) /\ Busy(h) \subseteq Nat
  BY <1>2, SecondsAreNat DEF Busy
<1> HIDE DEF g
<1>5. \A s \in Busy(h) : ~Late(g, s) /\ s <= g.set_back
  BY <1>1, <1>2, <1>3, <1>4 DEF Begun
<1>6. \A i \in 1 .. Len(b) : b[i].second \in Nat /\ ~Late(g, b[i].second)
                               /\ b[i].second <= g.set_back
  BY <1>1, <1>2, <1>3, BucketAt DEF Orderly
<1>7. Orderly(b, g, before)
  BY <1>2, <1>4, <1>5, <1>6 DEF Orderly, Busy
<1>8. Begun(started, g, before)
  BY <1>4, <1>5 DEF Begun
<1> QED
  BY <1>7, <1>8 DEF g

\* A batch is recorded, the first of the process or another.
LEMMA BatchRolls ==
  ASSUME TInv, WInv, history.found \in Nat, record_batch_success, UNCHANGED clock
  PROVE  WInv'
<1>1. /\ throughput \in Throughput /\ clock \in Seconds /\ untold.blocks \in Nat
      /\ history \in History /\ untold.blocks > 0
  <2>1. history \in History
    BY DEF TInv, WInv, History
  <2> QED
    BY <2>1 DEF TInv, Untold, WInv, record_batch_success
<1>2. history' = Recorded(history, clock, untold.blocks) /\ clock' = clock
  BY DEF record_batch_success, Recorded
<1>3. throughput' = record(throughput, clock, untold.blocks) /\ untold'.what = "nothing"
  BY NoBatch DEF record_batch_success
<1>4. history' \in History
  BY <1>1, <1>2, RecordedAt
<1>5. /\ Orderly(throughput'.buckets, history', clock')
      /\ Begun(throughput'.started_at_sec, history', clock')
  BY <1>1, <1>2, <1>3, RecordKeeps DEF WInv
<1> QED
  BY <1>3, <1>4, <1>5 DEF WInv, History

\* The logger prunes.
LEMMA SnapshotRolls ==
  ASSUME TInv, WInv, Snapshot
  PROVE  WInv'
<1>1. throughput \in Throughput /\ clock \in Nat /\ throughput.buckets \in Seq(Bucket)
  BY SecondsAreNat DEF TInv, Throughput
<1>2. throughput' = prune(throughput, clock) /\ UNCHANGED <<untold, clock, history>>
  BY DEF Snapshot
<1>3. PICK m : Cut(throughput.buckets, throughput'.buckets, m, clock)
  BY <1>1, <1>2, PruneCuts
<1>4. throughput'.started_at_sec = throughput.started_at_sec
  BY <1>1, <1>2, PruneCuts
<1>5. Orderly(throughput'.buckets, history, clock)
  BY <1>1, <1>3, CutOrderly DEF WInv
<1> QED
  BY <1>2, <1>4, <1>5 DEF WInv

\* The clock goes on or is set back.
LEMMA ClockRolls ==
  ASSUME TInv, WInv, history.found \in Nat, Tick \/ SetBack
  PROVE  WInv'
<1>1. /\ clock \in Seconds /\ clock \in Nat /\ throughput.buckets \in Seq(Bucket)
      /\ history \in History
  <2>1. history \in History
    BY DEF TInv, WInv, History
  <2> QED
    BY <2>1, SecondsAreNat DEF TInv, Throughput
<1>2. UNCHANGED <<throughput, untold>>
  BY DEF Tick, SetBack, observers
<1>3. CASE Tick
  <2>1. clock' = clock + 1 /\ history' = history
    BY <1>3 DEF Tick
  <2>2. /\ Orderly(throughput.buckets, history, clock + 1)
        /\ Begun(throughput.started_at_sec, history, clock + 1)
    BY <1>1, TickKeeps DEF WInv
  <2> QED
    BY <1>2, <2>1, <2>2 DEF WInv
<1>4. CASE SetBack
  <2> DEFINE g == [history EXCEPT !.set_back = Larger(history.set_back, clock)]
  <2>1. clock' \in 0 .. clock - 1 /\ history' = g
    BY <1>4 DEF SetBack
  <2>2. /\ Orderly(throughput.buckets, g, clock')
        /\ Begun(throughput.started_at_sec, g, clock')
    BY <1>1, <2>1, SetBackKeeps DEF WInv
  <2>3. g \in History
    BY <1>1 DEF History, Larger
  <2> QED
    BY <1>2, <2>1, <2>2, <2>3 DEF WInv, History
<1> QED
  BY <1>3, <1>4

\* A batch that is committed has blocks.
LEMMA CommitRolls ==
  ASSUME IInv, TInv, WInv, ObservedCommit, UNCHANGED clock
  PROVE  WInv'
<1> DEFINE p == bpayload
<1>1. /\ UNCHANGED <<throughput, history, clock>>
      /\ untold'.blocks = p.upto - p.from + 1
  BY DEF ObservedCommit, batch_blocks
<1>2. ColdCommits
  BY CommitCommits DEF ObservedCommit
<1>3. /\ p.upto \in Nat /\ p.from = Larger(db.checkpoint + 1, StartBlock) /\ p.from <= p.upto
  BY <1>2, CommitEffect, BoundsAssumption DEF Heights
<1>4. p.from \in Nat
  BY <1>3, Counts DEF Larger
<1> HIDE DEF p
<1>5. untold'.blocks > 0
  BY <1>1, <1>3, <1>4
<1> QED
  BY <1>1, <1>5 DEF WInv

\* A process that has recorded nothing.
LEMMA NothingRecorded ==
  ASSUME NEW now
  PROVE  /\ NewHistory.recorded \in [Seconds -> Nat] /\ NewHistory.set_back \in Seconds
         /\ Orderly(NewThroughput.buckets, NewHistory, now)
         /\ Begun(NewThroughput.started_at_sec, NewHistory, now)
         /\ Resuming.what # "batch"
<1>1. /\ NewHistory.recorded = [s \in Seconds |-> 0] /\ NewHistory.set_back = 0
      /\ NewThroughput.buckets = <<>> /\ NewThroughput.started_at_sec = {}
  BY DEF NewHistory, NewThroughput
<1>2. 0 \in Seconds
  BY ObservabilityAssumption DEF Seconds
<1>3. Busy(NewHistory) = {}
  BY <1>1 DEF Busy
<1>4. Orderly(NewThroughput.buckets, NewHistory, now)
  BY <1>1, <1>3 DEF Orderly, Busy
<1>5. Begun(NewThroughput.started_at_sec, NewHistory, now)
  BY <1>1, <1>3 DEF Begun
<1> QED
  BY <1>1, <1>2, <1>4, <1>5, NoBatch

\* Every other step leaves the buckets and what was recorded alone.
LEMMA WindowStep ==
  ASSUME IInv, TInv, AInv, WInv, [ObservabilityNext]_observabilityVars
  PROVE  WInv'
<1>1. CASE ObservedRestart
  BY <1>1, NothingRecorded DEF ObservedRestart, NewProcess, WInv
<1>2. CASE record_checkpoint_resume /\ UNCHANGED clock
  <2>1. /\ UNCHANGED <<throughput, clock>> /\ untold'.what = "nothing"
        /\ history'.recorded = history.recorded /\ history'.set_back = history.set_back
    BY <1>2, NoBatch DEF record_checkpoint_resume, TInv
  <2> QED
    BY <2>1 DEF WInv, Orderly, Begun, Busy, Late
<1>3. CASE (record_batch_success \/ ObservedCommit) /\ UNCHANGED clock
  BY <1>3, BatchRolls, CommitRolls DEF AInv
<1>4. CASE Snapshot \/ Tick \/ SetBack
  BY <1>4, SnapshotRolls, ClockRolls DEF AInv
<1>5. CASE UNCHANGED <<throughput, history, clock, untold>>
  BY <1>5 DEF WInv
<1>6. \/ ObservedRestart \/ Snapshot \/ Tick \/ SetBack
      \/ (record_checkpoint_resume \/ record_batch_success \/ ObservedCommit) /\ UNCHANGED clock
      \/ UNCHANGED <<throughput, history, clock, untold>>
  BY DEF ObservabilityNext, observabilityVars, observers, ObservedStep, ObservedFailure,
         ObservedQuiet, ObservedDecision, ObservedNotFound, ObservedErrs, BackfillNotFound,
         BackfillErrs, RpcRetry, RpcExhausted
<1> QED
  BY <1>1, <1>2, <1>3, <1>4, <1>5, <1>6

\* An interval of seconds.
LEMMA SecondsBetween ==
  ASSUME NEW a \in Nat, NEW b \in Nat
  PROVE  /\ IsFiniteSet(a .. b)
         /\ Cardinality(a .. b) = IF a > b THEN 0 ELSE b - a + 1
<1>1. a \in Int /\ b \in Int
  OBVIOUS
<1> QED
  BY <1>1, FS_Interval

\* The window.
LEMMA WindowSize ==
  ASSUME NEW now \in Nat
  PROVE  Cardinality(oldest_second(now) .. now) =
           IF now >= window_secs - 1 THEN window_secs ELSE now + 1
<1>1. oldest_second(now) \in Nat /\ oldest_second(now) <= now
  BY OldestSecond
<1>2. Cardinality(oldest_second(now) .. now) = now - oldest_second(now) + 1
  BY <1>1, SecondsBetween
<1>3. oldest_second(now) = IF now >= window_secs - 1 THEN now - (window_secs - 1) ELSE 0
  BY DEF oldest_second, saturating_sub
<1> QED
  BY <1>2, <1>3, WindowAssumption

\* Buckets with what was recorded, in the order of their seconds, have as many units as the
\* seconds they are for, and are no more than them.
LEMMA SameUnits ==
  ASSUME NEW c \in Seq(Bucket), NEW f, NEW W, IsFiniteSet(W), \A s \in W : f[s] \in Nat,
         \A i \in 1 .. Len(c) : c[i].second \in W /\ c[i].blocks = f[c[i].second],
         \A i, j \in 1 .. Len(c) : i < j => c[i].second < c[j].second,
         \A s \in W : f[s] > 0 => \E i \in 1 .. Len(c) : c[i].second = s
  PROVE  /\ Cardinality(Units(BlocksOf(c), 1 .. Len(c))) = Cardinality(Units(f, W))
         /\ Len(c) <= Cardinality(W)
<1> DEFINE n == Len(c)
           A == Units(BlocksOf(c), 1 .. n)
           B == Units(f, W)
           M == [u \in A |-> <<c[u[1]].second, u[2]>>]
<1>1. n \in Nat /\ \A i \in 1 .. n : c[i].second \in Nat /\ BlocksOf(c)[i] = c[i].blocks
  BY BucketAt DEF BlocksOf
<1>2. \A u : u \in A <=> \E i \in 1 .. n : \E k \in 1 .. c[i].blocks : u = <<i, k>>
  BY <1>1 DEF Units
<1>3. \A u : u \in B <=> \E s \in W : \E k \in 1 .. f[s] : u = <<s, k>>
  BY DEF Units
<1>4. \A i, j \in 1 .. n : c[i].second = c[j].second => i = j
  <2> SUFFICES ASSUME NEW i \in 1 .. n, NEW j \in 1 .. n, c[i].second = c[j].second, i # j
               PROVE  FALSE
    OBVIOUS
  <2>1. i < j \/ j < i
    BY <1>1
  <2> QED
    BY <1>1, <2>1
<1> HIDE DEF A, B
<1>5. M \in [A -> B]
  <2> SUFFICES ASSUME NEW u \in A PROVE M[u] \in B
    OBVIOUS
  <2>1. PICK i \in 1 .. n : \E k \in 1 .. c[i].blocks : u = <<i, k>>
    BY <1>2
  <2> QED
    BY <1>3, <2>1
<1>6. ASSUME NEW u \in A, NEW v \in A, M[u] = M[v]
      PROVE  u = v
  <2>1. PICK i \in 1 .. n : \E k \in 1 .. c[i].blocks : u = <<i, k>>
    BY <1>2
  <2>2. PICK k : u = <<i, k>>
    BY <2>1
  <2>3. PICK j \in 1 .. n : \E l \in 1 .. c[j].blocks : v = <<j, l>>
    BY <1>2
  <2>4. PICK l : v = <<j, l>>
    BY <2>3
  <2>5. c[i].second = c[j].second /\ k = l
    BY <1>6, <2>2, <2>4
  <2> QED
    BY <1>4, <2>2, <2>4, <2>5
<1>7. ASSUME NEW v \in B
      PROVE  \E u \in A : M[u] = v
  <2>1. PICK s \in W : \E k \in 1 .. f[s] : v = <<s, k>>
    BY <1>3
  <2>2. PICK k \in 1 .. f[s] : v = <<s, k>>
    BY <2>1
  <2>3. f[s] > 0
    <3>1. f[s] \in Nat
      OBVIOUS
    <3> QED
      BY <3>1
  <2>4. PICK i \in 1 .. n : c[i].second = s
    BY <2>3
  <2>5. <<i, k>> \in A
    BY <1>2, <2>4
  <2> QED
    BY <2>2, <2>4, <2>5
<1>8. ExistsBijection(A, B)
  <2>1. M \in Bijection(A, B)
    <3> HIDE DEF M
    <3>1. M \in Injection(A, B)
      BY <1>5, <1>6 DEF Injection, IsInjective
    <3>2. M \in Surjection(A, B)
      BY <1>5, <1>7 DEF Surjection
    <3> QED
      BY <3>1, <3>2 DEF Bijection
  <2> QED
    BY <2>1 DEF ExistsBijection
<1>9. IsFiniteSet(A)
  <2>1. IsFiniteSet(1 .. n)
    <3>1. 1 \in Nat
      OBVIOUS
    <3> QED
      BY <1>1, <3>1, SecondsBetween
  <2>2. \A i \in 1 .. n : BlocksOf(c)[i] \in Nat
    BY <1>1, BucketAt
  <2> QED
    BY <2>1, <2>2, UnitsFinite DEF A
<1>10. n <= Cardinality(W)
  <2> DEFINE I == [i \in 1 .. n |-> c[i].second]
  <2>1. I \in Injection(1 .. n, W)
    <3>1. I \in [1 .. n -> W]
      OBVIOUS
    <3>2. \A i, j \in 1 .. n : I[i] = I[j] => i = j
      BY <1>4
    <3> HIDE DEF I
    <3> QED
      BY <3>1, <3>2 DEF Injection, IsInjective
  <2> HIDE DEF I
  <2>2. Cardinality(1 .. n) <= Cardinality(W)
    BY <2>1, FS_Injection
  <2>3. Cardinality(1 .. n) = n
    <3>1. Cardinality(1 .. n) = IF 1 > n THEN 0 ELSE n - 1 + 1
      BY <1>1, SecondsBetween
    <3> QED
      BY <1>1, <3>1
  <2> QED
    BY <2>2, <2>3
<1> QED
  BY <1>8, <1>9, <1>10, FS_Bijection DEF A, B

\* A window has passed since the second that the clock was set back from.
PastSetBack(h, now) == h.set_back = 0 \/ now >= h.set_back + window_secs

\* The seconds that the total is over are late, then.
LEMMA WindowIsLate ==
  ASSUME NEW h \in History, NEW now \in Nat, PastSetBack(h, now)
  PROVE  \A s \in Nat : s >= oldest_second(now) => Late(h, s)
<1>1. h.set_back \in Nat
  BY SecondsAreNat DEF History
<1> QED
  BY <1>1, WindowAssumption DEF PastSetBack, Late, oldest_second, saturating_sub

\* The buckets that prune leaves are those of the window, with what was recorded in it.
LEMMA PrunedWindow ==
  ASSUME NEW t \in Throughput, NEW h \in History, NEW now \in Seconds, PastSetBack(h, now),
         Orderly(t.buckets, h, now)
  PROVE  /\ total_blocks(prune(t, now)) = SumFunctionOnSet(h.recorded, oldest_second(now) .. now)
         /\ Len(prune(t, now).buckets) <= window_secs
<1> DEFINE b == t.buckets
           c == prune(t, now).buckets
           o == oldest_second(now)
           W == o .. now
           f == h.recorded
<1>1. now \in Nat /\ o \in Nat /\ o <= now /\ b \in Seq(Bucket)
  <2>1. now \in Nat
    BY SecondsAreNat
  <2> QED
    BY <2>1, OldestSecond DEF Throughput
<1>2. PICK m : Cut(b, c, m, now)
  BY <1>1, PruneCuts
<1>3. c \in Seq(Bucket) /\ Orderly(c, h, now) /\ prune(t, now) \in Throughput
  BY <1>1, <1>2, CutOrderly, PruneTyped DEF Cut
<1>4. \A i \in 1 .. Len(c) : c[i].second >= o
  <2>1. Len(c) > 0 => c[1].second >= o /\ c[1].second \in Nat
    <3>1. Len(b) \in Nat /\ Len(c) = Len(b) + 1 - m /\ m \in 1 .. Len(b) + 1
      BY <1>1, <1>2 DEF Cut
    <3>2. Len(c) > 0 => c[1] = b[1 + m - 1] /\ b[m].second >= o /\ m \in 1 .. Len(b)
      BY <1>2, <3>1 DEF Cut
    <3> QED
      BY <1>1, <3>1, <3>2, BucketAt
  <2>2. Len(c) > 0 => Late(h, c[1].second)
    BY <1>1, <2>1, WindowIsLate
  <2> SUFFICES ASSUME NEW i \in 1 .. Len(c) PROVE c[i].second >= o
    OBVIOUS
  <2>3. Len(c) \in Nat /\ c[i].second \in Nat
    BY <1>3, BucketAt
  <2>4. i > 1 => c[1].second < c[i].second
    BY <1>3, <2>2, <2>3 DEF Orderly
  <2> QED
    BY <1>1, <2>1, <2>3, <2>4
<1>5. \A i \in 1 .. Len(c) : c[i].second \in Nat /\ Late(h, c[i].second)
  BY <1>1, <1>3, <1>4, BucketAt, WindowIsLate
<1>6. \A i \in 1 .. Len(c) : c[i].second \in W /\ c[i].blocks = f[c[i].second]
  <2> SUFFICES ASSUME NEW i \in 1 .. Len(c)
               PROVE  c[i].second \in W /\ c[i].blocks = f[c[i].second]
    OBVIOUS
  <2>1. c[i].second <= now
    BY <1>3, <1>5, LateBuckets
  <2>2. c[i].blocks = f[c[i].second]
    BY <1>3, <1>5 DEF Orderly
  <2> QED
    BY <1>1, <1>4, <1>5, <2>1, <2>2
<1>7. \A i, j \in 1 .. Len(c) : i < j => c[i].second < c[j].second
  BY <1>3, <1>5 DEF Orderly
<1>8. W \subseteq Seconds
  <2>1. now <= MaxClock /\ MaxClock \in Nat
    BY ObservabilityAssumption DEF Seconds
  <2> QED
    BY <1>1, <2>1 DEF Seconds
<1>9. \A s \in W : f[s] \in Nat
  BY <1>8 DEF History
<1>10. \A s \in W : f[s] > 0 => \E i \in 1 .. Len(c) : c[i].second = s
  <2> SUFFICES ASSUME NEW s \in W, f[s] > 0 PROVE \E i \in 1 .. Len(c) : c[i].second = s
    OBVIOUS
  <2>1. s \in Nat /\ s >= o /\ s \in Seconds
    BY <1>1, <1>8
  <2>2. Late(h, s)
    BY <1>1, <2>1, WindowIsLate
  <2> QED
    BY <1>3, <2>1, <2>2 DEF Orderly
<1>11. IsFiniteSet(W) /\ Cardinality(W) <= window_secs
  <2>1. IsFiniteSet(W)
    BY <1>1, SecondsBetween
  <2> QED
    BY <1>1, <2>1, WindowSize, WindowAssumption
<1>12. total_blocks(prune(t, now)) = Cardinality(Units(BlocksOf(c), 1 .. Len(c)))
  BY <1>3, TotalOfBuckets
<1> HIDE DEF c, W, f, o
<1>13. SumFunctionOnSet(f, W) = Cardinality(Units(f, W))
  BY <1>9, <1>11, SumOfFunction
<1>14. /\ Cardinality(Units(BlocksOf(c), 1 .. Len(c))) = Cardinality(Units(f, W))
       /\ Len(c) <= Cardinality(W)
  BY <1>3, <1>6, <1>7, <1>9, <1>10, <1>11, SameUnits
<1>15. Len(c) <= window_secs
  <2>1. Cardinality(W) \in Nat /\ Len(c) \in Nat /\ window_secs \in Nat
    BY <1>3, <1>11, FS_CardinalityType, WindowAssumption
  <2> QED
    BY <1>11, <1>14, <2>1
<1> QED
  BY <1>12, <1>13, <1>14, <1>15 DEF c, W, f, o

\* The total is divided by the seconds of the window since the first batch.
LEMMA SecondsSinceBegun ==
  ASSUME NEW t \in Throughput, NEW h \in History, NEW now \in Seconds, PastSetBack(h, now),
         Begun(t.started_at_sec, h, now), Busy(h) # {}
  PROVE  denominator(t, now) =
           Cardinality({s \in oldest_second(now) .. now : s >= Min(Busy(h))})
<1> DEFINE o == oldest_second(now)
           first == Min(Busy(h))
<1>1. now \in Nat /\ o \in Nat /\ o <= now /\ h.set_back \in Nat
  <2>1. now \in Nat /\ h.set_back \in Nat
    BY SecondsAreNat DEF History
  <2> QED
    BY <2>1, OldestSecond
<1>2. Busy(h) \subseteq Nat
  BY SecondsAreNat DEF Busy
<1>3. first \in Busy(h) /\ \A s \in Busy(h) : first <= s
  BY <1>2, MinOf
<1>4. PICK s \in Busy(h) :
        t.started_at_sec = {s} /\ (Late(h, s) => \A r \in Busy(h) : s <= r)
  BY DEF Begun
<1>5. s \in Nat /\ first \in Nat /\ first <= s /\ (s <= now \/ s <= h.set_back)
  BY <1>2, <1>3, <1>4 DEF Begun
<1> HIDE DEF first
<1>6. denominator(t, now) = Min({window_secs} \cup {saturating_sub(now, s) + 1})
  BY <1>4 DEF denominator
<1>7. denominator(t, now) =
        IF window_secs <= saturating_sub(now, s) + 1
        THEN window_secs ELSE saturating_sub(now, s) + 1
  <2> DEFINE d == saturating_sub(now, s) + 1
             T == {window_secs} \cup {d}
  <2>1. d \in Nat /\ window_secs \in Nat
    BY <1>1, <1>5, WindowAssumption DEF saturating_sub
  <2>2. denominator(t, now) = Min(T)
    BY <1>6
  <2> HIDE DEF d
  <2>3. T \subseteq Nat /\ T # {}
    BY <2>1
  <2> HIDE DEF T
  <2>4. Min(T) \in T /\ \A n \in T : Min(T) <= n
    BY <2>3, MinOf
  <2>5. denominator(t, now) = IF window_secs <= d THEN window_secs ELSE d
    BY <2>1, <2>2, <2>4 DEF T
  <2> QED
    BY <2>5 DEF d
<1>8. o = IF now >= window_secs - 1 THEN now - (window_secs - 1) ELSE 0
  BY DEF oldest_second, saturating_sub
<1>9. CASE Late(h, s)
  <2>1. first = s /\ s <= now
    BY <1>1, <1>3, <1>4, <1>5, <1>9 DEF Late
  <2> DEFINE a == IF o >= s THEN o ELSE s
  <2>2. {r \in o .. now : r >= first} = a .. now
    BY <1>1, <1>5, <2>1
  <2>3. a \in Nat /\ a <= now
    BY <1>1, <1>5, <2>1
  <2>4. Cardinality(a .. now) = now - a + 1
    <3> HIDE DEF a
    <3>1. Cardinality(a .. now) = IF a > now THEN 0 ELSE now - a + 1
      BY <1>1, <2>3, SecondsBetween
    <3> QED
      BY <1>1, <2>3, <3>1
  <2>5. denominator(t, now) = now - a + 1
    BY <1>1, <1>5, <1>7, <1>8, <2>1, WindowAssumption DEF saturating_sub
  <2> QED
    BY <2>2, <2>4, <2>5 DEF first
<1>10. CASE ~Late(h, s)
  <2>1. s <= h.set_back /\ now >= h.set_back + window_secs
    BY <1>1, <1>5, <1>10 DEF Late, PastSetBack
  <2>2. {r \in o .. now : r >= first} = o .. now
    BY <1>1, <1>5, <1>8, <2>1, WindowAssumption
  <2>3. Cardinality(o .. now) = window_secs
    BY <1>1, <2>1, WindowSize, WindowAssumption
  <2>4. denominator(t, now) = window_secs
    BY <1>1, <1>5, <1>7, <2>1, WindowAssumption DEF saturating_sub
  <2> QED
    BY <2>2, <2>3, <2>4 DEF first
<1> QED
  BY <1>9, <1>10

\* The rolling total is what was recorded in the window, divided by the seconds of it since
\* the first batch, in at most one bucket each, whenever prune and the logger run and
\* however the clock is set, once a window has passed since it was set back.
THEOREM RollingWindowExact ==
  ASSUME StartBlock >= 1
  PROVE  ObservabilitySpec => []WindowExact
<1>1. ObservabilityInit => WInv
  BY NothingRecorded DEF ObservabilityInit, WInv
<1>2. IInv /\ TInv /\ AInv /\ WInv /\ [ObservabilityNext]_observabilityVars => WInv'
  BY WindowStep
<1>3. TInv /\ AInv /\ WInv => WindowExact
  <2> SUFFICES ASSUME TInv, AInv, WInv, PastSetBack(history, clock)
               PROVE  LET now == prune(throughput, clock)
                          window == oldest_second(clock) .. clock IN
                      /\ total_blocks(now) = SumFunctionOnSet(history.recorded, window)
                      /\ Len(now.buckets) <= window_secs
                      /\ Busy(history) # {} =>
                           denominator(now, clock) =
                             Cardinality({s \in window : s >= Min(Busy(history))})
    BY DEF WindowExact, PastSetBack, Busy, oldest_second
  <2>1. /\ throughput \in Throughput /\ clock \in Seconds /\ clock \in Nat
        /\ history \in History
    <3>1. history \in History
      BY DEF TInv, AInv, WInv, History
    <3> QED
      BY <3>1, SecondsAreNat DEF TInv
  <2>2. /\ prune(throughput, clock) \in Throughput
        /\ prune(throughput, clock).started_at_sec = throughput.started_at_sec
    BY <2>1, PruneTyped, PruneCuts
  <2> QED
    BY <2>1, <2>2, PrunedWindow, SecondsSinceBegun DEF WInv
<1> QED
  BY <1>1, <1>2, <1>3, ObservabilityInvariant, PTL DEF ObservabilitySpec
=============================================================================
