# Formal model of the Rust Ethereum indexer

TLA+ modules for the indexing engine of this repository and for what looks at it (the GraphQL API, the
metrics), TLC configurations that check them on small chains, and TLAPS proofs for every chain and
configuration. Source paths are relative to the repository.

## 1. The system

| Part | Source | State it keeps | Operations |
|---|---|---|---|
| Backfill worker | `crates/ingestion/src/lib.rs`, `run_backfill` | locals between awaits: head, cursor, payload | poll, revalidate, roll back, plan, fetch, validate, commit |
| Live worker | same file, `run_live` | locals between awaits, live start block | poll, prune, revalidate, roll back, plan, fetch, validate, commit |
| Storage | `crates/storage`, `migrations` | cold lane, hot lane (blocks and transfers), two checkpoints, partitions | five transactions of several statements, single-row reads |
| RPC client | `crates/rpc` | the attempts of each call in flight | head, block metadata, Transfer logs, retry |
| Decoder | `crates/decoder` | none | accept or refuse a log |
| Process | `indexer/src/main.rs` | mode and configuration | start, `try_join!`, exit |
| API | `crates/api/src/schema.rs` | a request in progress | `erc20Transfers`, `indexerStatus` |
| HTTP server | `crates/api/src/server.rs` | none | routes, health, metrics |
| Observability | `crates/observability` | counters, gauges, rolling window | record, snapshot |
| Provider | outside the repository | the canonical chain | extend, reorganize, lag |

The two workers share one database and one provider and talk to each other only through the database:
the backfill worker's commit deletes the hot rows it promotes, and its rollback empties the hot lane and
moves the live checkpoint. Nothing is locked between a worker's reads and its writes, and PostgreSQL runs the
transactions at READ COMMITTED: statement by statement. `main.rs` joins the
workers and the API server with `try_join!`: the first error drops the others at whatever await they
are and ends the process; a supervisor (outside the repository) starts it again. Only the tables survive: an
open transaction, a request of a client and every counter are gone.

What is hard to get right, and so what the properties are about:

* a range is built out of many answers, and the chain moves between any two of them;
* a crash at any await; a transaction that commits but whose reply is lost; one that commits and is not counted;
* reorganizations deeper than the confirmation depth, below the revalidated window;
* a head that moves back below stored blocks: *not found* must not count as *replaced*;
* two workers deleting and inserting in the same hot tables on stale plans, and between each other's statements;
* a client that reads five statements, or page after page, while both workers commit;
* metrics that are written after the fact, and a clock that is set back;
* boundaries: block 0, checkpoint 0, the first block of a range, the last of a window or of a partition.

What makes each part correct: the *backfill worker* keeps the cold lane one canonical run of blocks up to the
checkpoint and finds what was replaced; the *live worker* does the same for a window below the head; *together* they leave no
gap between the lanes and never wait for each other; *storage* changes rows, hashes and checkpoint together, in partitions that
exist; the *API* gives answers that add up and pages that miss nothing; the *metrics* account for what is stored, or
say why they do not.

`PROJECT.json` lists each hazard at its line with the properties that cover it, or why none does.

## 2. Modules

    IndexedPrefix     abstract: an append-or-truncate log of blocks (Backfill, IndexerTx implement it)
    ServedChain       abstract: final blocks and one run of recent ones (Live, IndexerTx implement it)

    Chain <- RpcClient --\
          <- Storage -----+- RangeBuild <- Backfill <- BackfillProperties <- MCBackfill
                                        \- Live     <- LiveProperties     <- MCLive
               Backfill + Live = Indexer       <- IndexerProperties
        Indexer + Transactions = IndexerTx     <- IndexerTxProperties     <- MCIndexerTx
            IndexerTx + client = Api           <- ApiProperties           <- MCApi
  Backfill + RollingThroughput = Observability <- ObservabilityProperties <- MCObservability
    RangeBuildProofs <- BackfillProofs <- FinalityProofs
    RangeBuildProofs <- LiveProofs
         FinalityProofs + LiveProofs <- IndexerTxProofs <- IndexerTxRowProofs, ApiProofs
                    BackfillProofs <- ObservabilityProofs

| Module | Stands for |
|---|---|
| `Chain` | The provider's canonical chain (external). It extends by any number of blocks, replaces unsettled blocks, or reports a lower head. `Chains` is a block tree: a hash determines its ancestors. |
| `RpcClient` | What a successful call returns at the instant it is answered; the log filter; `decode_erc20_transfer`. |
| `Storage` | The tables as one record `db`; each statement and each transaction as an operator from the database before to the database after; the partitions of a range. |
| `RangeBuild` | `build_range_payload`: requests in flight, hashes as they come in, logs put under the hash fetched for their height. |
| `Backfill` | `run_backfill`, one action per await. |
| `Live` | `run_live`, one action per await, database reads included. |
| `Indexer` | The process in hybrid mode: both workers over one database, with a shared exit and restart. |
| `Transactions` | The statements of the workers' transactions under READ COMMITTED: what each sees, locks, waits for and adds. |
| `IndexerTx` | How the two workers of `Indexer` interleave: a step for each statement on the hot lane, for each COMMIT and for each other await. Every claim about both workers is made of this module. |
| `Api` | A client of the two GraphQL queries over `IndexerTx`. |
| `RollingThroughput` | The bucketed window of the same name, pure operators. |
| `Observability` | `Backfill` with `IndexerMetrics`, the attempts of `with_retry` and a clock. |
| `IndexedPrefix` | What a reader of the cold lane can rely on, without chain or worker. |
| `ServedChain` | What a reader of both lanes can rely on: batches become final in order and stay, and above them is one run that grows at its end and is cut at either end. |
| `*Properties` | The properties, one module per component. |
| `MC*` | Small block trees, logs and requests for TLC (`MCChains` builds the trees). |
| `*Proofs` | Theorems checked by TLAPS. |

### State and actions

**Workers.** `db.cold.blocks[n]` is the hash in `indexed_blocks` for block `n` (`NoHash` if there is no row),
`db.cold.transfers[n]` the rows of `erc20_transfers` for it, of which the primary key and the block hash are
kept; `db.hot` is the other lane; `db.checkpoint` and `db.liveCheckpoint` are the two checkpoint rows.
`bpc` and `lpc` name the await a worker is suspended at, the other `b` and `l` variables are its live
locals; a local that is dead is reset, so that equal states are equal. `"down"` is a process that has exited.

One loop iteration of the backfill worker is `ReadLatest`, then `ReconcileMatch` per block of the window or
`ReconcileMismatch` and `Rollback`, then `Plan`, `Fetch` per block, `FetchLogs`, `Validate` and `Commit`; the live
worker's is `LiveReadLatest`, `LivePrune`, `LiveWindow`, `LiveReadStored`/`LiveCompare` per block (or `LiveRollback`),
`LivePlan`, `LiveFetch`, `LiveFetchLogs`, `LiveValidate` per block, `LiveCommit`. `BackfillNotFound`/`LiveNotFound` are the error for a block the
provider does not have; `BackfillErrs`/`LiveErrs` every other error (retries exhausted, database down, a kill).
A commit whose reply is lost is `Commit` followed by `BackfillErrs`.

Two awaits of the backfill worker are one action only where the second reads the cold lane or its checkpoint,
which no one else writes. In `Backfill` and `Live`, where a worker is alone with the tables, a transaction is one step and a failed one is no step; two workers
together run theirs statement by statement, whatever the depth of a reorganization. Log lines, addresses,
amounts and timestamps are left out. `hot_window_size` equals `live_start_depth`, as `main.rs` sets it.

`settled` and `reorgs` in `Chain` are history variables: the highest block ever buried `ReorgDepth` deep, and how
many steps were not plain extensions.

**Transactions.** `tx[w]` is the open transaction of worker `w`: the number of statements done, the hot rows they deleted and wrote,
whether the live checkpoint is updated. `backfill_statements` and `live_statements` list the statements of the transaction a worker is
about to run. A statement works on the rows committed when it starts, does not see the other's uncommitted inserts, and waits for rows the other has
locked; COMMIT applies what was found and written. Abstractions:

* A statement takes all its row locks at once. PostgreSQL takes them row by row; the two workers could then also meet inside two deletes of one table, where
  the order of the scan decides. The model and the proof are about the order of the statements.
* A statement that has waited runs on a fresh snapshot. This is what READ COMMITTED does for the rows waited for; `DO UPDATE` never meets an
  existing hot block while `HotBelowLiveCheckpoint` holds, which `hybrid_final` checks in the same model; with deep reorganizations, where it need
  not hold, no claim is made about what the hot lane holds.
* Statements on the cold tables, which one worker writes and no statement of the other reads, are part of COMMIT, with the partitions they need. Locks of partition DDL are left out.
* When a worker exits, the open transactions are dropped and rolled back, the other worker's included.

**API.** `StatusStep` is one of the five statements of `indexerStatus`, in the order of the code; `TransfersPage` is one call of `erc20Transfers`: filter,
`UNION ALL` of the lanes, `ORDER BY block_number DESC, log_index DESC`, limit and offset, with ties in any order. The client pages from the offset it
has come to until a page is empty. `paging.owed` holds the transfers that were stored when it began and not among the `offset` rows its request skips, that it has
not got, and that are still stored; `paging.disturbed` says that a row behind it was deleted or that two different rows that tie were stored at one height,
of two branches: one in each lane, or both in the hot lane after a torn rollback (finding 5). Parsing and formatting of
addresses is left out: a filter is the set of keys it selects.

**Metrics.** A `record_*` call that follows an await is a step of its own (`untold` is what is still to be recorded), so the process can die
between COMMIT and `record_batch_success`; `record_rollback` comes before the transaction, in the step that decides on it. `attempts[n]` counts the failed
attempts of the request in flight for block `n`; requests that are not for a block use entry 0. `calls` is a history variable that counts the same for the calls
themselves, whatever the client keeps of it, and remembers how often the call that was given up had failed. An exhausted call ends the worker at once; in the code
`.buffered` hands its error over after the answers before it, which only lets more of the range be fetched before it is dropped. `clock` is the system clock: it ticks and may be
set back, at any time. `history` remembers what the process found and recorded, for the properties.

## 3. What is checked

Every run finishes within three minutes on two workers. Chains have at most three to six blocks (`MaxBlock`), a main branch and one or two side
branches, so that a branch can win and lose; `MaxReorgs` bounds the reorganizations (two where a chain has to
go and come back), `BLOCK_BATCH_SIZE` is 2 and two requests are in flight, so that a range has an inside and an end and its
answers come out of order; the compositions `api`, `hybrid_deep` and `hybrid_torn` use batches of 1 and one request at a time. `BLOCK_PARTITION_SIZE` is 2, so that ranges cross a partition boundary.
Transactions of one branch reappear in others at the same and at other heights,
next to ERC-721 logs and logs of other contracts. These bounds let every action fire and every listed mutant fail. Crashes and restarts are
unbounded.

| Run | Question | Shows |
|---|---|---|
| `backfill_deep` | Reorganizations of any depth, fairness | `ColdContiguous`, `ColdRowsBelongToBlocks`, `RollbackJustified`; the worker implements `IndexedPrefix`; `BackfillConverges`: one rollback exposes the next, until the lane is canonical and at the safe head |
| `backfill_final` | Reorganizations within `CONFIRMATION_DEPTH` | `ColdCanonical`: right hashes and exactly the right transfers at every moment; `FinalizedIsFinal`: the checkpoint never goes down; `RowsHavePartitions` |
| `live_window` | The live worker alone, window covered by `REORG_LOOKBACK`, fairness | `HotContiguous`, `HotRowsBelongToBlocks`, `HotRollbackJustified`, `LiveConverges`; the worker alone implements `ServedChain` (`ImplementsWindow`) |
| `hybrid_final` | Both workers, statement by statement, shallow reorganizations | `NoGapBetweenLanes`, `PromotionLosesNothing`, `HotBelowLiveCheckpoint`; `NoRowOfReplacedBlock`: no hot transfer is left under the block that replaced its own; both lanes together implement `ServedChain` (`ImplementsServed`) |
| `hybrid_deep` | Both workers, statement by statement, deep reorganizations, fairness (`MaxBlock` 3, one side branch) | `NoLockCycle`; `LanesConverge`: whatever a finalized rollback tears out of a live commit, the cold lane comes to the safe head without a replaced block, and the live worker to the head |
| `api` | A client while both workers commit (`MaxBlock` 3, pages of one and two rows) | `StatusAddsUp`, `PagesMissNothing` |
| `observability` | Retries and metrics over deaths, rollbacks and a clock set back (`MaxBlock` 3, one retry, two failures per process, a window of two seconds, five seconds) | `GaugeExplained`, `GaugeCatchesUp`, `SuccessesAddUp`, `CallsGetTheirRetries`: a call that is given up has failed `RPC_MAX_RETRIES + 1` times itself; `WindowExact` |
| `backfill_genesis` | `START_BLOCK = 0` | violation, finding 1 |
| `live_stale` | Hot window longer than `REORG_LOOKBACK` | violation, finding 2 |
| `live_flip` | A branch leaves and returns | violation, finding 3 |
| `hybrid_lanes` | A block in one lane | violation, finding 4 |
| `hybrid_torn` | Statements interleaved, deep reorganizations | violation, finding 5 |

Every property of a passing run has a mutant, a small plausible change of a modelled definition (named
`..._OffByOne`, `..._NoCheckpoint` and so on, beside the definition it changes), under which TLC finds it violated.

`hybrid_final` has no rollback of the cold lane, because its reorganizations are shallow. With one, the hot lane can be torn: `rollback_from_block`
neither sees nor waits for hot rows that a live commit has inserted and not committed. `NoRowOfReplacedBlock` then fails (`hybrid_torn`, finding 5), a hot block can
stand above the live checkpoint, and it is looked at again only when the chain comes to it. So no claim is made about which hashes and rows the hot lane holds under deep
reorganizations; what is claimed there is what survives the interleaving: the cold lane's properties, `NoLockCycle`, `LanesConverge`, and `PagesMissNothing`, which the proof
extends to any depth.

`ImplementsServed` reads a block from the cold lane if it is there and from the hot lane otherwise. It is a property of shallow reorganizations: a finalized
rollback takes final blocks back, and a live commit that follows it may start above blocks that neither lane holds. No one but the backfill worker fills such a hole:
`LanesConverge` says that it does once the blocks mature.

`PagesMissNothing` has its exceptions (`disturbed`) because the code needs them: an offset counts rows, so a rollback, or a prune of a block that both
lanes hold (finding 4), moves rows towards the start past the client; rows that tie may be returned in another order by the next page. Without the exceptions TLC finds a missed transfer. Repeated rows are allowed: they are usual.

`GaugeExplained` states what `record_rollback` leaves behind: after a rollback the checkpoint gauge names a deleted block until the next batch.
`WindowExact` states how long the window is wrong after the clock was set back: until `window_secs` after the second it was set back from.

**Fairness.** The runs with a liveness property assume weak fairness of the worker's step (with the restart, without the
unspecific errors): tokio keeps polling the task, every HTTP call and query returns, and a supervisor restarts the process.
In `hybrid_deep` (`IndexerTxFairSpec`) each worker's loop, statements included, is fair by itself (the two tasks are polled separately), and so is the exit
on *not found* with the restart. The chain, the clock and the snapshot logger are under no fairness. The properties are conditional on the unspecific errors ending (`<>[][~BackfillErrs]_vars`, in `hybrid_deep` `ExitErr`, and for
`GaugeCatchesUp` the exhausted retries too), since a database
that stays down stops everything. While the head is below a stored block the worker can only fail
and restart, so the conclusions are about states with the head at or above the checkpoint.

In these runs the window revalidated (`REORG_LOOKBACK`, or the confirmation depth if that is larger) is longer than a batch, as with the defaults (24 and 10). It has to be: with
`REORG_LOOKBACK = 1` and batches of 1, TLC finds that a block of a new branch is committed after a replaced one, which is then below every window and stays. Nor does
`LanesConverge` say that the head itself is stored: a prune planned with a head that has gone back since may empty the hot lane, and the live worker waits for the
chain to grow past the live checkpoint. It says nothing of hot hashes either, which finding 5 may leave stale.

### Findings

1. `backfill_genesis` — with `START_BLOCK = 0` the migrated checkpoint 0 passes for an indexed block 0; revalidation misses its row, rolls
   back to checkpoint 0 and repeats for ever.
2. `live_stale` — a block that was replaced while the process was down, and is deeper than `REORG_LOOKBACK`, stays
   in the hot lane although the hot window (256 blocks by default) is meant to replay it.
3. `live_flip` — a log's own block hash is never compared with the hash fetched for its height: if the chain
   leaves a branch and returns between the calls, transfers of the other branch are stored under a canonical hash, and its own are missing.
4. `hybrid_lanes` — the live worker inserts blocks that are finalized already; the API's `UNION ALL` returns their transfers twice.
5. `hybrid_torn` — a finalized rollback deletes hot transfers and then hot blocks; a live commit between the two loses its blocks and keeps its transfers. The
   live worker writes the replacing block, `DO NOTHING` keeps the old rows, and they are served under it.

## 4. What is proved

TLAPS checks these for every block tree, chain length, number of reorganizations, batch size, window, set of logs and of requests
that satisfy the named assumptions of the modules: `BoundsAssumption`, `ChainsAssumption`, `AncestryAssumption`, `LogsAssumption`,
`PartitionAssumption`, `EngineAssumption`, `ConfirmationAssumption`, `LiveStartAssumption`, for the API also `ApiAssumption` (`log_index` numbers the logs
of a block) and `WidthAssumption` (hashes and log identities have a fixed width), for the metrics `ObservabilityAssumption` and `WindowAssumption`.
TLC evaluates all of them in the runs.

Two further conditions are stated in the theorems that need them. *S*: `StartBlock >= 1`; finding 1 shows that the backfill worker needs it.
*D*: `ConfirmationDepth >= ReorgDepth`, reorganizations no deeper than what counts as final; where it is absent they are of any depth.

| Theorem | Statement | Needs |
|---|---|---|
| `BackfillInvariant`, `BackfillTypeCorrect` | `BackfillSpec => []IInv`, `[]BackfillTypeOK` | S |
| `BackfillContiguous`, `BackfillRowsBelong`, `BackfillRollbackJustified` | `[]ColdContiguous`, `[]ColdRowsBelongToBlocks`, `[]RollbackJustified` | S |
| `BackfillImplementsPrefix` | `ImplementsPrefix`, the refinement of `IndexedPrefix` | S |
| `BackfillRowsHavePartitions` | `[]RowsHavePartitions`, for every `BLOCK_PARTITION_SIZE` | |
| `BackfillCanonical`, `BackfillFinal` | `[]ColdCanonical`, `FinalizedIsFinal` | S, D |
| `LiveInvariant`, `LiveTypeCorrect` | `LiveSpec => []LiveInv`, `[]LiveTypeOK` | |
| `LiveContiguous`, `LiveRowsBelong`, `LiveRollbackJustified` | `[]HotContiguous`, `[]HotRowsBelongToBlocks`, `[]HotRollbackJustified` | |
| `LiveImplementsWindow` | `ImplementsWindow`, the refinement of `ServedChain` by the live worker alone | S |
| `TransactionsOrdered`, `WorkersNeverDeadlock` | `IndexerTxSpec => []TxOrdered`, `[]NoLockCycle` | |
| `IndexerTxInvariant`, `IndexerTxTypeCorrect` | `IndexerTxSpec => []DInv`, `[]IndexerTxTypeOK` | S |
| `IndexerTxColdKept`, `IndexerTxImplementsPrefix` | the cold lane's properties and `ImplementsPrefix`, statement by statement, at any depth | S |
| `IndexerTxSettled` | `[]SInv` | S, D |
| `IndexerTxNoGap`, `IndexerTxPromotion` | `[]NoGapBetweenLanes`, `PromotionLosesNothing` | S, D |
| `IndexerTxColdCanonical`, `IndexerTxHotBelowLiveCheckpoint`, `IndexerTxRollbackJustified` | `[]ColdCanonical`, `[]HotBelowLiveCheckpoint`, no cold rollback and only justified hot ones | S, D |
| `IndexerTxNoRowOfReplacedBlock` | `[]NoRowOfReplacedBlock` | S, D |
| `IndexerTxImplementsServed` | `ImplementsServed`, the refinement of `ServedChain` by both lanes, statement by statement | S, D |
| `ObservedIsBackfill` | `ObservabilitySpec => BackfillSpec` | |
| `ObservabilityTypeCorrect`, `ObservabilityInvariant` | `[]ObservabilityTypeOK`, `[](IInv /\ TInv /\ AInv)` | S |
| `OwnRetries` | `[]CallsGetTheirRetries`, for every number of calls in flight | S |
| `GaugeIsExplained`, `SuccessesAccountFor` | `[]GaugeExplained`, `[]SuccessesAddUp` | S |
| `RollingWindowExact` | `[]WindowExact`, for every window and every way the clock is set | S |
| `ApiIsIndexer` | `ApiSpec => IndexerTxSpec` | |
| `ApiInvariant`, `ApiTypeCorrect` | `[]ApiInv`, `[]ApiTypeOK` | S |
| `PagesComplete` | `[]PagesMissNothing` | S |
| `StatusConsistent` | `[]StatusAddsUp` | S, D |

*RangeBuild.* `RangeBuildProofs` states row by row what a transaction leaves in a lane (`ColdCommitted`, `ColdCut`) and what a range gains with each answer.
The rest uses these facts and never opens the transactions again. That the partition of every row of a range is
one of those `ensure_partitions_for_range_tx` creates is integer division, which the solver knows little of (`DivBounds`, `DivMonotone`).

*Backfill.* `ColdContiguous` is not inductive: a commit extends the lane only if the range it commits follows the
checkpoint and has a hash for each of its blocks and for no other. In `IInv`, `RangeInv` says so at each await between planning and
commit, `FetchedInv` from the moment all hashes are in, and `CursorInv` keeps a rollback inside the lane. Since a range lies above
the checkpoint, where the lane is empty, the validation before the commit finds no conflict (`NoConflict`) and
`DO NOTHING` never keeps an old row (`CommitEffect`), which gives `ColdRowsBelongToBlocks`. The refinement maps `tip`, `blocks` and
`rows` to the checkpoint and the two cold tables; every action but `Commit` and `Rollback` stutters. `JInv` is for the rollbacks: before the first reorganization
everything stored or held is canonical, so none starts; after it a mismatch lasts until the second.

*Finality.* `FInv`: the head is at most `ReorgDepth` above `settled`, so the safe head, the checkpoint and every block a worker is fetching are
settled, and no step of the chain changes a settled block (`ChainKeepsSettled`). Answers given at different times therefore agree, logs are those of the fetched
hashes, no revalidation fails, and only `Commit` changes the lane.

*One proof for alone and together.* Neither worker's invariant is proved under its own steps only. `ColdNext` is what the backfill worker can meet: its own steps,
the chain's, and any step of anyone that spares the cold lane and its checkpoint (`ColdSpared`). `HotStays` is what the live worker can meet: its own steps,
the chain's, and someone who only removes hot rows (`HotThins`: a promotion). The compositions only have to show that their next-state relation is of this form
(`TxSteps`; `TxHotSteps`, which needs D: a finalized rollback beside an open live commit is of no such form).

*Live.* `HInv`: no block is above the live checkpoint, and a range being built lies above every
stored block, so that a commit never meets a row. `WindowInv`: after a prune nothing is stored below `lstart`, so that a range follows the checkpoint as long as
anything is stored. It gives `HotContiguous` alone, and `NoHole` together. `KInv` is `JInv` for the hot lane.

*Statement by statement.* `NoLockCycle` says nothing about what a transaction holds. Statement `k` of each of the five transactions is of class `k`: transfers, blocks,
checkpoint; a transaction that holds a row of class `k` has done `k` statements (`TxOrdered`). A statement waits only for rows of its own class, so of two workers that
waited for each other each would be behind the other. At any depth `DInv` carries the backfill worker's invariant, because a COMMIT of the live worker spares the cold
lane; the hot lane's invariants do not hold there (finding 5). With shallow reorganizations they do, and `SInv` says why: a backfill transaction deletes only
what it promotes and brings nothing (`BackfillHeld`), a live one deletes exactly what it prunes or rolls back and brings its range (`LiveHeld`), and every hole below the live
checkpoint is a promoted block (`NoHole(db, StartBlock .. db.checkpoint)`).

*Rows, statement by statement.* `NoRowOfReplacedBlock` needs more than `SInv`, which speaks of hot blocks only. `RowsInv`: rows lie where blocks do, none above the live checkpoint and
none in or above a range being built, so that the live worker's inserts never meet a row that `DO NOTHING` would keep; the backfill worker writes no hot row; and a hot rollback that has deleted
transfers has found all there are from its block on, because no one else inserts any. Each COMMIT therefore leaves a row only with its block, or with none.

*What both lanes serve.* The refinement of `ServedChain` takes two more facts than `SInv`. `FromStart` bounds the hot lane from below: no block, no range and no window of the live
worker reaches below `START_BLOCK`, and no range is longer than a batch. `WhatIsServed` says which row a reader gets: up to the checkpoint the cold one, because `ColdContiguous` leaves
none out, and above it the hot one, because the cold lane ends there. So only a COMMIT can be seen: that of the backfill worker is `Finalize`, whose batch follows the checkpoint and covers
what it takes from the hot lane (`BackfillHeld`); one of the live worker is `Advance`, `Withdraw` or `Forget` on what it has above the checkpoint, or a stutter if
that is nothing. That a range begins right after the run is `NoHole` with `WindowInv`: stored blocks lie below the range and reach the live checkpoint, and the range
follows that checkpoint as long as anything is stored. For the worker alone the same argument runs with nothing final.

*Metrics.* Retries and metrics are shown to change nothing of the worker, so `IInv` holds in `ObservabilitySpec` too. `TInv` types the counters and the attempts;
`CallsInv` says that what `with_retry` has counted for a call is what that call has failed, so that the attempts of a call that is given up are its own;
`AInv` keeps account between COMMIT and `record_batch_success`:
blocks stored are blocks found at the start plus those counted plus those still to be recorded, as long as no rollback was counted. Blocks stored are a cardinality, which
`ColdContiguous` turns into the difference of checkpoint and `START_BLOCK`. `WInv` is about the rolling window. A clock that is set back makes the buckets disordered, but only those at or before
the second it was set back from: later ones are in order, one per second, and hold what was recorded in that second (`Orderly`, `Begun`). When the window lies after that second, `prune`
cuts exactly the buckets before the window, since a bucket in the way at the front would be one of the disordered ones, which are old enough to go. That the total is exact then compares two folds, one over buckets and one
over seconds. What a fold computes needs an induction, and those the library states for folds take an operator as a parameter; so a sum is turned into a cardinality instead (`SumIsUnits`: as many *units*, pairs of
a position and a number up to the value there), and the units of the buckets are in bijection with those of the seconds.

*API.* The API writes nothing (`ApiIsIndexer`), so `DInv` and `FInv` are those of the workers, interleaved statement by statement. `StatusInv`: the checkpoint is read first, and with D never
lowered, so the maximum and the count read later cover it. For the pages nothing is assumed of what the hot lane holds: a deep reorganization may tear it, and then two rows that tie
may be stored, which the exception of the property names. `PagingInv` counts: before each row owed lie at least `offset` rows at the heights the client has come
to. A page removes from the owed what is among the first rows, and the counts of two `First` sets give the next offset (`WidthAssumption` makes them finite); a step of a worker adds
rows or, if it promotes, moves each row to its other lane, which is an injection of the rows ahead into the rows ahead.

**Model-checked only.** The four liveness properties (`BackfillConverges`, `LiveConverges`, `LanesConverge`, `GaugeCatchesUp`): liveness under fairness is beyond the prover. The five
violations are TLC's counterexamples. Every safety and every action property of a passing run, the refinements included, is a theorem.

## 5. What is not modelled

* Environment variables and their parsing; a restart with another configuration (`START_BLOCK` is a constant).
* The connection pool, the locks of partition DDL, the counts in `CommitStats`; the limit of bind parameters of a statement.
* The length of the backoff between attempts: time passes between any two steps.
* A provider with several nodes that disagree.
* Routing and rendering of the HTTP server, hexadecimal formatting and parsing.
* The hot lane's metrics, lags, delays, duplicates and failed blocks, histograms, the exporter and the log lines; torn reads of several atomics by a snapshot.
* `list_hot_blocks` and `list_hot_block_numbers`, which only read and have no caller.

## 6. Plan

What is left, in order of importance:

1. A restart with another `START_BLOCK`: what revalidation still reaches, and where the cold lane stops being one run.
2. A provider with two views, for the requests of one range.
3. `latestAvailableBlock`, the larger of two maxima read one after the other, as a value of `indexerStatus`.
4. Which hot blocks a torn rollback can leave stale, and for how long: a bound in terms of the live window.
