------------------------------ MODULE Backfill ------------------------------
(***************************************************************************)
(* BackfillEngine::run_backfill: the worker that fills the cold lane up to *)
(* the safe head, revalidates its recent blocks against the chain and      *)
(* rolls back from the first one that differs.                             *)
(*                                                                         *)
(* Every await is a boundary between actions: the chain moves, or the      *)
(* process dies, between any two of them.  Two awaits are one action only  *)
(* where the second reads rows of the cold lane or its checkpoint, which   *)
(* nothing but this worker writes.                                         *)
(***************************************************************************)
EXTENDS RangeBuild

CONSTANT ConfirmationDepth  \* CONFIRMATION_DEPTH

ASSUME ConfirmationAssumption == ConfirmationDepth \in Nat

VARIABLES
  bpc,      \* the await the worker is at; "down" when the process is not running
  blatest,  \* latest_block
  bcursor,  \* block_number of the revalidation loop
  bend,     \* finalized_checkpoint as the revalidation loop was given it
  bpayload  \* the range being built

bvars == <<bpc, blatest, bcursor, bend, bpayload>>
backfillVars == <<chainVars, db, bvars>>

BackfillTypeOK ==
  /\ ChainTypeOK
  /\ db \in Database
  /\ bpc \in {"down", "latest", "reconcile", "rollback", "plan",
              "fetch", "logs", "validate", "commit"}
  /\ blatest \in Heights
  /\ bcursor \in Heights
  /\ bend \in Heights
  /\ bpayload \in RangePayload

BackfillLocalsInit ==
  /\ bpc = "latest"
  /\ blatest = 0
  /\ bcursor = 0
  /\ bend = 0
  /\ bpayload = NoPayload

BackfillInit ==
  /\ ChainInit
  /\ db = MigratedDatabase
  /\ BackfillLocalsInit

\* Control moves to pc with nothing carried along.
BackfillGoTo(pc) ==
  /\ bpc' = pc
  /\ blatest' = 0
  /\ bcursor' = 0
  /\ bend' = 0
  /\ bpayload' = NoPayload

\* Mutant: one confirmation too few.
safe_head_OffByOne(latest) == Monus(latest, Monus(ConfirmationDepth, 1))

safe_head(latest) == Monus(latest, ConfirmationDepth)

lookback == Larger(Larger(ReorgLookback, ConfirmationDepth), 1)

\* Mutant: the window stops one block short of the blocks a batch can add.
validation_start_OneBatch(checkpoint) ==
  Larger(Monus(checkpoint, BLOCK_BATCH_SIZE - 1), StartBlock)

\* Mutant: the window is not cut at START_BLOCK.
validation_start_Uncut(checkpoint) == Monus(checkpoint, lookback - 1)

validation_start(checkpoint) == Larger(Monus(checkpoint, lookback - 1), StartBlock)

-----------------------------------------------------------------------------
(* The loop, one action per await. *)

ReadLatest ==
  /\ bpc = "latest"
  /\ blatest' = get_latest_block_number
  /\ IF db.checkpoint >= StartBlock
     THEN /\ bpc' = "reconcile"
          /\ bcursor' = validation_start(db.checkpoint)
          /\ bend' = db.checkpoint
     ELSE /\ bpc' = "plan"
          /\ UNCHANGED <<bcursor, bend>>
  /\ UNCHANGED <<db, bpayload>>

\* The stored block is the one the chain has.
ReconcileMatch ==
  /\ bpc = "reconcile"
  /\ get_block_metadata(bcursor) # NoHash
  /\ db.cold.blocks[bcursor] = get_block_metadata(bcursor)
  /\ IF bcursor < bend
     THEN bcursor' = bcursor + 1 /\ UNCHANGED <<bpc, bend>>
     ELSE bpc' = "plan" /\ bcursor' = 0 /\ bend' = 0
  /\ UNCHANGED <<db, blatest, bpayload>>

\* Mutant: a block the provider does not have counts as replaced.
ReconcileMismatch_NotFound ==
  /\ bpc = "reconcile"
  /\ db.cold.blocks[bcursor] # get_block_metadata(bcursor)
  /\ bpc' = "rollback"
  /\ blatest' = 0
  /\ bend' = 0
  /\ UNCHANGED <<db, bcursor, bpayload>>

\* The stored block is another one, or none is stored.
ReconcileMismatch ==
  /\ bpc = "reconcile"
  /\ get_block_metadata(bcursor) # NoHash
  /\ db.cold.blocks[bcursor] # get_block_metadata(bcursor)
  /\ bpc' = "rollback"
  /\ blatest' = 0
  /\ bend' = 0
  /\ UNCHANGED <<db, bcursor, bpayload>>

Rollback ==
  /\ bpc = "rollback"
  /\ db' = rollback_from_block(db, bcursor)
  /\ BackfillGoTo("latest")

\* Past the safe head the worker sleeps and polls again.
Plan ==
  /\ bpc = "plan"
  /\ LET next == Larger(db.checkpoint + 1, StartBlock) IN
       IF next <= safe_head(blatest)
       THEN /\ bpc' = "fetch"
            /\ blatest' = 0
            /\ bpayload' = NextRange(next, safe_head(blatest))
            /\ UNCHANGED <<bcursor, bend>>
       ELSE BackfillGoTo("latest")
  /\ UNCHANGED db

Fetch ==
  /\ bpc = "fetch"
  /\ \E n \in InFlight(bpayload) :
       /\ get_block_metadata(n) # NoHash
       /\ bpayload' = WithBlock(bpayload, n)
  /\ bpc' = IF AllFetched(bpayload') THEN "logs" ELSE "fetch"
  /\ UNCHANGED <<db, blatest, bcursor, bend>>

FetchLogs ==
  /\ bpc = "logs"
  /\ bpayload' = WithLogs(bpayload)
  /\ bpc' = "validate"
  /\ UNCHANGED <<db, blatest, bcursor, bend>>

Conflicts(blocks) ==
  {n \in bpayload.from .. bpayload.upto :
    blocks[n] \notin {NoHash, bpayload.indexed_blocks[n]}}

\* A stored block that differs is rolled back and the payload dropped.
Validate ==
  /\ bpc = "validate"
  /\ IF Conflicts(db.cold.blocks) = {}
     THEN bpc' = "commit" /\ UNCHANGED <<bcursor, bpayload>>
     ELSE /\ bpc' = "rollback"
          /\ bcursor' = CHOOSE n \in Conflicts(db.cold.blocks) :
                          \A m \in Conflicts(db.cold.blocks) : n <= m
          /\ bpayload' = NoPayload
  /\ UNCHANGED <<db, blatest, bend>>

Commit ==
  /\ bpc = "commit"
  /\ db' = commit_finalized_range(db, bpayload.transfer_records,
             bpayload.indexed_blocks, bpayload.from, bpayload.upto)
  /\ BackfillGoTo("latest")

-----------------------------------------------------------------------------
(* An error ends the worker, and with it the process. *)

\* A requested block is not there: the chain became shorter.
BackfillRequests ==
  CASE bpc = "reconcile" -> {bcursor}
    [] bpc = "fetch"     -> InFlight(bpayload)
    [] OTHER             -> {}

BackfillMisses == \E n \in BackfillRequests : get_block_metadata(n) = NoHash

BackfillNotFound ==
  /\ BackfillMisses
  /\ BackfillGoTo("down")
  /\ UNCHANGED db

\* Any other error: retries are exhausted, the database fails, or the process is
\* killed.
BackfillErrs ==
  /\ bpc # "down"
  /\ ~BackfillMisses
  /\ BackfillGoTo("down")
  /\ UNCHANGED db

BackfillRestart ==
  /\ bpc = "down"
  /\ BackfillGoTo("latest")
  /\ UNCHANGED db

-----------------------------------------------------------------------------

BackfillLoop ==
  \/ ReadLatest
  \/ ReconcileMatch
  \/ ReconcileMismatch
  \/ Rollback
  \/ Plan
  \/ Fetch
  \/ FetchLogs
  \/ Validate
  \/ Commit

BackfillStep == BackfillLoop \/ BackfillNotFound \/ BackfillRestart

BackfillNext ==
  \/ (BackfillStep \/ BackfillErrs) /\ UNCHANGED chainVars
  \/ ChainNext /\ UNCHANGED <<db, bvars>>

BackfillSpec == BackfillInit /\ [][BackfillNext]_backfillVars

\* The runtime keeps polling the worker's task, every await returns, and a
\* supervisor restarts the process.
BackfillFairSpec == BackfillSpec /\ WF_backfillVars(BackfillStep /\ UNCHANGED chainVars)
=============================================================================
