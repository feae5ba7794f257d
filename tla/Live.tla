-------------------------------- MODULE Live --------------------------------
(***************************************************************************)
(* BackfillEngine::run_live: the worker that follows the head of the chain *)
(* in the hot lane.                                                        *)
(*                                                                         *)
(* In hybrid mode the backfill worker writes the hot lane and the live     *)
(* checkpoint too, so every await of the loop, database reads included, is *)
(* an action of its own here.                                              *)
(***************************************************************************)
EXTENDS RangeBuild

CONSTANT LiveStartDepth  \* LIVE_START_DEPTH; main.rs makes hot_window_size the same

ASSUME LiveStartAssumption == LiveStartDepth \in Nat

VARIABLES
  lpc,      \* the await the worker is at; "down" when the process is not running
  llatest,  \* latest_block
  lstart,   \* live_start_block
  lcursor,  \* block_number of the revalidation or validation loop
  lend,     \* latest_block as the revalidation loop read it
  lstored,  \* stored_hash
  lpayload  \* the range being built

lvars == <<lpc, llatest, lstart, lcursor, lend, lstored, lpayload>>
liveVars == <<chainVars, db, lvars>>

LiveTypeOK ==
  /\ ChainTypeOK
  /\ db \in Database
  /\ lpc \in {"down", "latest", "prune", "window", "stored", "compare", "rollback",
              "plan", "fetch", "logs", "validate", "commit"}
  /\ llatest \in Heights
  /\ lstart \in Nat
  /\ lcursor \in Heights
  /\ lend \in Heights
  /\ lstored \in HashOrNone
  /\ lpayload \in RangePayload

LiveLocalsInit ==
  /\ lpc = "latest"
  /\ llatest = 0
  /\ lstart = 0
  /\ lcursor = 0
  /\ lend = 0
  /\ lstored = NoHash
  /\ lpayload = NoPayload

LiveInit ==
  /\ ChainInit
  /\ db = MigratedDatabase
  /\ LiveLocalsInit

\* Control moves to pc with nothing carried along.
LiveGoTo(pc) ==
  /\ lpc' = pc
  /\ llatest' = 0
  /\ lstart' = 0
  /\ lcursor' = 0
  /\ lend' = 0
  /\ lstored' = NoHash
  /\ lpayload' = NoPayload

compute_live_start_block(start, latest) ==
  LET live_start_depth == Larger(Larger(LiveStartDepth, ReorgLookback), 1)
  IN  Larger(Monus(latest, live_start_depth - 1), start)

-----------------------------------------------------------------------------
(* The loop, one action per await. *)

LiveReadLatest ==
  /\ lpc = "latest"
  /\ llatest' = get_latest_block_number
  /\ lstart' = compute_live_start_block(StartBlock, get_latest_block_number)
  /\ lpc' = "prune"
  /\ UNCHANGED <<db, lcursor, lend, lstored, lpayload>>

LivePrune ==
  /\ lpc = "prune"
  /\ db' = prune_hot_before_block(db, lstart)
  /\ lpc' = "window"
  /\ UNCHANGED <<llatest, lstart, lcursor, lend, lstored, lpayload>>

\* Mutant: the window starts one block late.
hot_validation_start_OffByOne(start, latest) ==
  Larger(compute_live_start_block(start, latest), Monus(latest, Monus(ReorgLookback, 2)))

\* The first block reconcile_hot_history looks at, given the head it reads.
hot_validation_start(start, latest) ==
  Larger(compute_live_start_block(start, latest),
         Monus(latest, Larger(ReorgLookback, 1) - 1))

\* reconcile_hot_history reads the head again.
LiveWindow ==
  /\ lpc = "window"
  /\ LET latest == get_latest_block_number
         first == hot_validation_start(lstart, latest)
     IN  IF first <= latest
         THEN lpc' = "stored" /\ lcursor' = first /\ lend' = latest
         ELSE lpc' = "plan" /\ UNCHANGED <<lcursor, lend>>
  /\ UNCHANGED <<db, llatest, lstart, lstored, lpayload>>

NextToRevalidate ==
  IF lcursor < lend
  THEN lpc' = "stored" /\ lcursor' = lcursor + 1 /\ UNCHANGED lend
  ELSE lpc' = "plan" /\ lcursor' = 0 /\ lend' = 0

LiveReadStored ==
  /\ lpc = "stored"
  /\ lstored' = db.hot.blocks[lcursor]
  /\ IF lstored' = NoHash
     THEN NextToRevalidate
     ELSE lpc' = "compare" /\ UNCHANGED <<lcursor, lend>>
  /\ UNCHANGED <<db, llatest, lstart, lpayload>>

\* Mutant: a block the provider does not have counts as replaced.
LiveCompare_NotFound ==
  /\ lpc = "compare"
  /\ lstored' = NoHash
  /\ IF lstored = get_block_metadata(lcursor)
     THEN NextToRevalidate /\ UNCHANGED <<llatest, lstart>>
     ELSE /\ lpc' = "rollback"
          /\ UNCHANGED lcursor
          /\ lend' = 0 /\ llatest' = 0 /\ lstart' = 0
  /\ UNCHANGED <<db, lpayload>>

LiveCompare ==
  /\ lpc = "compare"
  /\ get_block_metadata(lcursor) # NoHash
  /\ lstored' = NoHash
  /\ IF lstored = get_block_metadata(lcursor)
     THEN NextToRevalidate /\ UNCHANGED <<llatest, lstart>>
     ELSE /\ lpc' = "rollback"
          /\ UNCHANGED lcursor
          /\ lend' = 0 /\ llatest' = 0 /\ lstart' = 0
  /\ UNCHANGED <<db, lpayload>>

LiveRollback ==
  /\ lpc = "rollback"
  /\ db' = rollback_hot_from_block(db, lcursor)
  /\ LiveGoTo("latest")

\* At the head the worker sleeps and polls again.
LivePlan ==
  /\ lpc = "plan"
  /\ LET next == Larger(db.liveCheckpoint + 1, lstart) IN
       IF next <= llatest
       THEN /\ lpc' = "fetch"
            /\ lpayload' = NextRange(next, llatest)
            /\ llatest' = 0 /\ lstart' = 0
            /\ UNCHANGED <<lcursor, lend, lstored>>
       ELSE LiveGoTo("latest")
  /\ UNCHANGED db

LiveFetch ==
  /\ lpc = "fetch"
  /\ \E n \in InFlight(lpayload) :
       /\ get_block_metadata(n) # NoHash
       /\ lpayload' = WithBlock(lpayload, n)
  /\ lpc' = IF AllFetched(lpayload') THEN "logs" ELSE "fetch"
  /\ UNCHANGED <<db, llatest, lstart, lcursor, lend, lstored>>

LiveFetchLogs ==
  /\ lpc = "logs"
  /\ lpayload' = WithLogs(lpayload)
  /\ lpc' = "validate"
  /\ lcursor' = lpayload.from
  /\ UNCHANGED <<db, llatest, lstart, lend, lstored>>

\* process_hot_range compares the range with the stored rows, a row at a time.
LiveValidate ==
  /\ lpc = "validate"
  /\ IF db.hot.blocks[lcursor] \notin {NoHash, lpayload.indexed_blocks[lcursor]}
     THEN lpc' = "rollback" /\ lpayload' = NoPayload /\ UNCHANGED lcursor
     ELSE IF lcursor < lpayload.upto
     THEN lcursor' = lcursor + 1 /\ UNCHANGED <<lpc, lpayload>>
     ELSE lpc' = "commit" /\ lcursor' = 0 /\ UNCHANGED lpayload
  /\ UNCHANGED <<db, llatest, lstart, lend, lstored>>

LiveCommit ==
  /\ lpc = "commit"
  /\ db' = commit_hot_range(db, lpayload.transfer_records,
             lpayload.indexed_blocks, lpayload.upto)
  /\ LiveGoTo("latest")

-----------------------------------------------------------------------------
(* An error ends the worker, and with it the process. *)

LiveRequests ==
  CASE lpc = "compare" -> {lcursor}
    [] lpc = "fetch"   -> InFlight(lpayload)
    [] OTHER           -> {}

\* A requested block is not there: the chain became shorter.
LiveMisses == \E n \in LiveRequests : get_block_metadata(n) = NoHash

LiveNotFound ==
  /\ LiveMisses
  /\ LiveGoTo("down")
  /\ UNCHANGED db

\* Any other error: retries are exhausted, the database fails, or the process is
\* killed.
LiveErrs ==
  /\ lpc # "down"
  /\ ~LiveMisses
  /\ LiveGoTo("down")
  /\ UNCHANGED db

LiveRestart ==
  /\ lpc = "down"
  /\ LiveGoTo("latest")
  /\ UNCHANGED db

-----------------------------------------------------------------------------

LiveLoop ==
  \/ LiveReadLatest
  \/ LivePrune
  \/ LiveWindow
  \/ LiveReadStored
  \/ LiveCompare
  \/ LiveRollback
  \/ LivePlan
  \/ LiveFetch
  \/ LiveFetchLogs
  \/ LiveValidate
  \/ LiveCommit

LiveStep == LiveLoop \/ LiveNotFound \/ LiveRestart

LiveNext ==
  \/ (LiveStep \/ LiveErrs) /\ UNCHANGED chainVars
  \/ ChainNext /\ UNCHANGED <<db, lvars>>

LiveSpec == LiveInit /\ [][LiveNext]_liveVars

\* As for the backfill worker.
LiveFairSpec == LiveSpec /\ WF_liveVars(LiveStep /\ UNCHANGED chainVars)
=============================================================================
