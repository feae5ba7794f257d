--------------------------- MODULE FinalityProofs ---------------------------
(***************************************************************************)
(* Theorems about the backfill worker when CONFIRMATION_DEPTH is at least  *)
(* as deep as the chain can reorganize: the cold lane is final.            *)
(*                                                                         *)
(* FInv adds to the inductive invariant of BackfillProofs that everything  *)
(* the worker stores and holds lies in the settled part of the chain and   *)
(* agrees with it.                                                         *)
(***************************************************************************)
EXTENDS BackfillProofs

\* Where the worker stands, relative to what is settled.
SettledInv ==
  /\ Monus(chain.head, ReorgDepth) <= settled
  /\ db.checkpoint <= settled
  /\ bpc # "rollback"
  /\ bpc \in {"reconcile", "plan"} => safe_head(blatest) <= settled

\* What it is about to store.
PayloadInv ==
  /\ bpc \in {"fetch", "logs", "validate", "commit"} =>
       /\ bpayload.upto <= settled
       /\ \A n \in Heights : bpayload.indexed_blocks[n] \in {NoHash, chain.hash[n]}
  /\ bpc \in {"validate", "commit"} =>
       \A n \in Heights : n \in bpayload.from .. bpayload.upto =>
         {r.key : r \in bpayload.transfer_records[n]} = TransferKeys(chain.hash[n])

FInv == SettledInv /\ PayloadInv /\ ColdCanonical

\* Nothing is stored, so nothing is unsettled.
LEMMA FinalInit ==
  ASSUME StartBlock >= 1, BackfillInit
  PROVE  FInv
<1>1. IInv
  BY InitInv
<1>2. db.checkpoint = 0 /\ bpc = "latest" /\ settled = Monus(chain.head, ReorgDepth)
      /\ settled \in Nat
  BY <1>1, BoundsAssumption
     DEF BackfillInit, BackfillLocalsInit, ChainInit, MigratedDatabase, IInv,
         BackfillTypeOK, ChainTypeOK, Heights
<1>3. ColdCanonical
  BY <1>2, EngineAssumption, BoundsAssumption DEF ColdCanonical, Heights
<1> QED
  BY <1>2, <1>3 DEF FInv, SettledInv, PayloadInv

\* No step of the chain changes a settled block.
LEMMA ChainKeepsSettled ==
  ASSUME ChainTypeOK, ChainNext
  PROVE  /\ settled \in Heights /\ settled' \in Heights /\ settled <= settled'
         /\ \A n \in Heights : n <= settled => chain'.hash[n] = chain.hash[n]
         /\ Monus(chain'.head, ReorgDepth) <= settled'
<1>1. \A c \in Chains : c.head \in Heights
  BY ChainsAssumption
<1>2. CASE Extend
  BY <1>1, <1>2, BoundsAssumption
     DEF ChainTypeOK, Extend, MoveTo, Agrees, Larger, Monus, Heights
<1>3. CASE Reorg
  BY <1>1, <1>3, BoundsAssumption
     DEF ChainTypeOK, Reorg, MoveTo, Agrees, Larger, Monus, Heights
<1> QED
  BY <1>2, <1>3 DEF ChainNext

\* What the worker holds is settled, and so outlives every move of the chain.
LEMMA FinalChain ==
  ASSUME IInv, FInv, ChainNext, UNCHANGED <<db, bvars>>
  PROVE  FInv'
<1>1. ChainTypeOK /\ db \in Database /\ blatest \in Heights /\ bpayload \in RangePayload
  BY DEF IInv, BackfillTypeOK
<1>2. /\ settled \in Heights /\ settled' \in Heights /\ settled <= settled'
      /\ \A n \in Heights : n <= settled => chain'.hash[n] = chain.hash[n]
      /\ Monus(chain'.head, ReorgDepth) <= settled'
  BY <1>1, ChainKeepsSettled
<1>3. UNCHANGED <<db, bpc, blatest, bpayload>>
  BY DEF bvars
<1>4. db.checkpoint \in Heights /\ safe_head(blatest) \in Nat
  BY <1>1, ConfirmationAssumption, BoundsAssumption DEF Database, safe_head, Monus, Heights
<1>5. SettledInv'
  BY <1>2, <1>3, <1>4, BoundsAssumption DEF FInv, SettledInv, safe_head, Heights
<1>6. PayloadInv'
  <2>1. ASSUME bpc \in {"fetch", "logs", "validate", "commit"}
        PROVE  /\ bpayload.upto \in Heights /\ bpayload.upto <= settled /\ bpayload.from \in Nat
               /\ \A n \in Heights :
                    n \notin bpayload.from .. bpayload.upto => bpayload.indexed_blocks[n] = NoHash
    BY <1>1, <2>1 DEF IInv, RangeInv, FInv, PayloadInv, RangePayload
  <2>2. ASSUME bpc \in {"fetch", "logs", "validate", "commit"},
               NEW n \in Heights, n \in bpayload.from .. bpayload.upto
        PROVE  n <= settled
    BY <1>2, <2>1, <2>2, BoundsAssumption DEF Heights
  <2> QED
    BY <1>2, <1>3, <2>1, <2>2, BoundsAssumption DEF FInv, PayloadInv, Heights
<1>7. ColdCanonical'
  BY <1>2, <1>3, <1>4, BoundsAssumption DEF FInv, SettledInv, ColdCanonical, Heights
<1> QED
  BY <1>5, <1>6, <1>7 DEF FInv

\* Where the worker carries nothing along and the lane stays, FInv stays.
LEMMA FinalGoTo ==
  ASSUME FInv, NEW pc \in {"latest", "down"}, BackfillGoTo(pc),
         UNCHANGED <<db, chain, settled>>
  PROVE  FInv'
BY DEF FInv, SettledInv, PayloadInv, ColdCanonical, BackfillGoTo, safe_head

\* What lies ConfirmationDepth below the head is settled.
LEMMA FinalReadLatest ==
  ASSUME IInv, FInv, ConfirmationDepth >= ReorgDepth, ReadLatest, UNCHANGED chainVars
  PROVE  FInv'
<1>1. /\ chain.head \in Nat /\ settled \in Nat /\ ReorgDepth \in Nat
      /\ ConfirmationDepth \in Nat /\ UNCHANGED <<db, chain, settled, bpayload>>
      /\ bpc = "latest" /\ bpc' \in {"reconcile", "plan"} /\ blatest' = chain.head
  BY AnswerType, ChainsAssumption, ConfirmationAssumption, BoundsAssumption
     DEF IInv, BackfillTypeOK, ChainTypeOK, Heights, ReadLatest, chainVars,
         get_latest_block_number
<1>2. safe_head(chain.head) <= Monus(chain.head, ReorgDepth)
  BY <1>1 DEF safe_head, Monus
<1>3. safe_head(chain.head) <= settled
  BY <1>1, <1>2 DEF FInv, SettledInv, safe_head, Monus
<1> QED
  BY <1>1, <1>3 DEF FInv, SettledInv, PayloadInv, ColdCanonical, safe_head

\* The revalidation loop finds every stored block canonical.
LEMMA FinalReconcile ==
  ASSUME IInv, FInv, ReconcileMatch \/ ReconcileMismatch, UNCHANGED chainVars
  PROVE  FInv'
<1>1. ~ReconcileMismatch
  BY DEF IInv, CursorInv, BackfillTypeOK, FInv, ColdCanonical, ReconcileMismatch,
         get_block_metadata
<1>2. /\ UNCHANGED <<db, chain, settled, blatest, bpayload>>
      /\ bpc = "reconcile" /\ bpc' \in {"reconcile", "plan"}
  BY <1>1 DEF ReconcileMatch, chainVars
<1> QED
  BY <1>2 DEF FInv, SettledInv, PayloadInv, ColdCanonical, safe_head

\* The planned range ends at a settled block.
LEMMA FinalPlan ==
  ASSUME IInv, FInv, Plan, UNCHANGED chainVars
  PROVE  FInv'
<1> DEFINE next == Larger(db.checkpoint + 1, StartBlock)
<1>1. /\ db.checkpoint \in Heights /\ blatest \in Heights /\ settled \in Heights
      /\ UNCHANGED <<db, chain, settled>> /\ bpc = "plan"
  BY DEF IInv, BackfillTypeOK, ChainTypeOK, Database, Plan, chainVars
<1>2. CASE next <= safe_head(blatest)
  <2>1. next \in Nat /\ safe_head(blatest) \in Heights
    BY <1>1, EngineAssumption, ConfirmationAssumption, BoundsAssumption
       DEF Larger, safe_head, Monus, Heights
  <2>2. bpc' = "fetch" /\ bpayload' = NextRange(next, safe_head(blatest))
    BY <1>2 DEF Plan
  <2> HIDE DEF next
  <2>3. /\ bpayload'.upto \in Heights /\ bpayload'.upto <= safe_head(blatest)
        /\ \A n \in Heights : bpayload'.indexed_blocks[n] = NoHash
    BY <1>2, <2>1, <2>2, NextRangeEffect
  <2>4. bpayload'.upto <= settled
    BY <1>1, <2>1, <2>3, BoundsAssumption DEF FInv, SettledInv, Heights
  <2> QED
    BY <1>1, <2>2, <2>3, <2>4 DEF FInv, SettledInv, PayloadInv, ColdCanonical
<1>3. CASE ~(next <= safe_head(blatest))
  <2>1. BackfillGoTo("latest") /\ UNCHANGED <<db, chain, settled>>
    BY <1>1, <1>3 DEF Plan
  <2> QED
    BY <2>1, FinalGoTo
<1> QED
  BY <1>2, <1>3

\* Each answer is the canonical hash, and remains so while it waits.
LEMMA FinalFetch ==
  ASSUME IInv, FInv, Fetch, UNCHANGED chainVars
  PROVE  FInv'
<1>1. PICK n \in InFlight(bpayload) : bpayload' = WithBlock(bpayload, n)
  BY DEF Fetch
<1>2. /\ bpayload \in RangePayload /\ chain \in Chains /\ bpc = "fetch"
      /\ bpc' \in {"fetch", "logs"} /\ UNCHANGED <<db, chain, settled>>
      /\ bpayload.from \in Nat /\ bpayload.upto \in Heights
  BY DEF IInv, BackfillTypeOK, ChainTypeOK, RangeInv, RangePayload, Fetch, chainVars
<1>3. n \in Heights
  BY <1>2, BoundsAssumption DEF InFlight, Heights
<1>4. /\ bpayload'.upto = bpayload.upto
      /\ \A m \in Heights :
           bpayload'.indexed_blocks[m] =
             IF m = n THEN chain.hash[n] ELSE bpayload.indexed_blocks[m]
  BY <1>1, <1>2, <1>3, WithBlockEffect DEF get_block_metadata
<1> QED
  BY <1>2, <1>4 DEF FInv, SettledInv, PayloadInv, ColdCanonical

\* The logs, asked for after every hash, are those of the same blocks.
LEMMA FinalFetchLogs ==
  ASSUME IInv, FInv, FetchLogs, UNCHANGED chainVars
  PROVE  FInv'
<1>1. /\ bpayload \in RangePayload /\ chain \in Chains
      /\ bpayload.upto \in Heights /\ AllFetched(bpayload)
      /\ UNCHANGED <<db, chain, settled>>
      /\ bpc = "logs" /\ bpc' = "validate" /\ bpayload' = WithLogs(bpayload)
  BY DEF IInv, BackfillTypeOK, ChainTypeOK, RangeInv, FetchedInv, FetchLogs, chainVars
<1> DEFINE transfers(n) == {m \in fetch_erc20_transfer_logs(n) : decode_erc20_transfer(m)}
<1>2. /\ bpayload'.from = bpayload.from /\ bpayload'.upto = bpayload.upto
      /\ bpayload'.indexed_blocks = bpayload.indexed_blocks
      /\ \A n \in Heights :
           bpayload'.transfer_records[n] =
             IF n \in bpayload.from .. bpayload.upto
             THEN {[key |-> l.key, block_hash |-> bpayload.indexed_blocks[n]] :
                     l \in transfers(n)}
             ELSE {}
  BY <1>1, WithLogsEffect
<1>3. ASSUME NEW n \in Heights, n \in bpayload.from .. bpayload.upto
      PROVE  {r.key : r \in bpayload'.transfer_records[n]} = TransferKeys(chain.hash[n])
  <2>1. chain.hash[n] # NoHash
    BY <1>1, <1>3 DEF FInv, PayloadInv, AllFetched
  <2>2. fetch_erc20_transfer_logs(n) = LogsMatching(chain.hash[n])
    BY <2>1 DEF fetch_erc20_transfer_logs
  <2> HIDE DEF transfers
  <2> DEFINE record(l) == [key |-> l.key, block_hash |-> bpayload.indexed_blocks[n]]
  <2>3. bpayload'.transfer_records[n] = {record(l) : l \in transfers(n)}
    BY <1>2, <1>3
  <2>4. \A l \in transfers(n) : record(l).key = l.key
    OBVIOUS
  <2> HIDE DEF record
  <2>5. {r.key : r \in {record(l) : l \in transfers(n)}} = {l.key : l \in transfers(n)}
    BY <2>4
  <2> QED
    BY <2>2, <2>3, <2>5 DEF transfers, TransferKeys
<1> QED
  BY <1>1, <1>2, <1>3 DEF FInv, SettledInv, PayloadInv, ColdCanonical

\* The validation before the commit lets the range through.
LEMMA FinalValidate ==
  ASSUME IInv, FInv, Validate, UNCHANGED chainVars
  PROVE  FInv'
<1>1. /\ bpc = "validate" /\ bpc' = "commit"
      /\ UNCHANGED <<db, chain, settled, blatest, bpayload>>
  BY NoConflict DEF Validate, chainVars
<1> QED
  BY <1>1 DEF FInv, SettledInv, PayloadInv, ColdCanonical, safe_head

\* What is committed is the settled part of the chain.
LEMMA FinalCommit ==
  ASSUME IInv, FInv, StartBlock >= 1, ColdCommits, UNCHANGED chainVars
  PROVE  FInv'
<1>1. /\ UNCHANGED <<chain, settled>> /\ bpc = "commit" /\ bpc' = "latest"
      /\ db.checkpoint \in Nat
  BY BoundsAssumption
     DEF IInv, BackfillTypeOK, Database, Heights, ColdCommits, BackfillGoTo, chainVars
<1>2. db'.checkpoint = bpayload.upto /\ bpayload.upto <= settled
  BY <1>1, CommitEffect DEF FInv, PayloadInv
<1>3. ColdCanonical'
  <2> SUFFICES ASSUME NEW n \in Heights, StartBlock <= n, n <= db'.checkpoint
               PROVE  /\ db'.cold.blocks[n] = chain.hash[n]
                      /\ {r.key : r \in db'.cold.transfers[n]} = TransferKeys(chain.hash[n])
    BY <1>1 DEF ColdCanonical
  <2>1. CASE n \in bpayload.from .. bpayload.upto
    <3>1. /\ db'.cold.blocks[n] = bpayload.indexed_blocks[n]
          /\ db'.cold.blocks[n] # NoHash
          /\ db'.cold.transfers[n] = bpayload.transfer_records[n]
      BY <2>1, CommitEffect, ChainsAssumption
    <3> QED
      BY <1>1, <2>1, <3>1 DEF FInv, PayloadInv
  <2>2. CASE n \notin bpayload.from .. bpayload.upto
    <3>1. n <= db.checkpoint
      BY <1>1, <1>2, <2>2, CommitEffect, EngineAssumption, BoundsAssumption
         DEF Larger, Heights
    <3> QED
      BY <2>2, <3>1, CommitEffect DEF FInv, ColdCanonical
  <2> QED
    BY <2>1, <2>2
<1> QED
  BY <1>1, <1>2, <1>3 DEF FInv, SettledInv, PayloadInv

\* The worker never comes to a rollback.
LEMMA NoRollback == FInv => ~ColdCuts
BY DEF FInv, SettledInv, ColdCuts

\* Every step preserves FInv, given IInv.
LEMMA FinalStep ==
  ASSUME IInv, FInv, StartBlock >= 1, ConfirmationDepth >= ReorgDepth, ColdNext
  PROVE  FInv'
<1>1. CASE ColdReads /\ UNCHANGED chainVars
  BY <1>1, FinalReadLatest, FinalReconcile, FinalPlan, FinalFetch, FinalFetchLogs,
     FinalValidate DEF ColdReads
<1>2. CASE ColdCommits /\ UNCHANGED chainVars
  BY <1>2, FinalCommit
<1>3. CASE ColdExits /\ UNCHANGED chainVars
  BY <1>3, FinalGoTo DEF ColdExits, chainVars
<1>4. CASE ColdSpared /\ UNCHANGED chainVars
  BY <1>4
     DEF ColdSpared, chainVars, bvars, FInv, SettledInv, PayloadInv, ColdCanonical, safe_head
<1>5. CASE ChainNext /\ UNCHANGED <<db, bvars>>
  BY <1>5, FinalChain
<1> QED
  BY <1>1, <1>2, <1>3, <1>4, <1>5, NoRollback DEF ColdNext

\* No step lowers the checkpoint.
LEMMA CheckpointGrows ==
  ASSUME IInv, FInv, ColdNext
  PROVE  db'.checkpoint >= db.checkpoint
<1>1. db.checkpoint \in Nat
  BY BoundsAssumption DEF IInv, BackfillTypeOK, Database, Heights
<1>2. CASE ColdCommits
  BY <1>1, <1>2, CommitEffect, EngineAssumption, BoundsAssumption DEF Larger, Heights
<1>3. CASE ColdReads \/ ColdExits \/ ColdSpared \/ UNCHANGED db
  BY <1>1, <1>3
     DEF ColdReads, ColdExits, ColdSpared, ReadLatest, ReconcileMatch, ReconcileMismatch, Plan,
         Fetch, FetchLogs, Validate
<1> QED
  BY <1>2, <1>3, NoRollback DEF ColdNext

\* With CONFIRMATION_DEPTH at least as deep as any reorganization, the cold lane is
\* the canonical chain at every moment: right hashes, exactly the right transfers.
THEOREM BackfillCanonical ==
  ASSUME StartBlock >= 1, ConfirmationDepth >= ReorgDepth
  PROVE  BackfillSpec => []ColdCanonical
<1>1. BackfillInit => IInv /\ FInv
  BY InitInv, FinalInit
<1>2. IInv /\ FInv /\ [BackfillNext]_backfillVars => (IInv /\ FInv)'
  BY BackfillColdNext, StepPreserves, FinalStep
<1>3. FInv => ColdCanonical
  BY DEF FInv
<1> QED
  BY <1>1, <1>2, <1>3, PTL DEF BackfillSpec

\* Under the same condition no step lowers the checkpoint: rollback_from_block is
\* never reached, and nothing finalized is taken back.
THEOREM BackfillFinal ==
  ASSUME StartBlock >= 1, ConfirmationDepth >= ReorgDepth
  PROVE  BackfillSpec => FinalizedIsFinal
<1>1. BackfillInit => IInv /\ FInv
  BY InitInv, FinalInit
<1>2. IInv /\ FInv /\ [BackfillNext]_backfillVars => (IInv /\ FInv)'
  BY BackfillColdNext, StepPreserves, FinalStep
<1>3. IInv /\ FInv /\ [BackfillNext]_backfillVars => [db'.checkpoint >= db.checkpoint]_db
  BY BackfillColdNext, CheckpointGrows
<1> QED
  BY <1>1, <1>2, <1>3, PTL DEF BackfillSpec, FinalizedIsFinal
=============================================================================
