----------------------------- MODULE MCBackfill -----------------------------
(***************************************************************************)
(* Instances of the backfill worker for the model checker.                 *)
(***************************************************************************)
EXTENDS BackfillProperties, MCChains

\* Two branches that leave the main one after blocks 1 and 3.
DeepForks == {<<"b", 1>>, <<"c", 3>>}
DeepChains == Tree(MaxBlock, NoHash, DeepForks)
DeepHashes == TreeHashes(MaxBlock, DeepForks)
DeepLogs == TreeLogs(DeepHashes)
MCContracts == {"token", "other"}
=============================================================================
