-------------------------- MODULE MCObservability --------------------------
(***************************************************************************)
(* An instance of the observed backfill worker for the model checker.      *)
(***************************************************************************)
EXTENDS ObservabilityProperties, MCChains

\* Blocks 2 and 3 are replaced, by a branch as long or shorter.
ObservedForks == {<<"b", 1>>}
ObservedChains == {c \in Tree(MaxBlock, NoHash, ObservedForks) : c.head >= 2}
ObservedHashes == TreeHashes(MaxBlock, ObservedForks)
ObservedLogs == TreeLogs(ObservedHashes)
MCContracts == {"token", "other"}
=============================================================================
