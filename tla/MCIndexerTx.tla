----------------------------- MODULE MCIndexerTx -----------------------------
(***************************************************************************)
(* Instances of the hybrid indexer for the model checker.                  *)
(***************************************************************************)
EXTENDS IndexerTxProperties, MCChains

\* A branch that leaves the main one after block 1, and one after block 2.
Forks == {<<"b", 1>>, <<"c", 2>>}
MCTree == Tree(MaxBlock, NoHash, Forks)
MCHashes == TreeHashes(MaxBlock, Forks)
MCLogs == TreeLogs(MCHashes)

\* Only the first of them.
OneFork == {<<"b", 1>>}
OneForkTree == Tree(MaxBlock, NoHash, OneFork)
OneForkHashes == TreeHashes(MaxBlock, OneFork)
OneForkLogs == TreeLogs(OneForkHashes)
MCContracts == {"token", "other"}
=============================================================================
