------------------------------- MODULE MCLive -------------------------------
(***************************************************************************)
(* Instances of the live worker for the model checker.                     *)
(***************************************************************************)
EXTENDS LiveProperties, MCChains

\* Two branches that leave the main one after blocks 1 and 3.
DeepForks == {<<"b", 1>>, <<"c", 3>>}
DeepChains == Tree(MaxBlock, NoHash, DeepForks)
DeepHashes == TreeHashes(MaxBlock, DeepForks)
DeepLogs == TreeLogs(DeepHashes)
MCContracts == {"token", "other"}

\* The main branch loses to a longer one and wins again by growing longer still.
FlipForks == {<<"b", 1>>}
FlipChains ==
  {Branch(MaxBlock, NoHash, "a", 0, h) : h \in {2, 5}} \cup
  {Branch(MaxBlock, NoHash, "b", 1, 3)}
FlipHashes == TreeHashes(MaxBlock, FlipForks)

\* The branches have the same two transactions, one a block, in opposite order.
FlipLogs ==
  [h \in FlipHashes |->
    CASE h \in {<<"a", 2>>, <<"b", 3>>} -> {Erc20("t1")}
      [] h \in {<<"a", 3>>, <<"b", 2>>} -> {Erc20("t2")}
      [] OTHER                         -> {}]
=============================================================================
