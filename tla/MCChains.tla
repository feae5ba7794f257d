------------------------------ MODULE MCChains ------------------------------
(***************************************************************************)
(* A small block tree for the model checker: a main branch "a" and side    *)
(* branches that leave it after a fork block.                              *)
(***************************************************************************)
EXTENDS Naturals

\* Branch br up to block h, leaving the main branch after block fork.
Branch(max, none, br, fork, h) ==
  [head |-> h,
   hash |-> [n \in 0 .. max |->
              IF n > h THEN none ELSE IF n <= fork THEN <<"a", n>> ELSE <<br, n>>]]

\* The main branch, and for each pair of forks a branch, cut at every length.
Tree(max, none, forks) ==
  {Branch(max, none, "a", 0, h) : h \in 0 .. max} \cup
  UNION {{Branch(max, none, f[1], f[2], h) : h \in f[2] + 1 .. max} : f \in forks}

TreeHashes(max, forks) ==
  {<<"a", n>> : n \in 0 .. max} \cup UNION {{<<f[1], n>> : n \in f[2] + 1 .. max} : f \in forks}

Erc20(key)   == [key |-> key, address |-> "token", topics |-> 3, data |-> 32]
Erc721(key)  == [key |-> key, address |-> "token", topics |-> 4, data |-> 0]
Foreign(key) == [key |-> key, address |-> "other", topics |-> 3, data |-> 32]

MCKeys == {"t1", "t2"}

\* Transaction t1 is in the odd blocks of every branch, so a reorg includes it
\* again; t2 moves from the main branch's even blocks to a side branch's odd ones.
\* Other blocks hold logs that are no transfer, or not the contract's.
TreeLogs(hashes) ==
  [h \in hashes |->
    (IF h[2] % 2 = 1 THEN {Erc20("t1")} ELSE {Erc721("t1")}) \cup
    (IF (h[1] = "a") = (h[2] % 2 = 0) THEN {Erc20("t2")} ELSE {Foreign("t2")})]
=============================================================================
