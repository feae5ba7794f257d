------------------------------- MODULE Chain -------------------------------
(***************************************************************************)
(* The Ethereum chain as the RPC provider shows it: the environment of the *)
(* indexer.  The provider is outside the repository; what it may do is     *)
(* taken from how crates/ingestion guards against it (reorgs of any block  *)
(* above a settled height, a head that grows by any amount, a reported     *)
(* head that moves back).                                                  *)
(*                                                                         *)
(* A chain is a record: its head and the hash of the block at each height  *)
(* (NoHash above the head).  Chains is the set of chains that can ever be  *)
(* canonical: a block tree, since a hash determines all its ancestors.     *)
(***************************************************************************)
EXTENDS Naturals

CONSTANTS
  MaxBlock,    \* bound: the greatest block number that ever exists
  Hashes,      \* block hashes
  NoHash,      \* "no such block", "no such row"
  Keys,        \* log identities: (txn_hash, log_index) pairs
  Chains,      \* the chains that can be canonical
  ReorgDepth,  \* a block this far below the head is never replaced
  MaxReorgs    \* bound: steps that are not a plain extension of the chain

Heights == 0 .. MaxBlock
HashOrNone == Hashes \cup {NoHash}

Monus(a, b) == IF a >= b THEN a - b ELSE 0
Larger(a, b) == IF a >= b THEN a ELSE b
Smaller(a, b) == IF a <= b THEN a ELSE b

ASSUME BoundsAssumption ==
  /\ MaxBlock \in Nat
  /\ ReorgDepth \in Nat
  /\ MaxReorgs \in Nat

ASSUME ChainsAssumption ==
  /\ NoHash \notin Hashes
  /\ Chains \subseteq [head : Heights, hash : [Heights -> HashOrNone]]
  /\ \A c \in Chains : \A n \in Heights : c.hash[n] # NoHash <=> n <= c.head

\* A hash names one block and through it all its ancestors.
ASSUME AncestryAssumption ==
  \A c, d \in Chains : \A n \in Heights :
    c.hash[n] = d.hash[n] /\ c.hash[n] # NoHash
      => \A m \in 0 .. n : c.hash[m] = d.hash[m]

VARIABLES
  chain,    \* the canonical chain
  settled,  \* history: the highest block ever buried ReorgDepth deep
  reorgs    \* history: how many steps were not plain extensions

chainVars == <<chain, settled, reorgs>>

Agrees(c, d, n) == \A m \in 0 .. n : c.hash[m] = d.hash[m]

ChainTypeOK ==
  /\ chain \in Chains
  /\ settled \in Heights
  /\ settled <= chain.head
  /\ reorgs \in 0 .. MaxReorgs

ChainInit ==
  /\ chain \in Chains
  /\ settled = Monus(chain.head, ReorgDepth)
  /\ reorgs = 0

MoveTo(c) ==
  /\ chain' = c
  /\ settled' = Larger(settled, Monus(c.head, ReorgDepth))

\* Blocks are appended to the chain.
Extend ==
  \E c \in Chains :
    /\ c.head > chain.head
    /\ Agrees(c, chain, chain.head)
    /\ MoveTo(c)
    /\ UNCHANGED reorgs

\* Unsettled blocks are replaced, or the reported head moves back.
Reorg ==
  \E c \in Chains :
    /\ reorgs < MaxReorgs
    /\ c.head >= settled
    /\ Agrees(c, chain, settled)
    /\ c # chain
    /\ ~(c.head > chain.head /\ Agrees(c, chain, chain.head))
    /\ MoveTo(c)
    /\ reorgs' = reorgs + 1

ChainNext == Extend \/ Reorg
=============================================================================
