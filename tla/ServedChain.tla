----------------------------- MODULE ServedChain -----------------------------
(***************************************************************************)
(* What the two lanes together promise whoever asks which block they have  *)
(* under a number: final blocks from First on, which stay as they are, and *)
(* recent ones, a run somewhere above them.  The run grows at its end and  *)
(* is cut at either end.  No hot lane, no cold lane, no transactions.      *)
(***************************************************************************)
EXTENDS Naturals

CONSTANTS Numbers, Hash, None, First, Batch

VARIABLES final, served

Next1 == IF final < First THEN First ELSE final + 1

Recent == {n \in Numbers : n > final /\ served[n] # None}

\* The blocks of S get a hash, the others keep theirs.
Written(S) ==
  \A n \in Numbers : IF n \in S THEN served'[n] \in Hash ELSE served'[n] = served[n]

\* The blocks of S are no longer served.
Dropped(S) ==
  final' = final /\ \A n \in Numbers : served'[n] = IF n \in S THEN None ELSE served[n]

Init == final = 0 /\ \A n \in Numbers : served[n] = None

\* The next batch is final, whether it was served before or not.
Finalize == final' \in Next1 .. Next1 + Batch - 1 /\ Written(Next1 .. final')

\* The run gets longer, or begins.
Advance ==
  /\ final' = final
  /\ \E a, b \in Numbers :
       /\ Next1 <= a /\ a <= b /\ b < a + Batch
       /\ \A n \in Recent : n < a /\ a - 1 \in Recent
       /\ Written(a .. b)

\* The chain has replaced the end of the run.
Withdraw == \E S \in SUBSET Recent : (\A m \in S, n \in Recent \ S : n < m) /\ Dropped(S)

\* The start of the run is too far below the head.
Forget == \E S \in SUBSET Recent : (\A m \in S, n \in Recent \ S : m < n) /\ Dropped(S)

Next == Finalize \/ Advance \/ Withdraw \/ Forget

Spec == Init /\ [][Next]_<<final, served>>
=============================================================================
