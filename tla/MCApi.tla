------------------------------- MODULE MCApi -------------------------------
(***************************************************************************)
(* An instance of the API over the hybrid indexer for the model checker.   *)
(***************************************************************************)
EXTENDS ApiProperties, MCIndexerTx

MCLogIndex == [k \in Keys |-> IF k = "t1" THEN 0 ELSE 1]

\* Block 2 is replaced by a longer branch.
ApiChains ==
  {Branch(MaxBlock, NoHash, "a", 0, h) : h \in 2 .. 3} \cup {Branch(MaxBlock, NoHash, "b", 1, 3)}

EveryRow == [min |-> Absent, max |-> Absent, keys |-> Keys, limit |-> Absent, offset |-> Absent]

\* All rows, one at a time; those of one transaction after the first, as many at a time
\* as the server gives at most; and requests that it refuses.
MCRequests ==
  {EveryRow,
   [EveryRow EXCEPT !.min = 1, !.max = 3, !.keys = {"t1"}, !.limit = 9, !.offset = 1],
   [EveryRow EXCEPT !.min = 2, !.max = 1],
   [EveryRow EXCEPT !.limit = 0],
   [EveryRow EXCEPT !.offset = -1]}
=============================================================================
