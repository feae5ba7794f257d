---------------------------- MODULE IndexedPrefix ----------------------------
(***************************************************************************)
(* What the cold lane promises whoever reads it, in one step per change: a *)
(* run of blocks from First up to tip, each with its hash and with rows    *)
(* that carry that hash; it grows at its end by at most one batch at a     *)
(* time and is cut back to a shorter run.  No crash, no chain, no worker.  *)
(***************************************************************************)
EXTENDS Naturals

CONSTANTS Numbers, Hash, None, First, Batch

VARIABLES tip, blocks, rows

Bare(n) == blocks[n] = None /\ rows[n] = {}

Next1 == IF tip < First THEN First ELSE tip + 1

Init == tip = 0 /\ \A n \in Numbers : Bare(n)

Append ==
  /\ tip' \in Next1 .. Next1 + Batch - 1
  /\ \A n \in Numbers :
       IF n \in Next1 .. tip'
       THEN blocks'[n] \in Hash /\ \A r \in rows'[n] : r.block_hash = blocks'[n]
       ELSE blocks'[n] = blocks[n] /\ rows'[n] = rows[n]

Truncate ==
  \E n \in First .. tip :
    /\ tip' = n - 1
    /\ \A m \in Numbers :
         IF m < n
         THEN blocks'[m] = blocks[m] /\ rows'[m] = rows[m]
         ELSE Bare(m)'

Spec == Init /\ [][Append \/ Truncate]_<<tip, blocks, rows>>
=============================================================================
