------------------------- MODULE RollingThroughput -------------------------
(***************************************************************************)
(* RollingThroughput of crates/observability: blocks per second over the   *)
(* last window_secs seconds, kept as one bucket for each second in which a *)
(* batch was recorded.  Seconds are those of the system clock, which may   *)
(* be set back.  Events are counted the same way as blocks and left out.   *)
(***************************************************************************)
EXTENDS Naturals, Sequences, SequencesExt

CONSTANT
  window_secs  \* ROLLING_WINDOW_SECS

ASSUME WindowAssumption == window_secs \in Nat \ {0}

Bucket == [second : Nat, blocks : Nat]

\* started_at_sec is None (no element) or the second of the first batch.
NewThroughput == [started_at_sec |-> {}, buckets |-> <<>>]

saturating_sub(a, b) == IF a >= b THEN a - b ELSE 0

\* Mutant: a bucket outlives the window by a second.
oldest_second_Late(now) == saturating_sub(now, window_secs)

oldest_second(now) == saturating_sub(now, window_secs - 1)

\* Buckets leave from the front, up to the first that is recent enough.
prune(t, now) ==
  LET recent == {i \in 1 .. Len(t.buckets) : t.buckets[i].second >= oldest_second(now)} IN
  [t EXCEPT !.buckets =
    SubSeq(t.buckets, Min(recent \cup {Len(t.buckets) + 1}), Len(t.buckets))]

\* Only the last bucket is looked at for the current second.
record(t, now, blocks) ==
  LET n == Len(t.buckets)
      added ==
        IF n > 0 /\ t.buckets[n].second = now
        THEN [t.buckets EXCEPT ![n].blocks = t.buckets[n].blocks + blocks]
        ELSE Append(t.buckets, [second |-> now, blocks |-> blocks]) IN
  prune([started_at_sec |-> IF t.started_at_sec = {} THEN {now} ELSE t.started_at_sec,
         buckets |-> added], now)

total_blocks(t) == FoldLeft(LAMBDA sum, bucket : sum + bucket.blocks, 0, t.buckets)

\* What the total is divided by: the window, or the seconds since the first batch.
denominator(t, now) ==
  IF t.started_at_sec = {} THEN 1
  ELSE Min({window_secs} \cup {saturating_sub(now, s) + 1 : s \in t.started_at_sec})
=============================================================================
