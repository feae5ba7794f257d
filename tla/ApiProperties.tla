--------------------------- MODULE ApiProperties ---------------------------
(***************************************************************************)
(* What a client of the API may rely on.                                   *)
(***************************************************************************)
EXTENDS Api

\* A pass over the transfers is one of a request whose arguments were accepted.
ApiTypeOK ==
  /\ IndexerTxTypeOK
  /\ status \in [step : 0 .. 5, read : [Fields -> Nat \cup {Null}]]
  /\ paging = NoPaging \/
       paging \in [request : {r \in Requests : Accepted(r)}, offset : Nat,
                   owed : SUBSET (Heights \X Row), low : 0 .. MaxBlock + 1,
                   over : BOOLEAN, disturbed : BOOLEAN]

\* The five statements of indexer_status see five databases, but with reorganizations
\* no deeper than CONFIRMATION_DEPTH the answer adds up: the last processed block
\* is not above the latest finalized one, and every block up to that one is counted.
StatusAddsUp ==
  status.step = Len(StatusStatements)
    /\ status.read["lastProcessedBlock"] >= StartBlock =>
      /\ status.read["latestFinalizedBlock"] # Null
      /\ status.read["lastProcessedBlock"] <= status.read["latestFinalizedBlock"]
      /\ status.read["latestFinalizedBlock"] - StartBlock + 1 <= status.read["finalizedBlockCount"]

\* A client that pages to the end gets every transfer that was there when it began and
\* still is, although commits between two pages shift the offsets and promotions
\* move rows from one table to the other: unless rows it has passed are deleted
\* (a rollback, or a prune of a block both lanes hold) or two rows that tie are stored,
\* of two branches of the chain.
PagesMissNothing ==
  paging # NoPaging => (paging.over => paging.owed = {} \/ paging.disturbed)
=============================================================================
