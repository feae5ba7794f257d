-------------------------------- MODULE Api --------------------------------
(***************************************************************************)
(* crates/api: the two GraphQL queries, answered from the database while   *)
(* the workers of the hybrid process change it, transaction by             *)
(* transaction.  indexerStatus is five statements, each with a snapshot    *)
(* of its own; erc20Transfers is one.                                      *)
(*                                                                         *)
(* One client is modelled: it asks for the status, or reads all transfers  *)
(* that pass a filter page by page, each time from the offset it has come  *)
(* to, until a page is empty.                                              *)
(***************************************************************************)
EXTENDS IndexerTx, Integers, FiniteSets

CONSTANTS
  DEFAULT_LIMIT, MAX_LIMIT,
  LogIndex,  \* the log_index of each key
  Absent,    \* an optional argument that is not given
  Requests   \* bound: the arguments the client may use

ASSUME ApiAssumption ==
  /\ NoHash \notin Int  \* NULL is no number
  /\ DEFAULT_LIMIT \in Nat \ {0} /\ MAX_LIMIT \in Nat /\ DEFAULT_LIMIT <= MAX_LIMIT
  /\ LogIndex \in [Keys -> Nat]
  \* log_index numbers the logs of a block.
  /\ \A h \in Hashes : \A l, m \in Logs[h] : LogIndex[l.key] = LogIndex[m.key] => l.key = m.key
  /\ Requests \subseteq
       [min : Int \cup {Absent}, max : Int \cup {Absent}, keys : SUBSET Keys,
        limit : Int \cup {Absent}, offset : Int \cup {Absent}]

\* Hashes and log identities have a fixed width.
ASSUME WidthAssumption == IsFiniteSet(Hashes) /\ IsFiniteSet(Keys)

VARIABLES
  status,  \* the request for the status: statements done and what they read
  paging   \* the client's pass over the transfers

apiVars == <<status, paging>>

-----------------------------------------------------------------------------
(* indexerStatus *)

Null == NoHash

\* Mutant: COALESCE(MAX(block_number), -1), where the caller expects a NULL.
Highest_Coalesced(blocks) ==
  LET stored == {n \in Heights : blocks[n] # NoHash} IN
  IF stored = {} THEN -1 ELSE CHOOSE n \in stored : \A m \in stored : m <= n

\* MAX(block_number)
Highest(blocks) ==
  LET stored == {n \in Heights : blocks[n] # NoHash} IN
  IF stored = {} THEN Null ELSE CHOOSE n \in stored : \A m \in stored : m <= n

CountOf(blocks) == Cardinality({n \in Heights : blocks[n] # NoHash})

Fields == {"lastProcessedBlock", "latestFinalizedBlock", "latestHotBlock",
           "finalizedBlockCount", "hotBlockCount"}

\* Mutant: the checkpoint is read after the blocks.
StatusStatements_CheckpointLast ==
  <<"latestFinalizedBlock", "latestHotBlock", "finalizedBlockCount", "hotBlockCount",
    "lastProcessedBlock">>

StatusStatements ==
  <<"lastProcessedBlock", "latestFinalizedBlock", "latestHotBlock", "finalizedBlockCount",
    "hotBlockCount">>

Answer(field) ==
  CASE field = "lastProcessedBlock"   -> db.checkpoint
    [] field = "latestFinalizedBlock" -> Highest(db.cold.blocks)
    [] field = "latestHotBlock"       -> Highest(db.hot.blocks)
    [] field = "finalizedBlockCount"  -> CountOf(db.cold.blocks)
    [] field = "hotBlockCount"        -> CountOf(db.hot.blocks)

NoStatus == [step |-> 0, read |-> [f \in Fields |-> Null]]

-----------------------------------------------------------------------------
(* erc20Transfers *)

Accepted(r) ==
  /\ r.min # Absent /\ r.max # Absent => r.min <= r.max
  /\ r.limit # Absent => r.limit > 0
  /\ r.offset # Absent => r.offset >= 0

normalize_limit(limit) == IF limit = Absent THEN DEFAULT_LIMIT ELSE Smaller(limit, MAX_LIMIT)

normalize_offset(offset) == IF offset = Absent THEN 0 ELSE offset

\* What the addresses of the filter select is a set of keys.
Passes(r, n, row) ==
  /\ r.min # Absent => n >= r.min
  /\ r.max # Absent => n <= r.max
  /\ row.key \in r.keys

\* The rows of both lanes, UNION ALL.
combined_transfers(d, r) ==
  {a \in {"cold", "hot"} \X Heights \X Row :
    a[3] \in d[a[1]].transfers[a[2]] /\ Passes(r, a[2], a[3])}

\* Mutant: ORDER BY block_number alone.
Before_BlockOnly(a, b) == a[2] > b[2]

\* ORDER BY block_number DESC, log_index DESC
Before(a, b) ==
  a[2] > b[2] \/ (a[2] = b[2] /\ LogIndex[a[3].key] > LogIndex[b[3].key])

\* The sets that the first k of the rows can be: rows that tie come in any order.
First(rows, k) ==
  {S \in SUBSET rows :
    /\ Cardinality(S) = Smaller(k, Cardinality(rows))
    /\ \A a \in rows, b \in S : Before(a, b) => a \in S}

\* LIMIT and OFFSET
Pages(rows, limit, offset) ==
  UNION {{T \ S : T \in {U \in First(rows, offset + limit) : S \subseteq U}} :
          S \in First(rows, offset)}

-----------------------------------------------------------------------------
(* The client's pass: the request, the offset it has come to, the rows that were there *)
(* at its start and are neither skipped, returned nor deleted (owed), the lowest block  *)
(* it has come to, whether it is over, and whether the order of rows it has passed was   *)
(* disturbed.                                                                            *)

NoPaging == [request |-> Absent]

Bare(rows) == {<<a[2], a[3]>> : a \in rows}

\* The lowest height of the rows, if it is below low.
LowestOf(rows, low) ==
  LET heights == {low} \cup {a[2] : a \in rows} IN
  CHOOSE n \in heights : \A m \in heights : n <= m

\* Two rows of one block number that tie and are not the same: they are of two branches,
\* in the two lanes or, after a torn rollback, in one.
LanesDisagree(d) ==
  \E n \in Heights : \E r, s \in d.cold.transfers[n] \cup d.hot.transfers[n] :
    r # s /\ LogIndex[r.key] = LogIndex[s.key]

\* In how many lanes the row is.
Copies(d, n, row) == Cardinality({lane \in {"cold", "hot"} : row \in d[lane].transfers[n]})

\* A copy of a row is gone from a block the client has come to.
DeletedBehind(low) ==
  \E n \in Heights : n >= low /\
    \E row \in db.cold.transfers[n] \cup db.hot.transfers[n] :
      Copies(db', n, row) < Copies(db, n, row)

\* The transaction of a worker, seen from the client.
Observe ==
  IF paging = NoPaging \/ db' = db THEN UNCHANGED paging
  ELSE paging' =
    [paging EXCEPT
      !.owed = @ \cap Bare(combined_transfers(db', paging.request)),
      !.disturbed = @ \/ LanesDisagree(db') \/ DeletedBehind(paging.low)]

-----------------------------------------------------------------------------

ApiInit == IndexerTxInit /\ status = NoStatus /\ paging = NoPaging

ClientIdle == status.step = 0 /\ paging = NoPaging

\* The next statement of indexerStatus.
StatusStep ==
  /\ bpc # "down"
  /\ paging = NoPaging
  /\ status.step < Len(StatusStatements)
  /\ LET field == StatusStatements[status.step + 1] IN
       status' = [step |-> status.step + 1, read |-> [status.read EXCEPT ![field] = Answer(field)]]
  /\ UNCHANGED paging

StatusAnswered ==
  /\ status.step = Len(StatusStatements)
  /\ status' = NoStatus
  /\ UNCHANGED paging

TransfersBegin ==
  /\ bpc # "down"
  /\ ClientIdle
  /\ \E r \in {q \in Requests : Accepted(q)} :
       \E skipped \in First(combined_transfers(db, r), normalize_offset(r.offset)) :
         paging' = [request |-> r, offset |-> normalize_offset(r.offset),
                    owed |-> Bare(combined_transfers(db, r)) \ Bare(skipped),
                    low |-> LowestOf(skipped, MaxBlock + 1),
                    over |-> FALSE, disturbed |-> LanesDisagree(db)]
  /\ UNCHANGED status

TransfersPage ==
  /\ paging # NoPaging
  /\ ~paging.over
  /\ \E page \in Pages(combined_transfers(db, paging.request),
                       normalize_limit(paging.request.limit), paging.offset) :
       paging' = [paging EXCEPT
         !.offset = @ + Cardinality(page),
         !.owed = @ \ Bare(page),
         !.low = LowestOf(page, @),
         !.over = page = {}]
  /\ UNCHANGED status

TransfersEnd ==
  /\ paging # NoPaging
  /\ paging.over
  /\ paging' = NoPaging
  /\ UNCHANGED status

\* The server ends with the process, and its requests with it.
ServerExits ==
  /\ ExitDropsTransactions
  /\ status' = NoStatus
  /\ paging' = NoPaging

WorkerStep ==
  \/ BackfillTxLoop /\ UNCHANGED lvars
  \/ LiveTxLoop /\ UNCHANGED bvars

ApiNext ==
  \/ WorkerStep /\ Observe /\ UNCHANGED <<chainVars, status>>
  \/ (StatusStep \/ StatusAnswered \/ TransfersBegin \/ TransfersPage \/ TransfersEnd)
       /\ UNCHANGED indexerTxVars
  \/ ServerExits /\ UNCHANGED chainVars
  \/ IndexerRestart /\ UNCHANGED <<chainVars, tx, apiVars>>
  \/ ChainNext /\ UNCHANGED <<db, bvars, lvars, tx, apiVars>>

ApiSpec == ApiInit /\ [][ApiNext]_<<indexerTxVars, apiVars>>
=============================================================================
