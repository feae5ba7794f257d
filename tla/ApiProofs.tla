------------------------------ MODULE ApiProofs ------------------------------
(***************************************************************************)
(* Theorems about the API beside the workers, for every block tree, every  *)
(* set of requests and every interleaving of the API's statements with     *)
(* those of the workers' transactions.                                     *)
(*                                                                         *)
(* The API writes nothing: the workers' invariants are those of            *)
(* IndexerTxProofs.  StatusInv says what the statements of indexerStatus   *)
(* that are done still have to do with the database; PagingInv says that   *)
(* as many rows as the client has come past still lie before each row it   *)
(* is owed.                                                                *)
(***************************************************************************)
EXTENDS ApiProperties, IndexerTxProofs, FiniteSetTheorems

apiAll == <<indexerTxVars, apiVars>>

-----------------------------------------------------------------------------
(* The workers, with the API beside them, do what they do without it.      *)

\* A step is one of the workers, or leaves everything of theirs alone.
LEMMA ApiSteps ==
  ASSUME [ApiNext]_apiAll
  PROVE  [IndexerTxNext]_indexerTxVars
BY DEF apiAll, ApiNext, WorkerStep, ServerExits, IndexerTxNext, indexerTxVars

\* The API, its failures included, adds no behaviour to the workers and their database.
THEOREM ApiIsIndexer == ApiSpec => IndexerTxSpec
<1>1. ApiInit => IndexerTxInit
  BY DEF ApiInit
<1>2. [ApiNext]_apiAll => [IndexerTxNext]_indexerTxVars
  BY ApiSteps
<1> QED
  BY <1>1, <1>2, PTL DEF ApiSpec, IndexerTxSpec, apiAll

-----------------------------------------------------------------------------
(* indexerStatus. *)

\* What the statements done so far have read.
StatusTypeOK == status \in [step : 0 .. 5, read : [Fields -> Nat \cup {Null}]]

lastProcessed == status.read["lastProcessedBlock"]
latestFinalized == status.read["latestFinalizedBlock"]
finalizedCount == status.read["finalizedBlockCount"]

\* A checkpoint that was read has not been taken back; the highest block and the count
\* that were read after it cover it.
StatusInv ==
  /\ status.step >= 1 => lastProcessed \in Heights /\ lastProcessed <= db.checkpoint
  /\ status.step >= 2 /\ lastProcessed >= StartBlock =>
       /\ latestFinalized \in Heights
       /\ lastProcessed <= latestFinalized /\ latestFinalized <= db.checkpoint
  /\ status.step >= 4 /\ lastProcessed >= StartBlock =>
       latestFinalized - StartBlock + 1 <= finalizedCount

\* MAX and COUNT over a lane return a height, or NULL, and a number.
LEMMA AggregateTypes ==
  ASSUME NEW blocks
  PROVE  Highest(blocks) \in Heights \cup {Null} /\ CountOf(blocks) \in Nat
<1> DEFINE stored == {n \in Heights : blocks[n] # NoHash}
<1>1. stored \subseteq Heights
  OBVIOUS
<1>2. CountOf(blocks) \in Nat
  <2>1. IsFiniteSet(Heights)
    BY FS_Interval, BoundsAssumption DEF Heights
  <2> QED
    BY <1>1, <2>1, FS_Subset, FS_CardinalityType DEF CountOf
<1>3. Highest(blocks) \in Heights \cup {Null}
  <2>1. Highest(blocks) = IF stored = {} THEN Null
                          ELSE CHOOSE n \in stored : \A m \in stored : m <= n
    BY DEF Highest
  <2> HIDE DEF stored
  <2>2. stored # {} => \E n \in stored : \A m \in stored : m <= n
    BY <1>1, GreatestOf
  <2> QED
    BY <1>1, <2>1, <2>2
<1> QED
  BY <1>2, <1>3

\* Of the cold lane they return the checkpoint and its distance from START_BLOCK.
LEMMA ColdAggregates ==
  ASSUME IInv, db.checkpoint >= StartBlock
  PROVE  /\ Highest(db.cold.blocks) = db.checkpoint
         /\ CountOf(db.cold.blocks) = db.checkpoint - StartBlock + 1
<1> DEFINE stored == {n \in Heights : db.cold.blocks[n] # NoHash}
<1>1. db.checkpoint \in Heights /\ StartBlock \in Nat /\ MaxBlock \in Nat
  BY EngineAssumption, BoundsAssumption DEF IInv, BackfillTypeOK, Database
<1>2. stored = StartBlock .. db.checkpoint
  BY <1>1 DEF IInv, ColdContiguous, Heights
<1>3. Highest(db.cold.blocks) = IF stored = {} THEN Null
                                ELSE CHOOSE n \in stored : \A m \in stored : m <= n
  BY DEF Highest
<1>4. CountOf(db.cold.blocks) = Cardinality(stored)
  BY DEF CountOf
<1> HIDE DEF stored
<1>5. Highest(db.cold.blocks) = db.checkpoint
  <2>1. db.checkpoint \in stored /\ \A m \in stored : m <= db.checkpoint
    BY <1>1, <1>2 DEF Heights
  <2>2. \A n \in stored : (\A m \in stored : m <= n) => n = db.checkpoint
    BY <1>1, <1>2, <2>1 DEF Heights
  <2> QED
    BY <1>3, <2>1, <2>2
<1>6. CountOf(db.cold.blocks) = db.checkpoint - StartBlock + 1
  BY <1>1, <1>2, <1>4, FS_Interval DEF Heights
<1> QED
  BY <1>5, <1>6

\* The statement that is answered next, and where its answer goes.
LEMMA StatusStepEffect ==
  ASSUME StatusTypeOK, StatusStep
  PROVE  LET field == StatusStatements[status.step + 1] IN
           /\ status.step \in 0 .. 4 /\ status'.step = status.step + 1
           /\ field \in Fields
           /\ \A f \in Fields :
                status'.read[f] = IF f = field THEN Answer(field) ELSE status.read[f]
           /\ status' = [step |-> status.step + 1,
                         read |-> [status.read EXCEPT ![field] = Answer(field)]]
BY DEF StatusTypeOK, StatusStep, StatusStatements, Fields

\* The answers have their types.
LEMMA StatusTypeStep ==
  ASSUME IInv, StatusTypeOK, [ApiNext]_apiAll
  PROVE  StatusTypeOK'
<1>1. CASE StatusStep
  <2> DEFINE field == StatusStatements[status.step + 1]
  <2>1. /\ status.step \in 0 .. 4 /\ field \in Fields
        /\ status' = [step |-> status.step + 1,
                      read |-> [status.read EXCEPT ![field] = Answer(field)]]
    BY <1>1, StatusStepEffect
  <2> HIDE DEF field
  <2>2. db.checkpoint \in Nat
    BY BoundsAssumption DEF IInv, BackfillTypeOK, Database, Heights
  <2>3. \A f \in Fields : Answer(f) \in Nat \cup {Null}
    BY <2>2, AggregateTypes, BoundsAssumption DEF Fields, Answer, Heights
  <2> QED
    BY <2>1, <2>3 DEF StatusTypeOK
<1>2. CASE status' = NoStatus
  BY <1>2 DEF StatusTypeOK, NoStatus
<1>3. CASE UNCHANGED status
  BY <1>3 DEF StatusTypeOK
<1> QED
  BY <1>1, <1>2, <1>3
     DEF apiAll, apiVars, ApiNext, StatusAnswered, TransfersBegin, TransfersPage, TransfersEnd,
         ServerExits

\* What was read stays true of the database while it is not rolled back.
LEMMA StatusStays ==
  ASSUME IInv, StatusTypeOK, StatusInv, UNCHANGED status,
         db'.checkpoint \in Heights, db'.checkpoint >= db.checkpoint
  PROVE  StatusInv'
<1>1. db.checkpoint \in Nat /\ db'.checkpoint \in Nat /\ StartBlock \in Nat
  BY BoundsAssumption, EngineAssumption DEF IInv, BackfillTypeOK, Database, Heights
<1> QED
  BY <1>1, BoundsAssumption DEF StatusInv, lastProcessed, latestFinalized, finalizedCount, Heights

\* Each statement is answered from a database that has come at least as far.
LEMMA StatusReads ==
  ASSUME IInv, StatusTypeOK, StatusInv, StatusStep, UNCHANGED db
  PROVE  StatusInv'
<1> DEFINE field == StatusStatements[status.step + 1]
<1>1. /\ status.step \in 0 .. 4 /\ status'.step = status.step + 1
      /\ \A f \in Fields :
           status'.read[f] = IF f = field THEN Answer(field) ELSE status.read[f]
  BY StatusStepEffect
<1>2. db.checkpoint \in Heights /\ StartBlock \in Nat /\ MaxBlock \in Nat
  BY EngineAssumption, BoundsAssumption DEF IInv, BackfillTypeOK, Database
<1>3. /\ field = "lastProcessedBlock" <=> status.step = 0
      /\ field = "latestFinalizedBlock" <=> status.step = 1
      /\ field = "finalizedBlockCount" <=> status.step = 3
  BY <1>1 DEF StatusStatements
<1> HIDE DEF field
<1>4. /\ lastProcessed' = IF status.step = 0 THEN db.checkpoint ELSE lastProcessed
      /\ latestFinalized' =
           IF status.step = 1 THEN Highest(db.cold.blocks) ELSE latestFinalized
      /\ finalizedCount' = IF status.step = 3 THEN CountOf(db.cold.blocks) ELSE finalizedCount
  BY <1>1, <1>3 DEF lastProcessed, latestFinalized, finalizedCount, Fields, Answer
<1>5. CASE status.step = 0
  BY <1>1, <1>2, <1>4, <1>5 DEF StatusInv, Heights
<1>6. CASE status.step = 1
  BY <1>1, <1>2, <1>4, <1>6, ColdAggregates DEF StatusInv, Heights
<1>7. CASE status.step = 3
  BY <1>1, <1>2, <1>4, <1>7, ColdAggregates DEF StatusInv, Heights
<1>8. CASE status.step \in {2, 4}
  BY <1>1, <1>2, <1>4, <1>8 DEF StatusInv, Heights
<1> QED
  BY <1>1, <1>5, <1>6, <1>7, <1>8

\* No step of the process makes a statement's answer untrue of what comes after it.
LEMMA StatusStepKeeps ==
  ASSUME IInv, IInv', FInv, StatusTypeOK, StatusInv, ColdNext, [ApiNext]_apiAll
  PROVE  StatusInv'
<1>1. db'.checkpoint \in Heights /\ db'.checkpoint >= db.checkpoint
  BY CheckpointGrows DEF IInv, BackfillTypeOK, Database
<1>2. CASE StatusStep /\ UNCHANGED indexerTxVars
  BY <1>2, StatusReads DEF indexerTxVars, indexerVars
<1>3. CASE status' = NoStatus
  BY <1>3 DEF StatusInv, NoStatus
<1>4. CASE UNCHANGED status
  BY <1>1, <1>4, StatusStays
<1> QED
  BY <1>2, <1>3, <1>4
     DEF apiAll, apiVars, ApiNext, StatusAnswered, TransfersBegin, TransfersPage, TransfersEnd,
         ServerExits

-----------------------------------------------------------------------------
(* erc20Transfers: the operators of a page. *)

AllRows == {"cold", "hot"} \X Heights \X Row

\* There are finitely many rows.
LEMMA RowsAreFinite == IsFiniteSet(AllRows)
<1>1. IsFiniteSet(Heights)
  BY FS_Interval, BoundsAssumption DEF Heights
<1>2. IsFiniteSet(Keys \X Hashes)
  BY WidthAssumption, FS_Product
<1>3. IsFiniteSet({"cold", "hot"})
  <2>1. IsFiniteSet({"cold"}) /\ IsFiniteSet({"hot"})
    BY FS_Singleton
  <2>2. IsFiniteSet({"cold"} \cup {"hot"})
    BY <2>1, FS_Union
  <2>3. {"cold", "hot"} = {"cold"} \cup {"hot"}
    OBVIOUS
  <2> QED
    BY <2>2, <2>3
<1> DEFINE pairs == {"cold", "hot"} \X Heights
           wide == pairs \X (Keys \X Hashes)
           row(w) == <<w[1][1], w[1][2], [key |-> w[2][1], block_hash |-> w[2][2]]>>
           f == [w \in wide |-> row(w)]
<1>4. IsFiniteSet(wide)
  BY <1>1, <1>2, <1>3, FS_Product
<1>5. f \in Surjection(wide, AllRows)
  <2>1. f \in [wide -> AllRows]
    BY DEF AllRows, Row
  <2>2. ASSUME NEW a \in AllRows
        PROVE  \E w \in wide : f[w] = a
    <3>1. << <<a[1], a[2]>>, <<a[3].key, a[3].block_hash>> >> \in wide
      BY DEF AllRows, Row
    <3>2. f[<< <<a[1], a[2]>>, <<a[3].key, a[3].block_hash>> >>] = a
      BY <3>1 DEF AllRows, Row
    <3> QED
      BY <3>1, <3>2
  <2> QED
    BY <2>1, <2>2 DEF Surjection
<1> HIDE DEF f, wide
<1> QED
  BY <1>4, <1>5, FS_Surjection

\* So there are in any set of them.
LEMMA RowsHaveSize ==
  ASSUME NEW rows, rows \subseteq AllRows
  PROVE  IsFiniteSet(rows) /\ Cardinality(rows) \in Nat
BY RowsAreFinite, FS_Subset, FS_CardinalityType

\* A page is made of rows.
LEMMA PagesAreRows ==
  ASSUME NEW rows, NEW limit, NEW offset, NEW page \in Pages(rows, limit, offset)
  PROVE  \E S \in First(rows, offset), T \in First(rows, offset + limit) :
           S \subseteq T /\ page = T \ S /\ S \subseteq rows /\ T \subseteq rows
BY DEF Pages, First

\* The lowest height is at or below that of each row and low itself.
LEMMA LowestOfEffect ==
  ASSUME NEW rows, rows \subseteq AllRows, NEW low \in 0 .. MaxBlock + 1
  PROVE  /\ LowestOf(rows, low) \in 0 .. MaxBlock + 1
         /\ LowestOf(rows, low) <= low
         /\ \A a \in rows : LowestOf(rows, low) <= a[2]
<1> DEFINE heights == {low} \cup {a[2] : a \in rows}
<1>1. heights \subseteq 0 .. MaxBlock + 1
  BY BoundsAssumption DEF AllRows, Heights
<1>2. low \in heights /\ \A a \in rows : a[2] \in heights
  OBVIOUS
<1>3. LowestOf(rows, low) = CHOOSE n \in heights : \A m \in heights : n <= m
  BY DEF LowestOf
<1> HIDE DEF heights
<1>4. \E n \in heights : \A m \in heights : n <= m
  <2>1. heights \subseteq Nat /\ heights # {}
    BY <1>1, <1>2, BoundsAssumption
  <2> QED
    BY <2>1, LeastOf
<1> QED
  BY <1>1, <1>2, <1>3, <1>4

\* A row that is not among the first k has k rows there, and none of them after it.
LEMMA FirstLeaves ==
  ASSUME NEW rows, rows \subseteq AllRows, NEW k \in Nat, NEW S \in First(rows, k),
         NEW a \in rows, a \notin S
  PROVE  Cardinality(S) = k /\ \A b \in S : ~Before(a, b)
<1>1. S \subseteq rows /\ Cardinality(S) = Smaller(k, Cardinality(rows))
      /\ \A b \in S : Before(a, b) => a \in S
  BY DEF First
<1>2. IsFiniteSet(rows) /\ Cardinality(rows) \in Nat
  BY RowsHaveSize
<1>3. Cardinality(S) # Cardinality(rows)
  BY <1>1, <1>2, FS_Subset
<1> QED
  BY <1>1, <1>2, <1>3 DEF Smaller

\* A row with k others before it is not among the first k.
LEMMA FirstExcludes ==
  ASSUME NEW rows, rows \subseteq AllRows, NEW k \in Nat, NEW S \in First(rows, k),
         NEW a \in rows, NEW ahead, ahead \subseteq rows,
         \A b \in ahead : Before(b, a), Cardinality(ahead) >= k
  PROVE  a \notin S
<1> SUFFICES ASSUME a \in S
             PROVE  FALSE
  OBVIOUS
<1>1. S \subseteq rows /\ Cardinality(S) = Smaller(k, Cardinality(rows)) /\ ahead \subseteq S
  BY DEF First
<1>2. LogIndex[a[3].key] \in Nat /\ a[2] \in Nat
  BY ApiAssumption, BoundsAssumption DEF AllRows, Row, Heights
<1>3. a \notin ahead
  BY <1>2 DEF Before
<1>4. ahead \cup {a} \subseteq S
  BY <1>1
<1>5. IsFiniteSet(S) /\ Cardinality(S) \in Nat
  BY <1>1, RowsHaveSize
<1>6. IsFiniteSet(ahead) /\ Cardinality(ahead) \in Nat
  BY RowsHaveSize
<1>7. Cardinality(ahead \cup {a}) = Cardinality(ahead) + 1
  BY <1>3, <1>6, FS_AddElement
<1>8. Cardinality(ahead \cup {a}) <= Cardinality(S)
  BY <1>4, <1>5, FS_Subset
<1>9. Cardinality(rows) \in Nat
  BY RowsHaveSize
<1> QED
  BY <1>1, <1>5, <1>6, <1>7, <1>8, <1>9 DEF Smaller

-----------------------------------------------------------------------------
(* The client's pass keeps its type. *)

PagingRecord ==
  [request : Requests, offset : Nat, owed : SUBSET (Heights \X Row),
   low : 0 .. MaxBlock + 1, over : BOOLEAN, disturbed : BOOLEAN]

PagingTypeOK == paging = NoPaging \/ paging \in PagingRecord

\* The rows a request selects are rows; without their lanes, they are rows of a height.
LEMMA SelectedAreRows ==
  ASSUME NEW d, NEW r
  PROVE  /\ combined_transfers(d, r) \subseteq AllRows
         /\ \A rows : rows \subseteq AllRows => Bare(rows) \subseteq Heights \X Row
BY DEF combined_transfers, AllRows, Bare

\* A request that is accepted starts at a natural number and asks for at least one row.
LEMMA AcceptedArguments ==
  ASSUME NEW r \in Requests
  PROVE  /\ Accepted(r) => normalize_offset(r.offset) \in Nat
         /\ Accepted(r) => normalize_limit(r.limit) \in Nat \ {0}
<1>1. r.offset \in Int \cup {Absent} /\ r.limit \in Int \cup {Absent}
  BY ApiAssumption
<1>2. DEFAULT_LIMIT \in Nat \ {0} /\ MAX_LIMIT \in Nat \ {0}
  BY ApiAssumption
<1> QED
  BY <1>1, <1>2 DEF Accepted, normalize_offset, normalize_limit, Smaller

\* What a worker's transaction does to the client's pass.
LEMMA ObserveEffect ==
  ASSUME Observe, paging \in PagingRecord, paging # NoPaging
  PROVE  /\ paging' \in PagingRecord
         /\ paging'.request = paging.request /\ paging'.offset = paging.offset
         /\ paging'.low = paging.low /\ paging'.over = paging.over
         /\ \/ db' = db /\ paging' = paging
            \/ /\ paging'.owed = paging.owed \cap Bare(combined_transfers(db', paging.request))
               /\ paging'.disturbed <=>
                    paging.disturbed \/ LanesDisagree(db') \/ DeletedBehind(paging.low)
<1>1. CASE db' = db
  BY <1>1 DEF Observe
<1>2. CASE db' # db
  <2> DEFINE owed == paging.owed \cap Bare(combined_transfers(db', paging.request))
             broken == paging.disturbed \/ LanesDisagree(db') \/ DeletedBehind(paging.low)
  <2>1. paging' = [paging EXCEPT !.owed = owed, !.disturbed = broken]
    BY <1>2 DEF Observe
  <2>2. owed \in SUBSET (Heights \X Row) /\ broken \in BOOLEAN
    BY DEF PagingRecord
  <2> HIDE DEF owed, broken
  <2>3. /\ paging' \in PagingRecord
        /\ paging'.request = paging.request /\ paging'.offset = paging.offset
        /\ paging'.low = paging.low /\ paging'.over = paging.over
        /\ paging'.owed = owed /\ paging'.disturbed = broken
    BY <2>1, <2>2 DEF PagingRecord
  <2> QED
    BY <2>3 DEF owed, broken
<1> QED
  BY <1>1, <1>2

\* What a page does to it.
LEMMA PageEffect ==
  ASSUME paging \in PagingRecord, TransfersPage
  PROVE  LET rows == combined_transfers(db, paging.request) IN
         \E page \in Pages(rows, normalize_limit(paging.request.limit), paging.offset) :
           /\ page \subseteq rows
           /\ paging' \in PagingRecord
           /\ paging'.request = paging.request /\ paging'.disturbed = paging.disturbed
           /\ paging'.offset = paging.offset + Cardinality(page)
           /\ paging'.owed = paging.owed \ Bare(page)
           /\ paging'.low = LowestOf(page, paging.low)
           /\ paging'.over <=> page = {}
<1> DEFINE rows == combined_transfers(db, paging.request)
<1>1. PICK page \in Pages(rows, normalize_limit(paging.request.limit), paging.offset) :
        paging' = [paging EXCEPT
          !.offset = paging.offset + Cardinality(page),
          !.owed = paging.owed \ Bare(page),
          !.low = LowestOf(page, paging.low),
          !.over = page = {}]
  BY Zenon DEF TransfersPage
<1>2. rows \subseteq AllRows
  BY SelectedAreRows
<1> HIDE DEF rows
<1>3. page \subseteq rows /\ page \subseteq AllRows
  BY <1>2, PagesAreRows
<1>4. paging.low \in 0 .. MaxBlock + 1 /\ paging.offset \in Nat
  BY DEF PagingRecord
<1> DEFINE offset == paging.offset + Cardinality(page)
           owed == paging.owed \ Bare(page)
           low == LowestOf(page, paging.low)
           over == page = {}
<1>5. /\ offset \in Nat /\ owed \in SUBSET (Heights \X Row) /\ low \in 0 .. MaxBlock + 1
      /\ over \in BOOLEAN
  BY <1>3, <1>4, RowsHaveSize, LowestOfEffect DEF PagingRecord
<1>6. paging' = [paging EXCEPT !.offset = offset, !.owed = owed, !.low = low, !.over = over]
  BY <1>1
<1> HIDE DEF offset, owed, low, over
<1>7. /\ paging' \in PagingRecord
      /\ paging'.request = paging.request /\ paging'.disturbed = paging.disturbed
      /\ paging'.offset = offset /\ paging'.owed = owed /\ paging'.low = low
      /\ paging'.over = over
  BY <1>5, <1>6 DEF PagingRecord
<1> QED
  BY <1>3, <1>7 DEF rows, offset, owed, low, over

\* What the start of a pass is.
LEMMA BeginEffect ==
  ASSUME TransfersBegin
  PROVE  \E r \in Requests :
           LET rows == combined_transfers(db, r) IN
           \E skipped \in First(rows, normalize_offset(r.offset)) :
             /\ Accepted(r)
             /\ skipped \subseteq rows
             /\ paging' \in PagingRecord
             /\ paging'.request = r /\ paging'.offset = normalize_offset(r.offset)
             /\ paging'.owed = Bare(rows) \ Bare(skipped)
             /\ paging'.low = LowestOf(skipped, MaxBlock + 1)
             /\ paging'.over = FALSE
             /\ paging'.disturbed <=> LanesDisagree(db)
<1>1. PICK r \in Requests : Accepted(r) /\
        \E skipped \in First(combined_transfers(db, r), normalize_offset(r.offset)) :
          paging' = [request |-> r, offset |-> normalize_offset(r.offset),
                     owed |-> Bare(combined_transfers(db, r)) \ Bare(skipped),
                     low |-> LowestOf(skipped, MaxBlock + 1),
                     over |-> FALSE, disturbed |-> LanesDisagree(db)]
  BY DEF TransfersBegin
<1> DEFINE rows == combined_transfers(db, r)
<1>2. PICK skipped \in First(rows, normalize_offset(r.offset)) :
          paging' = [request |-> r, offset |-> normalize_offset(r.offset),
                     owed |-> Bare(rows) \ Bare(skipped),
                     low |-> LowestOf(skipped, MaxBlock + 1),
                     over |-> FALSE, disturbed |-> LanesDisagree(db)]
  BY <1>1
<1>3. rows \subseteq AllRows /\ Bare(rows) \subseteq Heights \X Row
  BY SelectedAreRows
<1> HIDE DEF rows
<1>4. skipped \subseteq rows /\ skipped \subseteq AllRows
  BY <1>3 DEF First
<1> DEFINE offset == normalize_offset(r.offset)
           owed == Bare(rows) \ Bare(skipped)
           low == LowestOf(skipped, MaxBlock + 1)
           disagree == LanesDisagree(db)
<1>5. MaxBlock + 1 \in 0 .. MaxBlock + 1
  BY BoundsAssumption
<1>6. /\ offset \in Nat /\ owed \in SUBSET (Heights \X Row) /\ low \in 0 .. MaxBlock + 1
      /\ disagree \in BOOLEAN
  BY <1>1, <1>3, <1>4, <1>5, AcceptedArguments, LowestOfEffect DEF LanesDisagree
<1>7. paging' = [request |-> r, offset |-> offset, owed |-> owed, low |-> low,
                 over |-> FALSE, disturbed |-> disagree]
  BY <1>2
<1> HIDE DEF offset, owed, low, disagree
<1>8. /\ paging' \in PagingRecord
      /\ paging'.request = r /\ paging'.offset = offset
      /\ paging'.owed = owed /\ paging'.low = low
      /\ paging'.over = FALSE /\ paging'.disturbed = disagree
  BY <1>6, <1>7 DEF PagingRecord
<1> QED
  BY <1>1, <1>4, <1>8 DEF rows, offset, owed, low, disagree

\* Every step of the client or of a worker keeps it.
LEMMA PagingTypeStep ==
  ASSUME PagingTypeOK, [ApiNext]_apiAll
  PROVE  PagingTypeOK'
<1>1. CASE Observe
  <2>1. CASE paging = NoPaging
    BY <1>1, <2>1 DEF Observe, PagingTypeOK
  <2> QED
    BY <1>1, <2>1, ObserveEffect DEF PagingTypeOK
<1>2. CASE TransfersPage
  <2>1. paging \in PagingRecord
    BY <1>2 DEF TransfersPage, PagingTypeOK
  <2> QED
    BY <1>2, <2>1, PageEffect DEF PagingTypeOK
<1>3. CASE TransfersBegin
  BY <1>3, BeginEffect DEF PagingTypeOK
<1>4. CASE paging' \in {NoPaging, paging}
  BY <1>4 DEF PagingTypeOK
<1> QED
  BY <1>1, <1>2, <1>3, <1>4
     DEF apiAll, apiVars, ApiNext, StatusStep, StatusAnswered, TransfersEnd, ServerExits

-----------------------------------------------------------------------------
(* Paging. *)

\* The rows before a, at the heights the client has come to.
Ahead(rows, low, a) == {b \in rows : b[2] >= low /\ Before(b, a)}

\* Rows that tie are the two copies of one row.
OrderedRows(rows) ==
  \A a, b \in rows : Before(a, b) \/ Before(b, a) \/ <<a[2], a[3]>> = <<b[2], b[3]>>

\* Before each row the client is owed lie at least as many as it has come past.
OwedAhead(rows, owed, low, offset) ==
  \A a \in rows : <<a[2], a[3]>> \in owed => Cardinality(Ahead(rows, low, a)) >= offset

PagingInv ==
  paging # NoPaging /\ ~paging.disturbed =>
    LET rows == combined_transfers(db, paging.request) IN
      /\ ~LanesDisagree(db)
      /\ paging.owed \subseteq Bare(rows)
      /\ OwedAhead(rows, paging.owed, paging.low, paging.offset)
      /\ paging.over => paging.owed = {}

\* Unless two rows tie, the rows of both lanes together have an order.
LEMMA RowsAreOrdered ==
  ASSUME ~LanesDisagree(db), NEW r
  PROVE  OrderedRows(combined_transfers(db, r))
<1> SUFFICES ASSUME NEW a \in combined_transfers(db, r), NEW b \in combined_transfers(db, r),
                    ~Before(a, b), ~Before(b, a)
             PROVE  a[2] = b[2] /\ a[3] = b[3]
  BY DEF OrderedRows
<1>1. /\ a \in AllRows /\ b \in AllRows
      /\ a[3] \in db[a[1]].transfers[a[2]] /\ b[3] \in db[b[1]].transfers[b[2]]
  BY DEF combined_transfers, AllRows
<1>2. /\ a[1] \in {"cold", "hot"} /\ b[1] \in {"cold", "hot"}
      /\ a[2] \in Heights /\ b[2] \in Heights
      /\ LogIndex[a[3].key] \in Nat /\ LogIndex[b[3].key] \in Nat
  BY <1>1, ApiAssumption DEF AllRows, Row
<1>3. a[2] = b[2] /\ LogIndex[a[3].key] = LogIndex[b[3].key]
  BY <1>2, BoundsAssumption DEF Before, Heights
<1>4. /\ a[3] \in db.cold.transfers[a[2]] \cup db.hot.transfers[a[2]]
      /\ b[3] \in db.cold.transfers[a[2]] \cup db.hot.transfers[a[2]]
  BY <1>1, <1>2, <1>3
<1> QED
  BY <1>2, <1>3, <1>4 DEF LanesDisagree

\* A row of which no copy is among the first k has exactly k rows there, all before it.
LEMMA FirstPrecedes ==
  ASSUME NEW rows, rows \subseteq AllRows, OrderedRows(rows),
         NEW k \in Nat, NEW S \in First(rows, k), NEW a \in rows,
         <<a[2], a[3]>> \notin Bare(S)
  PROVE  Cardinality(S) = k /\ \A b \in S : b \in rows /\ Before(b, a)
<1>1. \A b \in S : b \in rows /\ <<b[2], b[3]>> # <<a[2], a[3]>>
  BY DEF Bare, First
<1>2. a \notin S
  BY <1>1
<1>3. Cardinality(S) = k /\ \A b \in S : ~Before(a, b)
  BY <1>2, FirstLeaves
<1> QED
  BY <1>1, <1>3 DEF OrderedRows

\* Rows before a that are not below low are ahead of it.
LEMMA AheadBound ==
  ASSUME NEW rows, rows \subseteq AllRows, NEW low, NEW a, NEW S,
         \A b \in S : b \in rows /\ b[2] >= low /\ Before(b, a)
  PROVE  Cardinality(Ahead(rows, low, a)) >= Cardinality(S)
<1>1. S \subseteq Ahead(rows, low, a) /\ Ahead(rows, low, a) \subseteq AllRows
  BY DEF Ahead
<1>2. /\ IsFiniteSet(Ahead(rows, low, a)) /\ Cardinality(Ahead(rows, low, a)) \in Nat
      /\ Cardinality(S) \in Nat
  BY <1>1, RowsHaveSize
<1> QED
  BY <1>1, <1>2, FS_Subset

\* A pass that begins owes what it does not skip.
LEMMA BeginKeeps ==
  ASSUME TransfersBegin, UNCHANGED db
  PROVE  PagingInv'
<1> SUFFICES ASSUME ~paging'.disturbed
             PROVE  LET rows == combined_transfers(db', paging'.request) IN
                      /\ ~LanesDisagree(db')
                      /\ paging'.owed \subseteq Bare(rows)
                      /\ OwedAhead(rows, paging'.owed, paging'.low, paging'.offset)
                      /\ paging'.over => paging'.owed = {}
  BY DEF PagingInv
<1>1. PICK r \in Requests :
        \E skipped \in First(combined_transfers(db, r), normalize_offset(r.offset)) :
             /\ Accepted(r)
             /\ skipped \subseteq combined_transfers(db, r)
             /\ paging'.request = r /\ paging'.offset = normalize_offset(r.offset)
             /\ paging'.owed = Bare(combined_transfers(db, r)) \ Bare(skipped)
             /\ paging'.low = LowestOf(skipped, MaxBlock + 1)
             /\ paging'.over = FALSE
             /\ paging'.disturbed <=> LanesDisagree(db)
  BY BeginEffect
<1> DEFINE rows == combined_transfers(db, r)
<1>2. rows \subseteq AllRows /\ ~LanesDisagree(db) /\ OrderedRows(rows)
  BY <1>1, SelectedAreRows, RowsAreOrdered
<1> DEFINE offset == normalize_offset(r.offset)
<1>3. PICK skipped \in First(rows, offset) :
        /\ skipped \subseteq rows
        /\ paging'.owed = Bare(rows) \ Bare(skipped)
        /\ paging'.low = LowestOf(skipped, MaxBlock + 1)
  BY <1>1
<1>4. offset \in Nat /\ paging'.request = r /\ paging'.offset = offset /\ ~paging'.over
  BY <1>1, AcceptedArguments
<1> HIDE DEF rows, offset
<1>5. OwedAhead(rows, paging'.owed, paging'.low, offset)
  <2> SUFFICES ASSUME NEW a \in rows, <<a[2], a[3]>> \in paging'.owed
               PROVE  Cardinality(Ahead(rows, paging'.low, a)) >= offset
    BY DEF OwedAhead
  <2>1. <<a[2], a[3]>> \notin Bare(skipped)
    BY <1>3
  <2>2. Cardinality(skipped) = offset /\ \A b \in skipped : b \in rows /\ Before(b, a)
    BY <1>2, <1>4, <2>1, FirstPrecedes
  <2>3. MaxBlock + 1 \in 0 .. MaxBlock + 1 /\ skipped \subseteq AllRows
    BY <1>2, <1>3, BoundsAssumption
  <2>4. \A b \in skipped : b[2] >= paging'.low
    BY <1>3, <2>3, LowestOfEffect, BoundsAssumption DEF AllRows, Heights
  <2> QED
    BY <1>2, <2>2, <2>4, AheadBound
<1> QED
  BY <1>2, <1>3, <1>4, <1>5 DEF rows

\* A page that does not return a row goes on with exactly limit rows before it, and none
\* of the rows passed so far lies below the page.
LEMMA PageProceeds ==
  ASSUME NEW rows, rows \subseteq AllRows, OrderedRows(rows),
         NEW limit \in Nat \ {0}, NEW offset \in Nat, NEW low \in 0 .. MaxBlock + 1, NEW owed,
         OwedAhead(rows, owed, low, offset),
         NEW S \in First(rows, offset), NEW T \in First(rows, offset + limit), S \subseteq T,
         NEW a \in rows, <<a[2], a[3]>> \in owed \ Bare(T \ S)
  PROVE  /\ T \ S # {}
         /\ Cardinality(Ahead(rows, LowestOf(T \ S, low), a)) >= offset + Cardinality(T \ S)
<1> DEFINE page == T \ S
           next == LowestOf(page, low)
<1>1. S \subseteq rows /\ T \subseteq rows /\ page \subseteq AllRows
  BY DEF First
<1>2. ASSUME NEW b \in rows, <<b[2], b[3]>> \in owed
      PROVE  b \notin S
  <2>1. /\ Ahead(rows, low, b) \subseteq rows
        /\ \A c \in Ahead(rows, low, b) : Before(c, b)
        /\ Cardinality(Ahead(rows, low, b)) >= offset
    BY <1>2 DEF Ahead, OwedAhead
  <2> QED
    BY <2>1, FirstExcludes
<1>3. <<a[2], a[3]>> \notin Bare(T)
  <2> SUFFICES ASSUME NEW b \in T, <<b[2], b[3]>> = <<a[2], a[3]>>
               PROVE  FALSE
    BY DEF Bare
  <2>1. b \notin S
    BY <1>1, <1>2
  <2> QED
    BY <2>1 DEF Bare
<1>4. a \notin S
  BY <1>2
<1>5. offset + limit \in Nat
  OBVIOUS
<1>6. Cardinality(S) = offset /\ \A b \in S : ~Before(a, b)
  BY <1>4, FirstLeaves
<1>7. Cardinality(T) = offset + limit /\ \A b \in T : b \in rows /\ Before(b, a)
  BY <1>3, <1>5, FirstPrecedes
<1>8. IsFiniteSet(S) /\ IsFiniteSet(T) /\ IsFiniteSet(page) /\ Cardinality(page) \in Nat
  BY <1>1, RowsHaveSize
<1>9. Cardinality(page) = limit
  <2>1. T \cap S = S
    OBVIOUS
  <2>2. Cardinality(page) = Cardinality(T) - Cardinality(T \cap S)
    BY <1>8, FS_Difference
  <2> QED
    BY <1>6, <1>7, <2>1, <2>2, SMTT(60)
<1>10. page # {}
  BY <1>9, FS_EmptySet
<1>11. next \in 0 .. MaxBlock + 1 /\ \A b \in page : next <= b[2]
  BY <1>1, LowestOfEffect
<1>12. \A b \in T : b \in rows /\ b[2] >= next /\ Before(b, a)
  <2> SUFFICES ASSUME NEW b \in T
               PROVE  b[2] >= next
    BY <1>7
  <2>1. \A c \in rows : c[2] \in Nat
    BY BoundsAssumption DEF AllRows, Heights
  <2>2. CASE b \in page
    BY <1>1, <1>11, <2>1, <2>2
  <2>3. CASE b \in S
    <3>1. PICK p \in page : TRUE
      BY <1>10
    <3>2. p \in rows /\ p \notin S /\ b \in rows
      BY <1>1, <3>1, <2>3
    <3>3. ~Before(p, b)
      BY <3>2, <2>3, FirstLeaves
    <3>4. b[2] \in Nat /\ p[2] \in Nat
      BY <2>1, <3>2
    <3> HIDE DEF next
    <3>5. next \in Nat /\ next <= p[2]
      BY <1>11, <3>1, BoundsAssumption
    <3>6. ~(p[2] > b[2])
      BY <3>3 DEF Before
    <3> QED
      BY <3>4, <3>5, <3>6
  <2> QED
    BY <2>2, <2>3
<1>13. Cardinality(Ahead(rows, next, a)) >= Cardinality(T)
  <2> HIDE DEF next
  <2> QED
    BY <1>12, AheadBound
<1> QED
  BY <1>7, <1>9, <1>10, <1>13

\* A page keeps what is owed behind it.
LEMMA PageKeeps ==
  ASSUME PagingTypeOK, PagingInv, TransfersPage, UNCHANGED db,
         paging # NoPaging => Accepted(paging.request)
  PROVE  PagingInv'
<1> SUFFICES ASSUME ~paging'.disturbed
             PROVE  LET rows == combined_transfers(db', paging'.request) IN
                      /\ ~LanesDisagree(db')
                      /\ paging'.owed \subseteq Bare(rows)
                      /\ OwedAhead(rows, paging'.owed, paging'.low, paging'.offset)
                      /\ paging'.over => paging'.owed = {}
  BY DEF PagingInv
<1> DEFINE rows == combined_transfers(db, paging.request)
           limit == normalize_limit(paging.request.limit)
<1>1. paging \in PagingRecord /\ paging # NoPaging
  BY DEF TransfersPage, PagingTypeOK
<1>2. PICK page \in Pages(rows, limit, paging.offset) :
           /\ page \subseteq rows
           /\ paging' \in PagingRecord
           /\ paging'.request = paging.request /\ paging'.disturbed = paging.disturbed
           /\ paging'.offset = paging.offset + Cardinality(page)
           /\ paging'.owed = paging.owed \ Bare(page)
           /\ paging'.low = LowestOf(page, paging.low)
           /\ paging'.over <=> page = {}
  BY <1>1, PageEffect
<1>3. /\ ~LanesDisagree(db)
      /\ paging.owed \subseteq Bare(rows)
      /\ OwedAhead(rows, paging.owed, paging.low, paging.offset)
  BY <1>1, <1>2 DEF PagingInv
<1>4. rows \subseteq AllRows /\ OrderedRows(rows)
  BY <1>3, SelectedAreRows, RowsAreOrdered
<1>5. /\ paging.offset \in Nat /\ paging.low \in 0 .. MaxBlock + 1
      /\ limit \in Nat \ {0}
  BY <1>1, AcceptedArguments DEF PagingRecord
<1> HIDE DEF rows, limit
<1>6. PICK S \in First(rows, paging.offset), T \in First(rows, paging.offset + limit) :
        S \subseteq T /\ page = T \ S
  BY PagesAreRows
<1>7. ASSUME NEW a \in rows, <<a[2], a[3]>> \in paging'.owed
      PROVE  /\ page # {}
             /\ Cardinality(Ahead(rows, paging'.low, a)) >= paging'.offset
  <2>1. <<a[2], a[3]>> \in paging.owed \ Bare(T \ S)
    BY <1>2, <1>6, <1>7
  <2>2. /\ T \ S # {}
        /\ Cardinality(Ahead(rows, LowestOf(T \ S, paging.low), a))
             >= paging.offset + Cardinality(T \ S)
    BY <1>3, <1>4, <1>5, <1>6, <2>1, PageProceeds
  <2> QED
    BY <1>2, <1>6, <2>2
<1>8. OwedAhead(rows, paging'.owed, paging'.low, paging'.offset)
  BY <1>7 DEF OwedAhead
<1>9. paging'.owed \subseteq Bare(rows)
  BY <1>2, <1>3
<1>10. paging'.over => paging'.owed = {}
  BY <1>2, <1>7, <1>9 DEF Bare
<1> QED
  BY <1>2, <1>3, <1>8, <1>9, <1>10 DEF rows

\* A row that does not lose a copy is in as many lanes as before, or in more.
LEMMA CopiesKept ==
  ASSUME NEW d, NEW e, NEW n, NEW row, ~(Copies(e, n, row) < Copies(d, n, row))
  PROVE  LET In(x, lane) == row \in x[lane].transfers[n] IN
           /\ In(d, "cold") \/ In(d, "hot") => In(e, "cold") \/ In(e, "hot")
           /\ In(d, "cold") /\ In(d, "hot") => In(e, "cold") /\ In(e, "hot")
<1> DEFINE lanes == {"cold", "hot"}
           inD == {lane \in lanes : row \in d[lane].transfers[n]}
           inE == {lane \in lanes : row \in e[lane].transfers[n]}
<1>1. IsFiniteSet(lanes) /\ Cardinality(lanes) = 2
  <2>1. IsFiniteSet({"cold"}) /\ Cardinality({"cold"}) = 1
    BY FS_Singleton
  <2>2. /\ IsFiniteSet({"cold"} \cup {"hot"})
        /\ Cardinality({"cold"} \cup {"hot"}) =
             IF "hot" \in {"cold"} THEN Cardinality({"cold"}) ELSE Cardinality({"cold"}) + 1
    BY <2>1, FS_AddElement
  <2>3. {"cold", "hot"} = {"cold"} \cup {"hot"} /\ "hot" \notin {"cold"}
    OBVIOUS
  <2> QED
    BY <2>1, <2>2, <2>3
<1>2. ~(Cardinality(inE) < Cardinality(inD))
  BY DEF Copies
<1>3. inD \subseteq lanes /\ inE \subseteq lanes
  OBVIOUS
<1>4. /\ IsFiniteSet(inD) /\ Cardinality(inD) \in Nat
      /\ IsFiniteSet(inE) /\ Cardinality(inE) \in Nat
      /\ Cardinality(inE) <= 2 /\ (Cardinality(inE) = 2 => inE = lanes)
  <2> HIDE DEF inD, inE, lanes
  <2> QED
    BY <1>1, <1>3, FS_Subset, FS_CardinalityType
<1>5. inD # {} => inE # {}
  <2> HIDE DEF inD, inE, lanes
  <2>1. Cardinality(inD) = 0 <=> inD = {}
    BY <1>4, FS_EmptySet
  <2>2. Cardinality(inE) = 0 <=> inE = {}
    BY <1>4, FS_EmptySet
  <2> QED
    BY <1>2, <1>4, <2>1, <2>2
<1>6. inD = lanes => inE = lanes
  <2> HIDE DEF inD, inE, lanes
  <2> QED
    BY <1>1, <1>2, <1>4
<1> QED
  BY <1>5, <1>6

\* When no copy of a row behind the client is deleted, no row moves into what it has passed:
\* as many rows as before lie ahead of each row.
LEMMA AheadKept ==
  ASSUME NEW r, NEW low \in 0 .. MaxBlock + 1, ~DeletedBehind(low), NEW a, NEW b,
         a[2] = b[2], a[3] = b[3]
  PROVE  Cardinality(Ahead(combined_transfers(db', r), low, b))
           >= Cardinality(Ahead(combined_transfers(db, r), low, a))
<1> DEFINE was == Ahead(combined_transfers(db, r), low, a)
           is == Ahead(combined_transfers(db', r), low, b)
           other(lane) == IF lane = "cold" THEN "hot" ELSE "cold"
           keep(c) == IF c \in is THEN c ELSE <<other(c[1]), c[2], c[3]>>
           f == [c \in was |-> keep(c)]
<1>1. was \subseteq AllRows /\ is \subseteq AllRows
  BY SelectedAreRows DEF Ahead
<1>2. \A c \in AllRows : c \in was <=>
        /\ c[3] \in db[c[1]].transfers[c[2]] /\ Passes(r, c[2], c[3])
        /\ c[2] >= low /\ Before(c, a)
  BY DEF Ahead, combined_transfers, AllRows
<1>3. \A c \in AllRows : c \in is <=>
        /\ c[3] \in db'[c[1]].transfers[c[2]] /\ Passes(r, c[2], c[3])
        /\ c[2] >= low /\ Before(c, b)
  BY DEF Ahead, combined_transfers, AllRows
<1>4. \A c, e \in AllRows : c[2] = e[2] /\ c[3] = e[3] => (Before(c, a) <=> Before(e, b))
  BY DEF Before
<1> HIDE DEF was, is
<1>5. ASSUME NEW c \in was
      PROVE  /\ c \in AllRows /\ <<other(c[1]), c[2], c[3]>> \in AllRows
             /\ c = <<c[1], c[2], c[3]>>
             /\ c \in is \/ <<other(c[1]), c[2], c[3]>> \in is
             /\ <<other(c[1]), c[2], c[3]>> \in was =>
                  c \in is /\ <<other(c[1]), c[2], c[3]>> \in is
  <2>1. /\ c \in AllRows /\ <<other(c[1]), c[2], c[3]>> \in AllRows
        /\ c = <<c[1], c[2], c[3]>> /\ c[1] \in {"cold", "hot"}
        /\ c[2] \in Heights /\ c[2] >= low
        /\ c[3] \in db[c[1]].transfers[c[2]] /\ Passes(r, c[2], c[3]) /\ Before(c, a)
    BY <1>1, <1>2 DEF AllRows
  <2> DEFINE d == <<other(c[1]), c[2], c[3]>>
  <2>2. /\ d[1] = other(c[1]) /\ d[2] = c[2] /\ d[3] = c[3] /\ d \in AllRows
    BY <2>1
  <2>3. Before(c, b) /\ Before(d, b)
    BY <1>4, <2>1, <2>2
  <2>4. c[3] \in db.cold.transfers[c[2]] \cup db.hot.transfers[c[2]]
    BY <2>1
  <2>5. ~(Copies(db', c[2], c[3]) < Copies(db, c[2], c[3]))
    BY <2>1, <2>4 DEF DeletedBehind
  <2>6. /\ \/ c[3] \in db'["cold"].transfers[c[2]]
           \/ c[3] \in db'["hot"].transfers[c[2]]
        /\ c[3] \in db["cold"].transfers[c[2]] /\ c[3] \in db["hot"].transfers[c[2]] =>
             c[3] \in db'["cold"].transfers[c[2]] /\ c[3] \in db'["hot"].transfers[c[2]]
    BY <2>4, <2>5, CopiesKept
  <2>7. c \in is <=> c[3] \in db'[c[1]].transfers[c[2]]
    BY <1>3, <2>1, <2>3
  <2>8. d \in is <=> c[3] \in db'[other(c[1])].transfers[c[2]]
    BY <1>3, <2>1, <2>2, <2>3
  <2>9. d \in was => c[3] \in db[other(c[1])].transfers[c[2]]
    BY <1>2, <2>2
  <2> HIDE DEF d
  <2>10. c \in is \/ d \in is
    BY <2>1, <2>6, <2>7, <2>8
  <2>11. d \in was => c \in is /\ d \in is
    BY <2>1, <2>6, <2>7, <2>8, <2>9
  <2> QED
    BY <2>1, <2>10, <2>11 DEF d
<1>6. f \in [was -> is]
  BY <1>5
<1>7. ASSUME NEW c \in was, NEW e \in was, f[c] = f[e]
      PROVE  c = e
  <2>1. keep(c) = keep(e)
    BY <1>7
  <2>2. /\ c = <<c[1], c[2], c[3]>> /\ e = <<e[1], e[2], e[3]>>
        /\ c[1] \in {"cold", "hot"} /\ e[1] \in {"cold", "hot"}
    BY <1>5 DEF AllRows
  <2>3. CASE c \in is /\ e \in is
    BY <2>1, <2>3
  <2>4. CASE c \in is /\ e \notin is
    <3>1. c = <<other(e[1]), e[2], e[3]>>
      BY <2>1, <2>4
    <3>2. <<other(e[1]), e[2], e[3]>> \in was
      BY <3>1
    <3> QED
      BY <1>5, <2>4, <3>2
  <2>5. CASE c \notin is /\ e \in is
    <3>1. e = <<other(c[1]), c[2], c[3]>>
      BY <2>1, <2>5
    <3>2. <<other(c[1]), c[2], c[3]>> \in was
      BY <3>1
    <3> QED
      BY <1>5, <2>5, <3>2
  <2>6. CASE c \notin is /\ e \notin is
    <3>1. <<other(c[1]), c[2], c[3]>> = <<other(e[1]), e[2], e[3]>>
      BY <2>1, <2>6
    <3>2. other(c[1]) = other(e[1]) /\ c[2] = e[2] /\ c[3] = e[3]
      BY <3>1
    <3> QED
      BY <2>2, <3>2
  <2> QED
    BY <2>3, <2>4, <2>5, <2>6
<1> HIDE DEF f
<1>8. f \in Injection(was, is)
  BY <1>6, <1>7 DEF Injection, IsInjective
<1>9. IsFiniteSet(is) /\ Cardinality(is) \in Nat /\ Cardinality(was) \in Nat
  BY <1>1, RowsHaveSize
<1>10. Cardinality(was) <= Cardinality(is)
  BY <1>8, <1>9, FS_Injection
<1> QED
  BY <1>9, <1>10 DEF was, is

\* A worker's transaction keeps what is owed behind as many rows as before.
LEMMA ObserveKeeps ==
  ASSUME PagingTypeOK, PagingInv, Observe
  PROVE  PagingInv'
<1>1. CASE paging = NoPaging
  BY <1>1 DEF Observe, PagingInv
<1>2. CASE db' = db
  BY <1>2 DEF Observe, PagingInv
<1>3. CASE paging # NoPaging /\ db' # db
  <2> SUFFICES ASSUME ~paging'.disturbed
               PROVE  LET rows == combined_transfers(db', paging'.request) IN
                        /\ ~LanesDisagree(db')
                        /\ paging'.owed \subseteq Bare(rows)
                        /\ OwedAhead(rows, paging'.owed, paging'.low, paging'.offset)
                        /\ paging'.over => paging'.owed = {}
    BY DEF PagingInv
  <2> DEFINE r == paging.request
             was == combined_transfers(db, r)
             is == combined_transfers(db', r)
  <2>1. /\ paging \in PagingRecord /\ paging'.request = r
        /\ paging'.offset = paging.offset /\ paging'.low = paging.low
        /\ paging'.over = paging.over
        /\ paging'.owed = paging.owed \cap Bare(is)
        /\ ~paging.disturbed /\ ~LanesDisagree(db') /\ ~DeletedBehind(paging.low)
    BY <1>3, ObserveEffect DEF PagingTypeOK
  <2>2. /\ paging.owed \subseteq Bare(was)
        /\ OwedAhead(was, paging.owed, paging.low, paging.offset)
        /\ paging.over => paging.owed = {}
    BY <1>3, <2>1 DEF PagingInv
  <2>3. paging.low \in 0 .. MaxBlock + 1 /\ paging.offset \in Nat
    BY <2>1 DEF PagingRecord
  <2>4. was \subseteq AllRows /\ is \subseteq AllRows
    BY SelectedAreRows
  <2>5. ASSUME NEW b \in is, <<b[2], b[3]>> \in paging'.owed
        PROVE  Cardinality(Ahead(is, paging.low, b)) >= paging.offset
    <3>1. <<b[2], b[3]>> \in paging.owed
      BY <2>1, <2>5
    <3>2. PICK a \in was : <<a[2], a[3]>> = <<b[2], b[3]>>
      BY <2>2, <3>1 DEF Bare
    <3>3. Cardinality(Ahead(was, paging.low, a)) >= paging.offset
      <4> HIDE DEF was
      <4> QED
        BY <2>2, <3>1, <3>2 DEF OwedAhead
    <3>4. Cardinality(Ahead(is, paging.low, b)) >= Cardinality(Ahead(was, paging.low, a))
      BY <2>1, <2>3, <3>2, AheadKept
    <3>5. /\ Cardinality(Ahead(is, paging.low, b)) \in Nat
          /\ Cardinality(Ahead(was, paging.low, a)) \in Nat
      <4>1. /\ Ahead(is, paging.low, b) \subseteq AllRows
            /\ Ahead(was, paging.low, a) \subseteq AllRows
        BY <2>4 DEF Ahead
      <4> QED
        BY <4>1, RowsHaveSize
    <3> HIDE DEF was, is
    <3> QED
      BY <2>3, <3>3, <3>4, <3>5
  <2> HIDE DEF was, is
  <2>6. OwedAhead(is, paging'.owed, paging'.low, paging'.offset)
    BY <2>1, <2>5 DEF OwedAhead
  <2> QED
    BY <2>1, <2>2, <2>6 DEF is
<1> QED
  BY <1>1, <1>2, <1>3

\* The request the client pages through was accepted.
AcceptedInv == paging # NoPaging => Accepted(paging.request)

\* It stays the same until the pass ends.
LEMMA AcceptedStays ==
  ASSUME PagingTypeOK, AcceptedInv, [ApiNext]_apiAll
  PROVE  AcceptedInv'
<1>1. CASE Observe /\ paging # NoPaging
  BY <1>1, ObserveEffect DEF AcceptedInv, PagingTypeOK, Accepted
<1>2. CASE TransfersPage
  <2>1. paging # NoPaging /\ paging \in PagingRecord
    BY <1>2 DEF TransfersPage, PagingTypeOK
  <2>2. paging'.request = paging.request
    BY <1>2, <2>1, PageEffect
  <2> QED
    BY <2>1, <2>2 DEF AcceptedInv, Accepted
<1>3. CASE TransfersBegin
  <2>1. Accepted(paging'.request)
    BY <1>3, BeginEffect
  <2> QED
    BY <2>1 DEF AcceptedInv, Accepted
<1>4. CASE paging' \in {NoPaging, paging}
  BY <1>4 DEF AcceptedInv, Accepted
<1> QED
  BY <1>1, <1>2, <1>3, <1>4
     DEF apiAll, apiVars, ApiNext, Observe, StatusStep, StatusAnswered, TransfersEnd, ServerExits

\* Every step keeps what the client is owed behind the rows it has passed.
LEMMA PagingStep ==
  ASSUME PagingTypeOK, AcceptedInv, PagingInv, [ApiNext]_apiAll
  PROVE  PagingInv'
<1>1. CASE Observe
  BY <1>1, ObserveKeeps
<1>2. CASE TransfersPage /\ UNCHANGED db
  BY <1>2, PageKeeps DEF AcceptedInv
<1>3. CASE TransfersBegin /\ UNCHANGED db
  BY <1>3, BeginKeeps
<1>4. CASE paging' = NoPaging
  BY <1>4 DEF PagingInv
<1>5. CASE UNCHANGED <<db, paging>>
  BY <1>5 DEF PagingInv, LanesDisagree, OwedAhead, Ahead, combined_transfers, Bare
<1> QED
  BY <1>1, <1>2, <1>3, <1>4, <1>5
     DEF apiAll, apiVars, indexerTxVars, indexerVars, ApiNext, StatusStep, StatusAnswered,
         TransfersEnd, ServerExits, IndexerRestart

-----------------------------------------------------------------------------
(* What holds of the API whatever the depth of reorganizations. *)

ApiInv == DInv /\ StatusTypeOK /\ PagingTypeOK /\ AcceptedInv /\ PagingInv

\* The workers' invariants that no torn rollback breaks, what the API has read and the
\* client's pass, together.
THEOREM ApiInvariant ==
  ASSUME StartBlock >= 1
  PROVE  ApiSpec => []ApiInv
<1>1. ApiInit => ApiInv
  BY TxStarts DEF ApiInit, ApiInv, NoStatus, StatusTypeOK, PagingTypeOK, AcceptedInv, PagingInv
<1>2. ApiInv /\ [ApiNext]_apiAll => ApiInv'
  <2> SUFFICES ASSUME ApiInv, [ApiNext]_apiAll
               PROVE  ApiInv'
    OBVIOUS
  <2>1. DInv'
    BY ApiSteps, TxStepPreserves DEF ApiInv
  <2> QED
    BY <2>1, StatusTypeStep, PagingTypeStep, AcceptedStays, PagingStep DEF ApiInv, DInv
<1> QED
  BY <1>1, <1>2, PTL DEF ApiSpec, apiAll

\* The variables of the API keep their types beside those of the workers, and a pass over the
\* transfers is one of a request whose arguments were accepted.
THEOREM ApiTypeCorrect ==
  ASSUME StartBlock >= 1
  PROVE  ApiSpec => []ApiTypeOK
<1>1. ApiInv /\ IndexerTxTypeOK => ApiTypeOK
  BY DEF ApiInv, StatusTypeOK, PagingTypeOK, PagingRecord, AcceptedInv, ApiTypeOK
<1> QED
  BY <1>1, ApiInvariant, ApiIsIndexer, IndexerTxTypeCorrect, PTL

\* A client that pages to the end gets every transfer that was there when it began and still
\* is, while the workers' transactions commit one inside the other and promotions move
\* rows under it, unless rows it has passed are deleted or two rows that tie are
\* stored, of two branches.
THEOREM PagesComplete ==
  ASSUME StartBlock >= 1
  PROVE  ApiSpec => []PagesMissNothing
<1>1. ApiInv => PagesMissNothing
  BY DEF ApiInv, PagingInv, PagesMissNothing
<1> QED
  BY <1>1, ApiInvariant, PTL

-----------------------------------------------------------------------------
(* What holds of it when CONFIRMATION_DEPTH is at least as deep as any reorganization. *)

\* The answer of indexerStatus adds up, although each of its five statements sees another
\* database: the checkpoint is read first, and what is read after it covers it.
THEOREM StatusConsistent ==
  ASSUME StartBlock >= 1, ConfirmationDepth >= ReorgDepth
  PROVE  ApiSpec => []StatusAddsUp
<1>1. ApiInit => FInv /\ StatusInv
  BY TxStarts, FinalInit DEF ApiInit, NoStatus, StatusInv
<1>2. ApiInv /\ ApiInv' /\ FInv /\ StatusInv /\ [ApiNext]_apiAll => (FInv /\ StatusInv)'
  <2> SUFFICES ASSUME ApiInv, ApiInv', FInv, StatusInv, [ApiNext]_apiAll
               PROVE  (FInv /\ StatusInv)'
    OBVIOUS
  <2>1. ColdNext
    BY ApiSteps, TxSteps DEF ApiInv
  <2> QED
    BY <2>1, FinalStep, StatusStepKeeps DEF ApiInv, DInv
<1>3. StatusInv => StatusAddsUp
  BY EngineAssumption, ApiAssumption, BoundsAssumption
     DEF StatusInv, StatusAddsUp, StatusStatements, lastProcessed, latestFinalized,
         finalizedCount, Null, Heights
<1> QED
  BY <1>1, <1>2, <1>3, ApiInvariant, PTL DEF ApiSpec, apiAll
=============================================================================
