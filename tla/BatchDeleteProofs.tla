--------------------------- MODULE BatchDeleteProofs ---------------------------
(***************************************************************************)
(* Theorems about BatchDelete, for any ids and chunk size.                 *)
(***************************************************************************)
EXTENDS BatchDelete, FiniteSetTheorems, TLAPS

\* Every id is still to come, in the current chunk, or reported.
NoIdForgotten == Ids = todo \cup marked \cup (IF pc \in {"send", "again", "raised", "refused"} THEN chunk ELSE {})

\* What has been sent and is not left over is deleted.
ProcessedIsGone == pc = "again" => chunk \ unprocessed \subseteq gone

\* Nothing is left to come when the loop is done.
DoneIsDone == pc = "done" => todo = {}

BatchInv ==
    /\ TypeOK /\ MarkedIsGone /\ BatchFits
    /\ NoIdForgotten /\ ProcessedIsGone /\ DoneIsDone

LEMMA BatchInit == Init => BatchInv
  BY DEF Init, BatchInv, TypeOK, MarkedIsGone, BatchFits, NoIdForgotten, ProcessedIsGone, DoneIsDone

\* A chunk is neither empty nor too long.
LEMMA ChunkFits ==
    ASSUME TypeOK, TakeChunk
    PROVE  Cardinality(chunk') \in 1 .. ChunkSize
  <1>1. IsFiniteSet(todo) /\ Cardinality(todo) \in Nat
    BY IdsFinite, FS_Subset, FS_CardinalityType DEF TypeOK
  <1>2. Cardinality(todo) # 0
    BY <1>1, FS_EmptySet DEF TakeChunk
  <1>3. QED
    BY <1>1, <1>2, ChunkSizeType DEF TakeChunk

\* Every step preserves the invariant.
LEMMA BatchNext == BatchInv /\ [Next]_vars => BatchInv'
  <1> SUFFICES ASSUME BatchInv, [Next]_vars PROVE BatchInv'
    OBVIOUS
  <1> USE DEF BatchInv, TypeOK, MarkedIsGone, BatchFits, NoIdForgotten, ProcessedIsGone,
              DoneIsDone
  <1>1. CASE TakeChunk
    <2>1. Cardinality(chunk') \in 1 .. ChunkSize
      BY <1>1, ChunkFits
    <2>2. QED
      BY <1>1, <2>1 DEF TakeChunk
  <1>2. CASE Send
    BY <1>2 DEF Send
  <1>3. CASE Retry
    BY <1>3 DEF Retry
  <1>4. CASE Mark
    BY <1>4 DEF Mark
  <1>5. CASE Return
    BY <1>5 DEF Return
  <1>6. CASE UNCHANGED vars
    BY <1>6 DEF vars
  <1>7. QED
    BY <1>1, <1>2, <1>3, <1>4, <1>5, <1>6 DEF Next

\* Every variable keeps its type.
THEOREM BatchTypeCorrect == Spec => []TypeOK
  <1>1. BatchInv => TypeOK
    BY DEF BatchInv
  <1>2. QED
    BY <1>1, BatchInit, BatchNext, PTL DEF Spec

\* What the result calls deleted is deleted, whatever DynamoDB leaves over.
THEOREM ReportIsTrue == Spec => []MarkedIsGone
  <1>1. BatchInv => MarkedIsGone
    BY DEF BatchInv
  <1>2. QED
    BY <1>1, BatchInit, BatchNext, PTL DEF Spec

\* A finished loop has reported on every id.
THEOREM ReportIsComplete == Spec => []EveryIdReported
  <1>1. BatchInv => EveryIdReported
    <2> SUFFICES ASSUME BatchInv, pc = "done" PROVE marked = Ids
      BY DEF EveryIdReported
    <2>1. todo = {}
      BY DEF BatchInv, DoneIsDone
    <2>2. QED
      BY <2>1 DEF BatchInv, NoIdForgotten
  <1>2. QED
    BY <1>1, BatchInit, BatchNext, PTL DEF Spec

\* Every batch is one that DynamoDB takes.
THEOREM BatchesFit == Spec => []BatchFits
  <1>1. BatchInv => BatchFits
    BY DEF BatchInv
  <1>2. QED
    BY <1>1, BatchInit, BatchNext, PTL DEF Spec

-----------------------------------------------------------------------------
(* The loop is a deletion.                                                 *)

LEMMA DeletionStep ==
    ASSUME BatchInv, [Next]_vars
    PROVE  [Deletion!Next]_(Deletion!vars)
  <1> USE DEF Deletion!Next, Deletion!vars
  <1>1. CASE TakeChunk \/ Mark \/ UNCHANGED vars
    BY <1>1 DEF TakeChunk, Mark, vars, answerBar
  <1>2. CASE Send
    BY <1>2 DEF Send, answerBar, Deletion!DeleteSome, Deletion!Raise
  <1>3. CASE Retry
    BY <1>3 DEF Retry, answerBar, Deletion!Raise
  <1>4. CASE Return
    <2>1. Ids \ gone = {}
      BY <1>4 DEF Return, BatchInv, NoIdForgotten, MarkedIsGone
    <2>2. QED
      BY <1>4, <2>1 DEF Return, answerBar, Deletion!Answer
  <1>5. QED
    BY <1>1, <1>2, <1>3, <1>4 DEF Next

\* However the ids are cut into batches, whatever DynamoDB leaves over and
\* whichever call raises, the deletion is answered only when every entry is gone.
THEOREM DeletionImplemented == Spec => ImplementsDeletion
  <1>1. Init => Deletion!Init
    BY DEF Init, Deletion!Init, answerBar
  <1>2. BatchInv /\ [Next]_vars => [Deletion!Next]_(Deletion!vars)
    BY DeletionStep
  <1>3. QED
    BY <1>1, <1>2, BatchInit, BatchNext, PTL DEF Spec, ImplementsDeletion, Deletion!Spec

=============================================================================
