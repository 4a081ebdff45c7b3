------------------------------ MODULE BatchDelete ------------------------------
(***************************************************************************)
(* DynamoDBAgent.delete: deleting many entries in batches.  DynamoDB takes *)
(* a bounded batch and may leave any part of it unprocessed; the agent     *)
(* means to send that part again.  CloudJobs has the outcome of this loop, *)
(* which EntryDeletion states; this module has the loop.                   *)
(***************************************************************************)
EXTENDS Naturals, FiniteSets

CONSTANTS
    Ids,             \* the entries to delete
    ChunkSize        \* how many the agent puts into a batch

ASSUME IdsFinite == IsFiniteSet(Ids)
ASSUME ChunkSizeType == ChunkSize \in Nat \ {0}

VARIABLES
    pc,              \* "next", "send", "again", "done", "raised" or "refused"
    todo,            \* the ids in chunks not yet begun
    chunk,           \* the ids of the current chunk
    unprocessed,     \* those of them DynamoDB has left unprocessed
    marked,          \* the ids that the result calls deleted
    gone             \* the ids that are deleted

vars == <<pc, todo, chunk, unprocessed, marked, gone>>

Init ==
    /\ pc = "next"
    /\ todo = Ids
    /\ chunk = {}
    /\ unprocessed = {}
    /\ marked = {}
    /\ gone = {}

-----------------------------------------------------------------------------
(* Mutants of the actions below, one plausible mistake each.               *)

\* Mutants of TakeChunk: chunks one too long; only full chunks.
TakeChunkTooLong ==
    /\ pc = "next" /\ todo # {}
    /\ \E part \in SUBSET todo :
         /\ \/ Cardinality(part) = ChunkSize + 1
            \/ Cardinality(todo) <= ChunkSize /\ part = todo
         /\ chunk' = part
         /\ todo' = todo \ part
    /\ pc' = "send"
    /\ UNCHANGED <<unprocessed, marked, gone>>

TakeFullChunk ==
    /\ pc = "next" /\ todo # {}
    /\ \E part \in SUBSET todo :
         /\ Cardinality(part) = ChunkSize
         /\ chunk' = part
         /\ todo' = IF Cardinality(todo \ part) < ChunkSize THEN {} ELSE todo \ part
    /\ pc' = "send"
    /\ UNCHANGED <<unprocessed, marked, gone>>

\* Mutant of Retry: the exception is swallowed and what was left over forgotten.
RetrySwallowed ==
    /\ pc = "again" /\ unprocessed # {}
    /\ unprocessed' = {}
    /\ UNCHANGED <<pc, todo, chunk, marked, gone>>

\* Mutants of Mark: the leftovers are not looked at; the key of the result
\* that is no id is taken for one.
MarkAnyway ==
    /\ pc = "again"
    /\ marked' = marked \cup chunk
    /\ pc' = "next"
    /\ UNCHANGED <<todo, chunk, unprocessed, gone>>

MarkSuccess ==
    /\ pc = "again" /\ unprocessed = {}
    /\ marked' = marked \cup chunk \cup {"success"}
    /\ pc' = "next"
    /\ UNCHANGED <<todo, chunk, unprocessed, gone>>

-----------------------------------------------------------------------------
\* utils.chunks: full chunks and a last one with the remainder.
TakeChunk ==
    /\ pc = "next" /\ todo # {}
    /\ \E part \in SUBSET todo :
         /\ \/ Cardinality(part) = ChunkSize
            \/ Cardinality(todo) < ChunkSize /\ part = todo
         /\ chunk' = part
         /\ todo' = todo \ part
    /\ pc' = "send"
    /\ UNCHANGED <<unprocessed, marked, gone>>

\* DynamoDB deletes a part of the batch and reports the rest, or the call
\* raises: boto has given up on it, and any part of the batch may be deleted.
Send ==
    /\ pc = "send"
    /\ \E rest \in SUBSET chunk :
         /\ gone' = gone \cup (chunk \ rest)
         /\ \/ pc' = "again" /\ unprocessed' = rest
            \/ pc' = "raised" /\ UNCHANGED unprocessed
    /\ UNCHANGED <<todo, chunk, marked>>

\* boto's layer2 has replaced the keys of its answer, {"S": id}, by the plain
\* ids.  The agent sends them as they are through layer1, DynamoDB refuses a
\* request without typed keys, and layer1 raises: nothing of it is deleted, and
\* the lines that would mark the leftovers are never reached with any.
Retry ==
    /\ pc = "again" /\ unprocessed # {}
    /\ pc' = "refused"
    /\ UNCHANGED <<todo, chunk, unprocessed, marked, gone>>

Mark ==
    /\ pc = "again" /\ unprocessed = {}
    /\ marked' = marked \cup chunk
    /\ pc' = "next"
    /\ UNCHANGED <<todo, chunk, unprocessed, gone>>

Return ==
    /\ pc = "next" /\ todo = {}
    /\ pc' = "done"
    /\ UNCHANGED <<todo, chunk, unprocessed, marked, gone>>

Next == TakeChunk \/ Send \/ Retry \/ Mark \/ Return

Spec == Init /\ [][Next]_vars

-----------------------------------------------------------------------------
(* Every variable keeps its type.                                          *)
TypeOK ==
    /\ pc \in {"next", "send", "again", "done", "raised", "refused"}
    /\ todo \subseteq Ids /\ chunk \subseteq Ids /\ unprocessed \subseteq Ids
    /\ marked \subseteq Ids /\ gone \subseteq Ids

(* What the result calls deleted is deleted: the output of a job and its   *)
(* wrapper are only removed after its entry.                               *)
MarkedIsGone == marked \subseteq gone

(* When the loop is done it has reported on every id, the last and partial *)
(* chunk included.                                                         *)
EveryIdReported == pc = "done" => marked = Ids

(* No batch is empty or larger than DynamoDB takes.                        *)
BatchFits == pc = "send" => Cardinality(chunk) \in 1 .. ChunkSize

(* The loop does what a deletion promises: it is answered only when every  *)
(* entry is gone; otherwise it raises, whatever is gone by then.           *)
answerBar == CASE pc = "done"                  -> "answered"
               [] pc \in {"raised", "refused"} -> "raised"
               [] OTHER                        -> "none"

Deletion == INSTANCE EntryDeletion WITH left <- Ids \ gone, answer <- answerBar

ImplementsDeletion == Deletion!Spec

=============================================================================
