----------------------------- MODULE EntryDeletion -----------------------------
(***************************************************************************)
(* What the rest of CloudRunner relies on when it deletes entries of the   *)
(* database: the entries go one or several at a time and in any order, and *)
(* the deletion is answered only when all of them are gone; it may raise,  *)
(* with any of them gone.  CloudJobs deletes in this way (DeleteEntry,     *)
(* DeleteEntriesDone, DeleteBatchRaises).                                  *)
(***************************************************************************)
CONSTANT Ids

VARIABLES
    left,       \* the entries that are still there
    answer      \* "none" until the deletion is "answered" or has "raised"

vars == <<left, answer>>

Init == left = Ids /\ answer = "none"

DeleteSome ==
    /\ answer = "none"
    /\ left' \in SUBSET left
    /\ UNCHANGED answer

Answer ==
    /\ answer = "none" /\ left = {}
    /\ answer' = "answered"
    /\ UNCHANGED left

\* A call that raises may have deleted any part, or all that was left.
Raise ==
    /\ answer = "none"
    /\ left' \in SUBSET left
    /\ answer' = "raised"

Next == DeleteSome \/ Answer \/ Raise

Spec == Init /\ [][Next]_vars

=============================================================================
