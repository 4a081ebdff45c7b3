----------------------------- MODULE JobLifecycle -----------------------------
(***************************************************************************)
(* What CloudRunner promises about a cloud job: it is submitted once, runs *)
(* at most once, ends in one final state, and when it is deleted it never  *)
(* comes back.  Its output is stored before anyone is told where it is,    *)
(* and is only discarded after the job's record is gone.                   *)
(***************************************************************************)
CONSTANT Jobs

VARIABLES
    phase,      \* phase[j]: where job j is in its life
    linked,     \* the jobs whose record tells where the output is
    stored      \* the jobs whose output is stored

vars == <<phase, linked, stored>>

Phases == {"new", "pending", "running", "failed", "finished", "deleted"}

Open == {"pending", "running"}

Init ==
    /\ phase = [j \in Jobs |-> "new"]
    /\ linked = {}
    /\ stored = {}

Submit(j) ==
    /\ phase[j] = "new"
    /\ phase' = [phase EXCEPT ![j] = "pending"]
    /\ UNCHANGED <<linked, stored>>

Start(j) ==
    /\ phase[j] = "pending"
    /\ phase' = [phase EXCEPT ![j] = "running"]
    /\ UNCHANGED <<linked, stored>>

Store(j) ==
    /\ phase[j] \in Open
    /\ stored' = stored \cup {j}
    /\ UNCHANGED <<phase, linked>>

\* The record may miss that the job was running, never how it has ended.
Finish(j) ==
    /\ phase[j] \in Open
    /\ j \in stored
    /\ phase' = [phase EXCEPT ![j] = "finished"]
    /\ linked' = linked \cup {j}
    /\ UNCHANGED stored

\* A job can fail with or without an output to look at.
Fail(j) ==
    /\ phase[j] \in Open
    /\ phase' = [phase EXCEPT ![j] = "failed"]
    /\ \/ j \in stored /\ linked' = linked \cup {j}
       \/ UNCHANGED linked
    /\ UNCHANGED stored

Delete(j) ==
    /\ phase[j] \in Phases \ {"new", "deleted"}
    /\ phase' = [phase EXCEPT ![j] = "deleted"]
    /\ linked' = linked \ {j}
    /\ UNCHANGED stored

Discard(j) ==
    /\ phase[j] = "deleted"
    /\ stored' = stored \ {j}
    /\ UNCHANGED <<phase, linked>>

Next == \E j \in Jobs : \/ Submit(j) \/ Start(j) \/ Store(j) \/ Finish(j)
                        \/ Fail(j) \/ Delete(j) \/ Discard(j)

Spec == Init /\ [][Next]_vars

=============================================================================
