-------------------------- MODULE CloudJobsLifecycle --------------------------
(***************************************************************************)
(* CloudJobs implements JobLifecycle for users who delete only jobs that   *)
(* the page shows as Finished or Failed, when names are not shared and no  *)
(* database write both takes effect and raises.                            *)
(***************************************************************************)
EXTENDS CloudJobs

phaseBar == [j \in Jobs |-> IF db[j] # NoEntry THEN db[j].status
                            ELSE IF submit[j] \in {"new", "named"} THEN "new"
                            ELSE "deleted"]

linkedBar == {j \in Jobs : db[j].url}

storedBar == {j \in Jobs : NameOf[j] \in s3}

Lifecycle == INSTANCE JobLifecycle WITH phase <- phaseBar, linked <- linkedBar, stored <- storedBar

(* A job's entry and output go through the promised life: no entry comes   *)
(* back after its deletion, no final status changes, and an entry that     *)
(* tells where the output is never outlives it.                            *)
ImplementsLifecycle == Lifecycle!Spec

=============================================================================
