------------------------------ MODULE MCCloudJobs ------------------------------
(* Small instances of CloudJobs for TLC. *)
EXTENDS CloudJobsLifecycle, TLC

CONSTANTS j1, j2, n1, n2

\* Each job has a name of its own.
OwnNames == (j1 :> n1) @@ (j2 :> n2)

OneOwnName == j1 :> n1

RequestSymmetry == Permutations(Requests)

=============================================================================
