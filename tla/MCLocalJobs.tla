------------------------------ MODULE MCLocalJobs ------------------------------
(* Small instances of LocalJobs for TLC. *)
EXTENDS LocalJobs, TLC

CONSTANTS j3, n1, n2

\* All jobs but the third are given the same name.
NameUsedAgain == [j \in Jobs |-> IF j = j3 THEN n2 ELSE n1]

=============================================================================
