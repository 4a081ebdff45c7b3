----------------------------- MODULE MCCloudFleet -----------------------------
(* Small instances of CloudFleet for TLC. *)
EXTENDS CloudFleet, TLC

CONSTANTS u1, u2, a1, a2

\* Everybody uses the same EC2 account.
SharedAccount == [u \in Owners |-> a1]

\* The second user has an account of their own.
OwnAccounts == [u \in Owners |-> IF u = u2 THEN a2 ELSE a1]

\* The id of u2 begins with the id of u1.
PrefixOfOther == [u \in Users |-> IF u = u1 THEN Users ELSE {u}]

FleetSymmetry == Permutations(VMs) \cup Permutations(Requests)

=============================================================================
