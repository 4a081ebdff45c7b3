---------------------------- MODULE MCProgramBuild ----------------------------
(* Small instances of ProgramBuild for TLC. *)
EXTENDS ProgramBuild, TLC

CONSTANTS u1, u2, a1, a2, p1, p2

\* Everybody uses the same EC2 account.
SharedAccount == [u \in Owners |-> a1]

\* The id of u2 begins with the id of u1.
PrefixOfOther == [u \in Users |-> IF u = u1 THEN Users ELSE {u}]

\* p1 was deployed before, and no other directory can be created for it.
OneSuffix == [repo \in Repos |-> {0}]

FirstProgram == {<<p1, 0>>}

BuildSymmetry == Permutations(VMs)

=============================================================================
