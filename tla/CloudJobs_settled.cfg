SPECIFICATION Spec
CONSTANTS
    j1 = j1
    j2 = j2
    n1 = n1
    n2 = n2
    Jobs = {j1, j2}
    Names = {n1, n2}
    NameOf <- OwnNames
    Requests = {r1, r2}
    Faults = {}
    DeleteRunning = FALSE
SYMMETRY RequestSymmetry
INVARIANTS
    DeletedLeavesNothing
CHECK_DEADLOCK FALSE
