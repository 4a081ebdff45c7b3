SPECIFICATION Spec
CONSTANTS
    j1 = j1
    j2 = j2
    n1 = n1
    n2 = n2
    Jobs = {j1}
    Names = {n1}
    NameOf <- OneOwnName
    Requests = {r1}
    Faults = {}
    DeleteRunning = TRUE
INVARIANTS
    DeletedLeavesNothing
CHECK_DEADLOCK FALSE
