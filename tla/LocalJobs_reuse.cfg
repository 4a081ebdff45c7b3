SPECIFICATION FairSpec
CONSTANTS
    j3 = j3
    n1 = n1
    n2 = n2
    Jobs = {j1, j2, j3}
    Names = {n1, n2}
    NameOf <- NameUsedAgain
    Pids = {p1, p2}
    NoPid = NoPid
    Requests = {r1, r2}
    Faults = {"restart", "pids", "program"}
INVARIANTS
    TypeOK
    ShownFinishedIsOver
    RunningJobOwnsFolder
PROPERTIES
    ShownStatusConverges
CHECK_DEADLOCK FALSE
