SPECIFICATION FairSpec
CONSTANTS
    j1 = j1
    j2 = j2
    n1 = n1
    n2 = n2
    Jobs = {j1}
    Names = {n1}
    NameOf <- OneOwnName
    Requests = {r1, r2}
    Faults = {"s3", "batch", "reply"}
    DeleteRunning = TRUE
INVARIANTS
    OutcomeRecorded
    PendingIsWaiting
PROPERTIES
    EveryTaskSettles
    ShownStatusConverges
CHECK_DEADLOCK FALSE
