SPECIFICATION Spec
CONSTANTS
    j1 = j1
    j2 = j2
    n1 = n1
    n2 = n2
    Jobs = {j1}
    Names = {n1}
    NameOf <- OneOwnName
    Requests = {r1, r2}
    Faults = {"put", "table", "get", "batch", "s3", "web", "worker", "broker"}
    DeleteRunning = FALSE
INVARIANTS
    TypeOK
    ShownOutcomeIsTrue
    RecordedOutputExists
PROPERTIES
    SettledEntryFrozen
    ImplementsLifecycle
CHECK_DEADLOCK FALSE
