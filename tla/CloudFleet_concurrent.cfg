SPECIFICATION FairSpec
CONSTANTS
    u1 = u1
    u2 = u2
    a1 = a1
    a2 = a2
    VMs = {v1, v2}
    Users = {u1, u2}
    Builder = builder
    Accounts = {a1, a2}
    AccountOf <- OwnAccounts
    Covers <- PrefixOfOther
    Counts = {0, 1, 2}
    Requests = {r1, r2}
    Faults = {"late head", "late worker", "refuse", "address", "alarm"}
INVARIANTS
    TypeOK
    LaunchedAsAsked
    WaitsCanEnd
PROPERTIES
    HeadsStayUp
    EveryRequestEnds
