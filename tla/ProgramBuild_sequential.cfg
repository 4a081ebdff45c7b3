SPECIFICATION BuildSpec
CONSTANTS
    u1 = u1
    u2 = u2
    a1 = a1
    a2 = a2
    VMs = {v1, v2, v3, v4}
    Users = {u1, u2}
    Builder = builder
    Accounts = {a1, a2}
    AccountOf <- SharedAccount
    Covers <- PrefixOfOther
    Counts = {0, 1, 2}
    Requests = {r1}
    Faults = {"late worker", "refuse", "alarm", "image"}
    p1 = p1
    p2 = p2
    Repos = {p1, p2}
    Suffixes <- OneSuffix
    Deployed <- FirstProgram
SYMMETRY BuildSymmetry
INVARIANTS
    BuildTypeOK
    OneHead
    OfferedIsBuilt
    WorkersRunOffered
    OfferedOnce
PROPERTIES
    WorkersFindHead
    StopLeavesNone
