SPECIFICATION Spec
CONSTANTS
    u1 = u1
    u2 = u2
    a1 = a1
    a2 = a2
    VMs = {v1, v2, v3}
    Users = {u1, u2}
    Builder = builder
    Accounts = {a1, a2}
    AccountOf <- OwnAccounts
    Covers <- PrefixOfOther
    Counts = {1, 2}
    Requests = {r1}
    Faults = {}
SYMMETRY FleetSymmetry
PROPERTIES
    WorkersFindHead
