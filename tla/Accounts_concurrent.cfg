SPECIFICATION PartsSpec
CONSTANTS
    e1 = e1
    e2 = e2
    e3 = e3
    Users = {u1, u2}
    Admins = {u1}
    Addresses = {e1, e2, e3}
    Applicants = {e1, e2}
    Lists = {1, 2}
    Requests = {r1, r2}
SYMMETRY AllRequests
INVARIANTS
    TypeOK
    NoSharedAddress
    AddressesReserved
    RefusedIsTaken
    ListKeepsDecisions
PROPERTIES
    DeletedStaysDeleted
    ImplementsAddressBook
CHECK_DEADLOCK FALSE
