SPECIFICATION AccessSpec
CONSTANTS
    Clients = {p1}
    Connections = {c1, c2}
    Approvals = {a1, a2}
    NoClient = NoClient
    NoConnection = NoConnection
    NoApproval = NoApproval
    ConnectionLimit = 2
    PendingLimit = 2
    RevisionLimit = 2
    EventLimit = 4
CHECK_DEADLOCK FALSE
INVARIANTS
    FailedIsRolledBack
