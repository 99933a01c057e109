SPECIFICATION AgentsSpec
CONSTANTS
    Clients = {p1}
    Connections = {v1, v2}
    Approvals = {w1, w2}
    NoClient = NoClient
    NoConnection = NoConnection
    NoApproval = NoApproval
    ConnectionLimit = 2
    PendingLimit = 2
    RevisionLimit = 2
    EventLimit = 2
    Exports = {w1, w2}
    Owner = c1
    Nobody = Nobody
    TerminalLimit = 1
    TurnLimit = 2
SYMMETRY Symmetry
CHECK_DEADLOCK FALSE
INVARIANTS
    AppliedIsAccounted
    
    StartedAsDecided
    AuditedOnce
PROPERTIES
    ImplementsOneUse
