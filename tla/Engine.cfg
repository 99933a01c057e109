SPECIFICATION EngineSpec
CONSTANTS
    Jobs = {v1, v2}
    Sessions = {s1, s2}
    NoJob = NoJob
    NoSession = NoSession
    HistoryLimit = 1
    MaxStatements = 2
    SpawnMayFail = TRUE
    ExportSessions = {w1}
    Exports = {v1, v2}
    NoExport = NoExport
    ExportLimit = 1
    RowsPerPart = 2
    Footer = 1
    Budget = 4
    MaxRows = 4
    WorkSessions = {w1}
    Imports = {v1, v2}
    Profiles = {p1}
    Others = {o1}
    WorkLimit = 1
    Levels = {low, high}
SYMMETRY Symmetry
CHECK_DEADLOCK FALSE
INVARIANTS
    QueuesMatchStates
    ResultsAreReadable
    ReportedRowsArePublished
    BudgetHolds
    ImportOutcomeIsDatabase
PROPERTIES
    TerminalIsFinal
    ImplementsSharing
