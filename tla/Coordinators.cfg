SPECIFICATION CoordinatorsSpec
CONSTANTS
    Executions = {v1, v2}
    Tabs = {t1}
    None = None
    MaxFailures = 2
    MaxCrashes = 1
    Exports = {v1, v2}
    MaxActive = 2
    MaxTerminal = 1
    MaxCancels = 1
    WithRelease = TRUE
SYMMETRY Symmetry
CHECK_DEADLOCK FALSE
INVARIANTS
    QueryHistoryIsTheOutcome
    ExportHistoryIsTheOutcome
PROPERTIES
    QuietShutdownDecides
