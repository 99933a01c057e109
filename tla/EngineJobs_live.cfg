SPECIFICATION FairSpec
CONSTANTS
    Jobs = {j1, j2}
    Sessions = {s1}
    NoJob = NoJob
    NoSession = NoSession
    HistoryLimit = 1
    MaxStatements = 2
    SpawnMayFail = FALSE
CHECK_DEADLOCK FALSE
PROPERTIES
    ImplementsService
    AdmittedFinishes
