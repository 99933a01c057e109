SPECIFICATION Spec
CONSTANTS
    Executions = {x1}
    Tabs = {t1}
    None = None
    MaxFailures = 2
    MaxCrashes = 1
CHECK_DEADLOCK FALSE
INVARIANTS
    EndedHaveHistory
