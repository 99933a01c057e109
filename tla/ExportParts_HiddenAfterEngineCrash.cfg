SPECIFICATION Spec
CONSTANTS
    Exports = {e1}
    MaxParts = 1
    User = User
    None = None
    MaxCrashes = 1
    EngineDiesAlone = TRUE
    RenameMayFail = FALSE
    RestoreMayFail = FALSE
CHECK_DEADLOCK FALSE
INVARIANTS
    HiddenIsAccountedFor
