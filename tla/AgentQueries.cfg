SPECIFICATION Spec
CONSTANTS
    c1 = c1
    c2 = c2
    s1 = s1
    s2 = s2
    Connections = {c1, c2}
    Reaper = Reaper
    Desktop = Desktop
    Profiles = {1, 2}
    ProfileOf <- TwoProfiles
    Snapshots = {s1, s2}
    SnapshotOf <- TwoOwners
    NoSnapshot = NoSnapshot
    MaxExecutions = 2
    OutstandingLimit = 2
    ResultLimit = 1
    ResultBytes = 2
    CacheBytes = 3
    MaxBusy = 2
    MaxEvents = 3
INVARIANTS
    SnapshotsReturn
    ClaimHasScheduler
    Watched
    
