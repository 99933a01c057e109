SPECIFICATION DesktopSpec
CONSTANTS
    RowLimit = 3
    Today = 3
    Checks = {k1}
    RunIds = {v1, v2}
    HistoryLimit = 1
    RecordLimit = 1
    PreviewLimit = 1
    RevisionLimit = 2
    RunUpsets = 1
    PlanLimit = 2
    BackupLimit = 2
    EventLimit = 2
    Ids = {v1, v2}
    Callers = {w1, w2}
    Folders = {x1, x2}
    Names = {y1, y2}
    None = None
    ProjectCommands = 4
    ProjectUpsets = 2
    Instances = {v1, v2}
    Streams = {w1, w2}
    Profiles = {p1, p2}
    NoInstance = NoInstance
    NoStream = NoStream
    NoProfile = NoProfile
    ConnectionLimit = 1
    Numbers = 2
    BridgeCommands = 3
    BridgeUpsets = 2
    LinkPaths = {x1, x2}
    Levels = {y1, y2}
    ProcessLimit = 3
    SessionLimit = 3
    LinkCommands = 4
    LinkUpsets = 2
    Client = Client
    Destinations = {v1, v2}
    Proposals = {e1}
    OwnerLimit = 1
    FolderCommands = 3
    FolderUpsets = 2
    Executions = {v1, v2, v3}
    Clicks = {w1, w2}
    Nobody = Nobody
    FailureLimit = 2
SYMMETRY Symmetry
CHECK_DEADLOCK FALSE
INVARIANTS
    OutcomeIsThePromise
    ToldRunsAreSettled
    ReportsAreTrue
    SessionIsActives
    RecordFindsData
    AnswersAreAsked
    StoppedIsQuiet
    NoSessionLeaks
    RunsAsRequested
    StartsWherePicked
    TabShowsLatest
PROPERTIES
    ForeignIsKept
