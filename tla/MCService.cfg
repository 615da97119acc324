SPECIFICATION ServiceSpec
CONSTANTS
    c1 = c1
    c2 = c2
    c3 = c3
    Client = {c1, c2, c3}
    Kinds = {"index", "search", "ripgrep", "project_status", "compact", "push_metrics", "workflow",
             "remove", "stop", "doctor", "pull", "status"}
    Mixes <- MCMixes
    Slots = 2
    MaxMute = 1
    NoProject = NoProject
    NoClient = NoClient
    DayLength = 4
    RunTimes = {1, 3}
    PollCap = 2
    MaxRun = 3
    MaxWall = 15
    Workspace = {"w"}
    LoadedProject = {"l"}
    Caller = {"p", "q", "r"}
    Searcher = {"q", "r"}
    Interval = 2
    MaxAttempts = 2
    MaxBackoff = 1
    Nobody = "nobody"
    Push = {"pass", "demanded"}
    Demanded = {"demanded"}
    Table = {"repo", "language"}
    Unknown <- MCUnknown
    SafetyMargin = 15
    PerFileCost = 1
    MinInflight = 4
    EngineDefault = 12
    ScanShare = 25
    MinBatch = 1
    MaxBatch = 4
    DefaultBatch = 2
    DefaultScans = 2
    V1Unlimited = 100
    Machines <- MCMachines
    SettingsDir = ".cocoindex_code"
    Starts <- MCStarts
    Deployments <- MCDeployments
INVARIANTS
    OneEnvironment
    OnceADay
    EveryDayServed
    Paced
    SnapshotsWhole
    BudgetFits
    MappingsInvert
PROPERTIES
    EveryClientEnds
    EveryCallerServed
CHECK_DEADLOCK FALSE
