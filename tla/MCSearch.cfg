SPECIFICATION SearchSpec
CONSTANTS
    s1 = s1
    s2 = s2
    Search = {s1, s2}
    File = {"a", "b", "c", "x"}
    Indexable = {"a", "b", "c"}
    Absent = "none"
    BaseTree <- MCBaseTree
    BranchTree <- MCBranchTree
    Merged <- MCMerged
    Setup <- MCSetup
    MaxBase = 1
    MaxBranch = 2
    MaxTime = 3
    MaxFailures = 1
    Interval = 1
    FetchTimeout = 1
    Path = {1, 2, 3}
    Line = {1, 2}
    Limits = {1, 2}
    FileCap = 2
    Batches = {1, 3}
    TreeMatch <- MCTreeMatch
    Orders <- MCOrders
    Sizes <- MCSizes
    Scores <- MCScores
    NoPath = NoPath
SYMMETRY Symmetry
INVARIANTS
    TypeOK
    OneCommit
    NoForkCopy
    SeesPushed
    ParallelResolve
    RefreshesThrottled
    GrepIsHonest
    BatchedRankingExact
    ScanIsBounded
CHECK_DEADLOCK FALSE
