SPECIFICATION Spec
CONSTANTS
    actor1 = actor1
    actor2 = actor2
    Paths = {1, 2}
    Sums = {1}
    Workers = {actor1, actor2}
    BatchSize = 2
    MaxManaged = 2
    MaxEdits = 2
    MaxFaults = 1
    MaxRounds = 3
    Actors = {actor1, actor2}
    Versions = {1, 2}
    ImportIds = {2}
    MaxActs = 4
    Docs = {1, 2}
    VersionsOf <- MCVersionsOf
    ReviewLimit = 1
    MaxMoves = 3
    Files <- MCFiles
    Prose = {4}
    Levels = 3
    Configs <- MCConfigs
    Writers = {actor1, actor2}
    DocOf <- MCDocOf
    EmbeddingVersions = {0, 1}
    Acls <- MCAcls
    Answers <- MCAnswers
    Queries <- MCQueries
    IndexDim = 1
    MaxRows = 5
    MaxTxns = 3
    Rankers = {actor1, actor2}
    Adapters = {"local", "llm", "api"}
    MaxConcurrency = 1
    MaxQueueSize = 1
    MaxRetries = 1
    BatchCount = 2
    FailureThreshold = 2
    SuccessThreshold = 2
    OpenTime = 2
    MaxJobs = 3
    MaxTicks = 3
    Sessions = {1}
    Clients = {actor1, actor2}
    Checks = {k1}
    AccessLife = 1
    RefreshLife = 2
    MaxTime = 3
    MaxJti = 5
    Verifiers = {actor1, actor2}
    Kids = {k1}
    Keys = {m1, m2}
    FirstKey = m1
    CacheTime = 3
    ForceGap = 1
    FetchTime = 1
    MaxKeyTime = 3
    MaxVerifies = 2
    MaxRotations = 1
    Admins = {actor1, actor2}
    Names = {s, n}
    SeedName = s
    MaxGroups = 2
    Recorders = {w1}
    Visits = {actor1, actor2}
    Tenants = {ta, tb}
    RequestIds = {q1}
    Tools = {t1}
    Summaries <- MCSummaries
    MaxLimit = 1
    MaxInstant = 1
    MaxEvents = 1
    MaxToolRows = 1
    Runs = {actor1, actor2}
    Cases <- MCCases
    Policies <- MCPolicies
    Captures <- MCCaptures
    Unit = 2
    MaxChanges = 1
SYMMETRY AnyActor
INVARIANTS  ProjectionAgrees NothingLost  CapacityHeld
    RevokedFinal RetiredKeyDies  
PROPERTIES  AdoptsNothing
CHECK_DEADLOCK FALSE
