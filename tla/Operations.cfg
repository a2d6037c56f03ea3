SPECIFICATION OperationsSpec
CONSTANTS
    actor1 = actor1
    actor2 = actor2
    actor3 = actor3
    Limiters <- MCLimiters
    MaxRequests <- MCMaxRequests
    Burst = 2
    WindowTicks = 2
    BucketTtl = 2
    PurgeInterval = 1
    MaxToolCalls = 2
    MaxCount = 6
    LastTick = 5
    ToolNames = {t1, t2}
    Registered = {t1}
    Callers = {actor1, actor2, actor3}
    Prints = {p, q}
    MaxCalls = 4
    Reviewers = {w1, w2}
    MaxReviews = 5
    Operators = {o1}
    Producers = {p1, r1}
    Recoverers = {r1}
    RetryMax = 1
    MaxAsks = 3
    Shelvings <- MCShelvings
    PageLimits = {1, 2, 3}
    Attention = {1, 3, 4, 6, 7}
    Judges = {j1}
    Requests = {q1}
    Datasets <- MCDatasets
    Marks <- MCMarks
    Threshold = 1
    Foreign <- MCForeign
    ListLimit = 1
    MaxSecond = 1
    Tasks = {1}
    QueueCount = 1
    QueueOf <- MCQueueOf
    Setups <- MCSetups
    MaxRetry = 1
    MaxStirs = 1
SYMMETRY AnyActor
INVARIANTS  RunMatchesAnswer OneTicket  
    VerdictAgrees DrainedWhenQuiet
CHECK_DEADLOCK FALSE
