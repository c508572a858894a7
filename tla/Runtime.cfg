\* Three workers on two logical processors for up to two rounds; two workers that
\* send packets on a graph of two vertices; a process of up to three threads with
\* two calls each before they exit; two clients that watch two children up to
\* three times.
SPECIFICATION RuntimeSpec
CONSTANTS
    NWorkers = 3
    NParallel = 2
    MaxRounds = 2
    Times = {1, 2}
    SIMTIME_MAX = 9
    Senders = {w1, w2}
    Vertices <- MCVertices
    Latency <- WholeMs
    Directed = FALSE
    MS = 10
    Runahead = 0
    EndTime = 300
    EventTimes = {1, 50, 150, 290}
    TIME_MOD = 1024
    MaxThreads = 3
    MaxCalls = 2
    ExplicitBlock = TRUE
    Pids = {p1, p2}
    Clients = {c1, c2}
    MaxHandles = 3
    None = None
    Finish = Finish
CHECK_DEADLOCK FALSE
INVARIANTS OneWorkerPerLp EveryWorkerRanOnce NextRoundTimeExact
INVARIANTS PathCacheExact RunsToTheEnd Exchange DeathNoticed NothingLost
PROPERTIES TaskFnStableUnderWorkers PoolShutsDown
PROPERTIES ControlReturns ImplementsPromise EveryExitNotified
