SPECIFICATION FairSpec
CONSTANTS
    Shares = {s, l}
    LocalShares = {l}
    Stored = {s}
    Clients = {c}
    Free = Free
    Threads = 2
    Workers = 2
    ControlThreads = 1
    BackoffMax = 2
    Working = {s}
    Gens = 2
    MaxOutages = 1
    MaxOps = 1
    UserOps = {"add", "pause", "resume", "remove", "rpc", "direct", "watch"}
INVARIANTS
    TypeOK
    NextBelongsToTask
PROPERTIES
    LoopReturns
    JobsRun
    StreamReturns
    ShutdownEnds
CHECK_DEADLOCK FALSE
