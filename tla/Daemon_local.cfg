SPECIFICATION FairSpec
CONSTANTS
    Shares = {s, l}
    LocalShares = {l}
    Stored = {s, l}
    Clients = {c}
    Free = Free
    Threads = 2
    Workers = 2
    ControlThreads = 1
    BackoffMax = 2
    Working = {s}
    Gens = 2
    MaxOutages = 1
    MaxOps = 2
    UserOps = {"add", "pause", "resume", "remove", "rpc", "direct", "watch"}
PROPERTY
    LocalNeedsNoRegistry
CHECK_DEADLOCK FALSE
