SPECIFICATION FairSpec
CONSTANTS
    Shares = {s, l}
    LocalShares = {l}
    Stored = {s}
    Clients = {c}
    Free = Free
    Threads = 1
    Workers = 2
    ControlThreads = 1
    BackoffMax = 2
    Working = {s}
    Gens = 2
    MaxOutages = 1
    MaxOps = 2
    UserOps = {"add", "pause", "resume", "remove", "rpc", "direct", "watch"}
PROPERTY
    JobsRun
CHECK_DEADLOCK FALSE
