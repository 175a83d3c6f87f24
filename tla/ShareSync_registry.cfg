SPECIFICATION SyncedSpec
CONSTANTS
    Peers = {a}
    Outsiders = {o}
    Writers = {}
    Slots = {1, 2, 3}
    MaxVersion = 2
    MaxSeq = 2
    MaxLag = 1
    MaxOps = 2
    UserOps = {"announce", "remove", "readd", "restart", "pause", "resume", "fail"}
    Strategies = {"last_write_wins"}
    LocalOnly = FALSE
INVARIANTS SwitchExclusion
CHECK_DEADLOCK FALSE
