SPECIFICATION Spec
CONSTANTS
    Peers = {a}
    Outsiders = {o}
    Writers = {a}
    Slots = {1, 2}
    MaxVersion = 2
    MaxSeq = 2
    MaxLag = 1
    MaxOps = 2
    UserOps = {"announce", "remove"}
    Strategies = {"last_write_wins"}
    LocalOnly = TRUE
INVARIANT RemovedLeavesNothing
CHECK_DEADLOCK FALSE
