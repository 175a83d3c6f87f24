SPECIFICATION Spec
CONSTANTS
    Peers = {a}
    Outsiders = {}
    Writers = {a}
    Slots = {1, 2}
    MaxVersion = 2
    MaxSeq = 0
    MaxLag = 1
    MaxOps = 0
    UserOps = {}
    Strategies = {"last_write_wins"}
    LocalOnly = TRUE
INVARIANT LocalChangePublished
CHECK_DEADLOCK FALSE
