SPECIFICATION Spec
CONSTANTS
    Peers = {a}
    Outsiders = {o}
    Writers = {}
    Slots = {1, 2}
    MaxVersion = 2
    MaxSeq = 2
    MaxLag = 1
    MaxOps = 2
    UserOps = {"announce", "restart"}
    Strategies = {"last_write_wins"}
    LocalOnly = TRUE
INVARIANT NoPartialPublished
CHECK_DEADLOCK FALSE
