SPECIFICATION Spec
CONSTANTS
    Peers = {a}
    Outsiders = {o}
    Writers = {a}
    Slots = {1, 2}
    MaxVersion = 3
    MaxSeq = 2
    MaxLag = 1
    MaxOps = 2
    UserOps = {"announce"}
    Strategies = {"last_write_wins"}
    LocalOnly = TRUE
INVARIANT RowMatchesHandle
CHECK_DEADLOCK FALSE
