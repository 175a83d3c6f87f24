SPECIFICATION Spec
CONSTANTS
    Peers = {a}
    Outsiders = {o}
    Writers = {a}
    Slots = {1, 2}
    MaxVersion = 2
    MaxSeq = 2
    MaxLag = 1
    MaxOps = 2
    UserOps = {"pause", "resume"}
    Strategies = {"last_write_wins"}
    LocalOnly = FALSE
INVARIANT ActiveShareListens
CHECK_DEADLOCK FALSE
