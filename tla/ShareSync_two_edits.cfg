SPECIFICATION SyncedSpec
CONSTANTS
    Peers = {a, b}
    Outsiders = {}
    Writers = {a}
    Slots = {1}
    MaxVersion = 3
    MaxSeq = 0
    MaxLag = 1
    MaxOps = 0
    UserOps = {}
    Strategies = {"last_write_wins"}
    LocalOnly = TRUE
PROPERTY ChangesReplicate
CHECK_DEADLOCK FALSE
