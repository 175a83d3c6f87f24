SPECIFICATION EditedOnceSpec
CONSTANTS
    Peers = {a, b, c}
    Outsiders = {}
    Writers = {a}
    Slots = {1}
    MaxVersion = 3
    MaxSeq = 0
    MaxLag = 1
    MaxOps = 0
    UserOps = {}
    Strategies = {"last_write_wins"}
    LocalOnly = TRUE
INVARIANTS RowMatchesHandle SeedingIsWatched NoPartialPublished LocalChangePublished
PROPERTY ChangesReplicate
CHECK_DEADLOCK FALSE
