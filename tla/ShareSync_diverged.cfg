SPECIFICATION DivergedSpec
CONSTANTS
    Peers = {a, b}
    Outsiders = {}
    Writers = {}
    Slots = {1}
    MaxVersion = 2
    MaxSeq = 0
    MaxLag = 1
    MaxOps = 0
    UserOps = {}
    Strategies = {"last_write_wins"}
    LocalOnly = TRUE
PROPERTY OneContentWins
CHECK_DEADLOCK FALSE
