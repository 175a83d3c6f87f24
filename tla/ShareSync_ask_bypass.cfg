SPECIFICATION Spec
CONSTANTS
    Peers = {a}
    Outsiders = {o}
    Writers = {a}
    Slots = {1, 2}
    MaxVersion = 3
    MaxSeq = 2
    MaxLag = 1
    MaxOps = 1
    UserOps = {"announce"}
    Strategies = {"ask"}
    LocalOnly = TRUE
PROPERTY AskNeverOverwrites
CHECK_DEADLOCK FALSE
