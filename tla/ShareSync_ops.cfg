SPECIFICATION Spec
CONSTANTS
    Peers = {a}
    Outsiders = {o}
    Writers = {a}
    Slots = {1, 2}
    MaxVersion = 2
    MaxSeq = 2
    MaxLag = 1
    MaxOps = 2
    UserOps = {"announce", "resolve", "restart", "delete", "strategy", "fail"}
    Strategies = {"rename_conflict", "ask"}
    LocalOnly = TRUE
INVARIANTS TypeOK SwitchExclusion SeqCoversVersion
PROPERTY SeqMonotonic
CHECK_DEADLOCK FALSE
