SPECIFICATION FairSpec
CONSTANTS
    Dirs = {r, a, b}
    Root = r
    Names = {x}
    NoPath = NoPath
    MaxOps = 3
    UserOps = {"create", "modify", "delete", "move", "rename_dir", "move_dir_out",
               "switch", "pause"}
INVARIANTS
    TypeOK
    NoLostChange
    PendingIsTimed
    IndexNeverStale
PROPERTIES
    ChangeReported
CHECK_DEADLOCK FALSE
