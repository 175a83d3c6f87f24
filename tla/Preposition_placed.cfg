SPECIFICATION Spec
CONSTANTS
    Dirs = {d1, d2}
    Names = {x}
    MaxSize = 1
    MaxWrites = 0
INVARIANT PlacedStays
CHECK_DEADLOCK FALSE
