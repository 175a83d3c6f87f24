SPECIFICATION Spec
CONSTANTS
    Dirs = {d1, d2}
    Names = {x, y}
    MaxSize = 2
    MaxWrites = 1
SYMMETRY Interchangeable
INVARIANTS OthersSurvive UniquePlaced
CHECK_DEADLOCK FALSE
