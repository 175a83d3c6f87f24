SPECIFICATION Spec
CONSTANTS
    Limits = {1, 2}
    Calls = {o}
    MaxOps = 2
INVARIANT CapHonoured
CHECK_DEADLOCK FALSE
