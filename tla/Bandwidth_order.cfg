SPECIFICATION Spec
CONSTANTS
    Limits = {1, 2}
    Calls = {o, q}
    MaxOps = 3
PROPERTY PolicyInForce
CHECK_DEADLOCK FALSE
