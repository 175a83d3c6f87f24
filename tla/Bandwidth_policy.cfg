SPECIFICATION Spec
CONSTANTS
    Limits = {1, 2}
    Calls = {o}
    MaxOps = 4
INVARIANT TypeOK
PROPERTIES PolicyInForce StoredCapReturns
CHECK_DEADLOCK FALSE
