SPECIFICATION Spec
CONSTANTS
    Conns = {c1, c2}
    Shares = {s}
    Peers = {a, b, x}
    MaxWaiting = 2
    NoConn = NoConn
INVARIANT WaiterIsListed
CHECK_DEADLOCK FALSE
