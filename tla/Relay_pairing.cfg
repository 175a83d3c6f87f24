SPECIFICATION FairSpec
CONSTANTS
    Conns = {c1, c2, c3}
    Shares = {s}
    Peers = {a, b}
    MaxWaiting = 1
    NoConn = NoConn
INVARIANTS TypeOK OneTunnelPerSession WaitingBounded
PROPERTIES WaitEnds ImplementsRendezvous
CHECK_DEADLOCK FALSE
