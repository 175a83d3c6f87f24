SPECIFICATION FairSpec
CONSTANTS
    Peers = {a, b}
    NoPeer = NoPeer
    Announcers = {a}
    Steady = {a}
    Watchers = {a, b}
    Streams = {s1, s2}
    NoStream = NoStream
    UserOps = {"add", "remove", "watch", "disconnect"}
    MaxOps = 3
    MaxTime = 2
    LiveSize = 1
    Workers = 3
    StubsTopLevel = TRUE
    QueueSize = 1
    MaxReady = 1
    TtlHints = {1}
    TtlMin = 1
    TtlMax = 2
INVARIANTS TypeOK OwnerIsMember
PROPERTY HeartbeatSeen
CHECK_DEADLOCK FALSE
