SPECIFICATION FairSpec
CONSTANTS
    Peers = {a}
    NoPeer = NoPeer
    Announcers = {a}
    Steady = {a}
    Watchers = {a}
    Streams = {s1}
    NoStream = NoStream
    UserOps = {"watch", "disconnect"}
    MaxOps = 2
    MaxTime = 1
    LiveSize = 1
    Workers = 3
    StubsTopLevel = TRUE
    QueueSize = 1
    MaxReady = 2
    TtlHints = {1}
    TtlMin = 1
    TtlMax = 2
PROPERTY LoopGoesOn
CHECK_DEADLOCK FALSE
