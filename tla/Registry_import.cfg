SPECIFICATION FairSpec
CONSTANTS
    Peers = {a}
    NoPeer = NoPeer
    Announcers = {a}
    Steady = {}
    Watchers = {a}
    Streams = {s1}
    NoStream = NoStream
    UserOps = {}
    MaxOps = 0
    MaxTime = 3
    LiveSize = 1
    Workers = 3
    StubsTopLevel = FALSE
    QueueSize = 1
    MaxReady = 2
    TtlHints = {1}
    TtlMin = 1
    TtlMax = 2
PROPERTY ExpiredIsSwept
CHECK_DEADLOCK FALSE
