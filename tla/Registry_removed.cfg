SPECIFICATION Spec
CONSTANTS
    Peers = {a, b}
    NoPeer = NoPeer
    Announcers = {a, b}
    Steady = {}
    Watchers = {b}
    Streams = {s1}
    NoStream = NoStream
    UserOps = {"add", "remove"}
    MaxOps = 2
    MaxTime = 2
    LiveSize = 1
    Workers = 3
    StubsTopLevel = TRUE
    QueueSize = 1
    MaxReady = 2
    TtlHints = {1}
    TtlMin = 1
    TtlMax = 2
INVARIANT RemovedNotAnnounced
CHECK_DEADLOCK FALSE
