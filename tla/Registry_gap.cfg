SPECIFICATION Spec
CONSTANTS
    Peers = {a, b}
    NoPeer = NoPeer
    Announcers = {a, b}
    Steady = {a}
    Watchers = {b}
    Streams = {s1}
    NoStream = NoStream
    UserOps = {"add", "watch"}
    MaxOps = 2
    MaxTime = 3
    LiveSize = 1
    Workers = 3
    StubsTopLevel = TRUE
    QueueSize = 1
    MaxReady = 2
    TtlHints = {1}
    TtlMin = 1
    TtlMax = 2
INVARIANT ViewMatches
CHECK_DEADLOCK FALSE
