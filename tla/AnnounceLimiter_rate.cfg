SPECIFICATION LimiterSpec
CONSTANTS
    Threads = {t1, t2}
    Unit = 4
    Rate = 1
    Burst = 2
    MaxTime = 12
INVARIANT RateRespected
CHECK_DEADLOCK FALSE
