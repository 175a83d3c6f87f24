SPECIFICATION LimiterSpec
CONSTANTS
    Threads = {t1}
    Unit = 4
    Rate = 1
    Burst = 2
    MaxTime = 30
INVARIANT TypeOK
PROPERTY RetryHonest
CHECK_DEADLOCK FALSE
