SPECIFICATION FairSpec
CONSTANTS
    CPU = {p1}
    t1 = t1
    t2 = t2
    t3 = t3
    Task = {t1, t2}
    Root = {t1}
    RootPid <- OneRoot
    NULL = NULL
    PoolLen = 3
    MaxPid = 2
    MaxValue = 1
    MaxWaiters = 2
    TimerInCreate = FALSE
INVARIANTS TypeOK SemExact
PROPERTIES SemSpec Reaped Awakened
