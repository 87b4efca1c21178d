SPECIFICATION Spec
CONSTANTS
    CPU = {p1, p2}
    t1 = t1
    t2 = t2
    t3 = t3
    Task = {t1, t2, t3}
    Root = {t1}
    RootPid <- OneRoot
    NULL = NULL
    PoolLen = 4
    MaxPid = 2
    MaxValue = 0
    MaxWaiters = 0
    TimerInCreate = TRUE
INVARIANTS StackExclusive RunningExact OneReaper FreedUnreachable TableExact
SYMMETRY Alike
CONSTRAINT InOrder
CHECK_DEADLOCK FALSE
