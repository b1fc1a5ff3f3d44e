SPECIFICATION PoolFairSpec
CONSTANTS
    Threads = {t1, t2, t3, t4}
    Conns = {c1, c2}
    None = None
INVARIANT PopNonEmpty
INVARIANT ConnsConserved
INVARIANT ExclusiveConn
INVARIANT NotClosedInUse
PROPERTY WaiterServed
\* A thread that has popped an empty list may stop with the mutex locked.
CHECK_DEADLOCK FALSE
