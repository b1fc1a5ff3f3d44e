SPECIFICATION FairSpec
CONSTANTS
    Callers = {c1, c2}
    QueueSize = 2
    Split = 2
    LinesEach = 2
    Days = 2
    Writer = Writer
    None = None
INVARIANT TypeOK
INVARIANT EveryLineOnce
INVARIANT OrderKept
INVARIANT SyncDurable
INVARIANT RightFile
PROPERTY ImplementsTaskQueue
\* A synchronous log comes to rest when every caller has logged its lines.
CHECK_DEADLOCK FALSE
