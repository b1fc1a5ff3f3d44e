SPECIFICATION FairSpec
CONSTANTS
    Requests = {r1, r2}
    Workers = {w1, w2, w3}
    MaxRequests = 2
    None = None
    Main = Main
INVARIANT TypeOK
INVARIANT NoLostWakeup
PROPERTY ImplementsTaskQueue
