SPECIFICATION HSpec
CONSTANTS
    Clients = {c1, c2}
    Fds = {f1, f2}
    Workers = {w1, w2}
    None = None
    ActorModel = 0
    ListenMode = 0
    ConnMode = 0
    MaxUsers = 2
    MaxRequests = 1
    Timeout = 3
    Outcomes = {"again", "reply", "drop"}
    Prompt = FALSE
    CanStop = TRUE
SYMMETRY Symmetry
INVARIANT TypeOK
INVARIANT TimerLive
INVARIANT AlarmChain
INVARIANT OwnTimer
INVARIANT CountLedger
PROPERTY TickOnlyOwn
