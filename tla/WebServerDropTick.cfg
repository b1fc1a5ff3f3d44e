SPECIFICATION Spec
CONSTANTS
    Clients = {c1, c2}
    Fds = {f1, f2}
    Workers = {w1, w2}
    None = None
    ActorModel = 0
    ListenMode = 0
    ConnMode = 0
    MaxUsers = 2
    MaxRequests = 2
    Timeout = 3
    Outcomes = {"again", "reply", "drop"}
    Prompt = TRUE
    CanStop = FALSE
SYMMETRY Symmetry
PROPERTY TickOnlyIdle
