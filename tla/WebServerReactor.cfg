SPECIFICATION FairSpec
CONSTANTS
    Clients = {c1, c2}
    Fds = {f1, f2}
    Workers = {w1}
    None = None
    ActorModel = 1
    ListenMode = 0
    ConnMode = 0
    MaxUsers = 2
    MaxRequests = 1
    Timeout = 1
    Outcomes = {"again", "reply", "drop"}
    Prompt = FALSE
    CanStop = FALSE
INVARIANT SpinServed
PROPERTY SpinEnds
