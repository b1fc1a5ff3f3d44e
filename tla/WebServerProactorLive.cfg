SPECIFICATION FairSpec
CONSTANTS
    Clients = {c1, c2}
    Fds = {f1}
    Workers = {w1}
    None = None
    ActorModel = 0
    ListenMode = 0
    ConnMode = 0
    MaxUsers = 1
    MaxRequests = 1
    Timeout = 1
    Outcomes = {"again", "reply", "drop"}
    Prompt = FALSE
    CanStop = TRUE
PROPERTY HungUpClosed
PROPERTY BacklogServed
