SPECIFICATION Spec
CONSTANTS
    Clients = {c1, c2, c3}
    Fds = {f1, f2}
    Workers = {w1, w2}
    None = None
    ActorModel = 0
    ListenMode = 1
    ConnMode = 1
    MaxUsers = 2
    MaxRequests = 2
    Timeout = 3
    Outcomes = {"again", "reply"}
    Prompt = TRUE
    CanStop = FALSE
SYMMETRY Symmetry
INVARIANT ExclusiveSlot
INVARIANT OwnReply
PROPERTY UsesTaskQueue
