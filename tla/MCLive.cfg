CONSTANTS
    Parts = {"open", "loop"}
    Conns = {c1, c2}
    Statements = {"put", "begin", "commit"}
    MaxRequests = 4
    MaxBatch = 1
    Busy = 0
    Idle = 0
    TokensRequired = FALSE
    Stops = FALSE
    Vacant = Vacant
    Generations = 4
    Settings <- Live
SPECIFICATION MCLiveSpec
PROPERTIES
    EveryRequestAnswered StatementsAreAnswered
CHECK_DEADLOCK FALSE
