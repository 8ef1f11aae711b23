CONSTANTS
    Parts = {"open", "guarded", "loop"}
    Conns = {c1, c2, c3}
    Statements = {"get", "put", "begin", "commit"}
    MaxRequests = 4
    MaxBatch = 2
    Busy = 0
    Idle = 0
    TokensRequired = FALSE
    Stops = FALSE
    Vacant = Vacant
    Generations = 4
    Settings <- Safe
SPECIFICATION MCSpec
SYMMETRY Symmetry
INVARIANTS
    HolderExact RowsArePromised OneAnswer AbortIsTold AuthGateHolds
    AnswersReachTheAsker DispatcherContract
CHECK_DEADLOCK FALSE
