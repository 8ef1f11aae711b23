SPECIFICATION Spec
CONSTANTS
    w1 = w1
    w2 = w2
    r1 = r1
    Threads = {w1}
    Writers = {w1}
    Names <- MCNames
    Times = {1}
    Retains = {1, 2}
    MaxTxid = 6
INVARIANTS
    WalksAreSafe
    SnapshotsAreCommits
PROPERTIES
    BranchesMoveForward
    TransactionsBuildOnTheirBranch
