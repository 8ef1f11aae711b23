SPECIFICATION Spec
CONSTANTS
    w1 = w1
    w2 = w2
    r1 = r1
    Threads = {w1, w2}
    Writers = {w1, w2}
    Names <- MCNames
    Times = {1}
    Retains = {1, 2}
    MaxTxid = 5
PROPERTY
    BranchesMoveForward
