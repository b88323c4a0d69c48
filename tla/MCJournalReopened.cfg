SPECIFICATION WorkerSpec
CONSTANTS
    w1 = w1
    w2 = w2
    NoWorker = NoWorker
    Worker = {w1, w2}
    Skew <- MCSkew
    Ttl = 1
    Margin = 1
    MaxTime = 2
    j1 = j1
    NoDoc = NoDoc
    Runtime = {1, 2}
    Job = {j1}
    MaxRev = 3
    Tries = 1
INVARIANTS AckedCloseDurable
CHECK_DEADLOCK FALSE
