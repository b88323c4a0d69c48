SPECIFICATION WorkerSpec
CONSTANTS
    w1 = w1
    w2 = w2
    NoWorker = NoWorker
    Worker = {w1, w2}
    Skew <- MCSkew
    Ttl = 2
    Margin = 1
    MaxTime = 5
    j1 = j1
    NoDoc = NoDoc
    Runtime = {1, 2}
    Job = {j1}
    MaxRev = 2
    Tries = 2
INVARIANTS GuardImpliesOwner OneEntryWorker BoundedOutage ReportedIsStored NoSilentLoss
PROPERTIES LostLeaseIsNoticed RowNeverRegresses DrainEnds
CHECK_DEADLOCK FALSE
