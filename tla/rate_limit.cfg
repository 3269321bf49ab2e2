SPECIFICATION FairSpec
CONSTANTS
    d1 = d1
    d2 = d2
    Dispatcher = {d1, d2}
    Limit = 3
    Window = 3
    BatchSize = 2
    MaxDelay = 2
INVARIANTS TypeOK WithinLimit
PROPERTY KeepsGranting
