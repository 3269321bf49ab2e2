SPECIFICATION Spec
CONSTANTS
    n1 = n1
    w1 = w1
    s1 = s1
    s2 = s2
    h1 = h1
    None = None
    Notif = {n1}
    Scheduled = {n1}
    MaxAttempts = 1
    FaultKinds = {}
    MaxFaults = 0
    Handler = {h1}
    Cancellable = {}
    Sched = {s1, s2}
    Worker = {w1}
    BatchSize = 1
INVARIANTS NoDuplicateProcessing
