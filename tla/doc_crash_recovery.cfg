SPECIFICATION FairSpec
CONSTANTS
    n1 = n1
    w1 = w1
    s1 = s1
    h1 = h1
    None = None
    Notif = {n1}
    Scheduled = {}
    MaxAttempts = 1
    FaultKinds = {"crash"}
    MaxFaults = 1
    Handler = {h1}
    Cancellable = {}
    Sched = {s1}
    Worker = {w1}
    BatchSize = 1
PROPERTY CrashRecovery
