SPECIFICATION FairSpec
CONSTANTS
    n1 = n1
    w1 = w1
    w2 = w2
    s1 = s1
    h1 = h1
    None = None
    Notif = {n1}
    Scheduled = {}
    MaxAttempts = 2
    FaultKinds = {"crash", "postgres", "redis"}
    MaxFaults = 1
    Handler = {h1}
    Cancellable = {}
    Sched = {s1}
    Worker = {w1, w2}
    BatchSize = 1
CONSTRAINT SomeRegular
PROPERTY Settles
PROPERTY Recovers
