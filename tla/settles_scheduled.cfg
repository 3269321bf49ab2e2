SPECIFICATION FairSpec
CONSTANTS
    n1 = n1
    w1 = w1
    s1 = s1
    s2 = s2
    h1 = h1
    None = None
    Notif = {n1}
    Scheduled = {n1}
    MaxAttempts = 2
    FaultKinds = {"crash", "postgres", "redis"}
    MaxFaults = 1
    Handler = {h1}
    Cancellable = {n1}
    Sched = {s1, s2}
    Worker = {w1}
    BatchSize = 1
CONSTRAINT SomeRegular
PROPERTY ImplementsLifecycle
PROPERTY Settles
PROPERTY Recovers
