SPECIFICATION Spec
CONSTANTS
    n1 = n1
    w1 = w1
    w2 = w2
    s1 = s1
    h1 = h1
    None = None
    Notif = {n1}
    Scheduled = {}
    MaxAttempts = 2
    FaultKinds = {"crash", "postgres", "redis"}
    MaxFaults = 2
    Handler = {h1}
    Cancellable = {n1}
    Sched = {s1}
    Worker = {w1, w2}
    BatchSize = 1
SYMMETRY Symmetry
CONSTRAINT SomeCovered
INVARIANTS TypeOK OneOwner DeliveredOnce NoLostMessage FailedIsBuried
PROPERTY ImplementsLifecycle
