SPECIFICATION FairSpec
CONSTANTS
    t1 = t1
    t2 = t2
    t3 = t3
    Thread = {t1, t2, t3}
    MaxFailures = 2
    Timeout = 2
INVARIANTS TypeOK TripsAtMaxFailures OnlyStaleCallersPass
PROPERTY ClosesAgain
