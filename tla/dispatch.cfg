SPECIFICATION FairSpec
CONSTANTS
    m1 = m1
    m2 = m2
    m3 = m3
    g1 = g1
    g2 = g2
    Msg = {m1, m2, m3}
    High = {m1}
    Low = {m2, m3}
    Gap = 1
    Goroutine = {g1, g2}
    BatchSize = 2
INVARIANTS TypeOK
PROPERTY OvertakesByPriority
PROPERTY Served
PROPERTY CleanExit
PROPERTY Stops
