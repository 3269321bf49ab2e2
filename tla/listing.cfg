SPECIFICATION FairSpec
CONSTANTS
    n1 = n1
    n2 = n2
    n3 = n3
    n4 = n4
    Notif = {n1, n2, n3, n4}
    MaxStamp = 3
    Limit = 2
INVARIANTS TypeOK SeenOnce SkipsOnlyTies
PROPERTY WalkEnds
