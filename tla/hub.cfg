SPECIFICATION FairSpec
CONSTANTS
    c1 = c1
    sms = sms
    email = email
    s1 = s1
    s2 = s2
    Client = {c1}
    Channel = {sms, email}
    Sender = {s1, s2}
    SendBuffer = 2
    MaxEvents = 3
INVARIANTS TypeOK InOrder
PROPERTY OnlyRegistered
PROPERTY BroadcastEnds
PROPERTY PumpsEnd
CHECK_DEADLOCK FALSE
