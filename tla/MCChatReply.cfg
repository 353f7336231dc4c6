CONSTANTS
    a = a
    b = b
    r1 = r1
    r2 = r2
    m1 = m1
    m2 = m2
    m3 = m3
    Peers = {a, b}
    Relays = {r1, r2}
    Msgs = {m1, m2, m3}
    From <- BothSend
    NoRelay = NoRelay
    MaxSid = 3
    RelayAttemptLimit = 2
    MaxReorderGap = 1
    MaxPendingSlots = 1
    Scopes <- Replies
SPECIFICATION FairSpec
PROPERTIES
    ReplyArrives
CHECK_DEADLOCK FALSE
