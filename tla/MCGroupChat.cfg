CONSTANTS
    a = a
    b = b
    c = c
    m1 = m1
    Peers = {a, b, c}
    NoPeer = NoPeer
    NoEvent = NoEvent
    Msgs = {m1}
    Author <- OneByB
    MaxSeq = 6
    Scopes <- Situations
SPECIFICATION FairSpec
INVARIANTS
    RowsFollowLog
    DepartedLackKeys
    DeliveredIsStored
PROPERTIES
    ImplementsLog
    EveryCopySettles
CHECK_DEADLOCK FALSE
