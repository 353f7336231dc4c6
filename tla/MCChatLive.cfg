CONSTANTS
    m1 = m1
    m2 = m2
    m3 = m3
    Msgs = {m1, m2}
    NoMsg = NoMsg
    Handlers = {h1}
    MaxDepth = 5
    Scopes <- Live

SPECIFICATION FairSpec
PROPERTIES
    EventuallyStored
    EventuallySettled
CHECK_DEADLOCK FALSE
