CONSTANTS
    m1 = m1
    m2 = m2
    m3 = m3
    Msgs = {m1, m2, m3}
    NoMsg = NoMsg
    Handlers = {h1, h2}
    MaxDepth = 5
    Scopes <- Safety

SPECIFICATION Spec
SYMMETRY Symmetry
INVARIANTS
    CursorCoversInbox
    CursorBehindStored
    DeliveredIsStored
    NonceSharedByOverlap
    RevokeKept
CHECK_DEADLOCK FALSE
