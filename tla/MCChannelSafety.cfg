SPECIFICATION Spec
CONSTANTS
    Owner = owner
    Subs = {s1}
    Ids <- TwoMessages
    MaxSeq = 2
    Callers = {c1, c2}
    Scopes <- Safety
INVARIANTS
    TypeOK
    OwnerBooks
    SyncedCovers
PROPERTIES
    MessagesMonotone
    StoredHeadMonotone
SYMMETRY CallerSymmetry
CHECK_DEADLOCK FALSE
