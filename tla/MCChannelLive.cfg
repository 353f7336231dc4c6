SPECIFICATION FairSpec
CONSTANTS
    Owner = owner
    Subs = {s1}
    Ids <- TwoMessages
    MaxSeq = 2
    Callers = {c1}
    Scopes <- Live
PROPERTIES
    CatchesUp
    Announced
CHECK_DEADLOCK FALSE
