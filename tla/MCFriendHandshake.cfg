CONSTANTS
    a = a
    b = b
    r1 = r1
    r2 = r2
    Peers = {a, b}
    Requests = {r1, r2}
    NoReq = NoReq
    NoKey = NoKey
    Sender <- Crossing
    Scopes <- Mixed
SPECIFICATION FairSpec
INVARIANTS
    AckMeansBoth
PROPERTIES
    NeverReopened
    AcceptReachesInitiator
CHECK_DEADLOCK FALSE
