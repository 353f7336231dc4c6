SPECIFICATION FairSpec
CONSTANTS
    c1 = c1  c2 = c2  c3 = c3  x1 = x1  x2 = x2
    Circuits = {c1, c2, c3}
    Conns = {x1}
    UDPConns = {x1}
    KindOf <- Mixed
    MaxPerPool = 2
    Limits <- TwoLimits
    TopTotal = 2
    Daemons = {"maintenance"}
    NoCircuit = NoCircuit
INVARIANTS
    PendingExact
PROPERTIES
    TrimsToLimit
CHECK_DEADLOCK FALSE
