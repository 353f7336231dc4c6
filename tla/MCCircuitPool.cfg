SPECIFICATION Spec
CONSTANTS
    c1 = c1  c2 = c2  c3 = c3  x1 = x1  x2 = x2
    Circuits = {c1, c2}
    Conns = {x1, x2}
    UDPConns = {x2}
    KindOf <- LowOnly
    MaxPerPool = 2
    Limits <- OneLimit
    TopTotal = 1
    Daemons = {"heartbeat"}
    NoCircuit = NoCircuit
INVARIANTS
    TypeOK
    OnePlace
    OutCountExact
    CapacityBound
    StreamCountMatches
    IdleNotHeld
CHECK_DEADLOCK FALSE
