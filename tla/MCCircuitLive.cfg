SPECIFICATION FairSpec
CONSTANTS
    r = r  e1 = e1  e2 = e2  me = me  a = a  b = b  d = d  h = h  g = g  c1 = c1  c2 = c2
    Descriptors <- TwoExits
    Local = me
    AllowSelfExit = FALSE
    NoNode = NoNode
    Circuits = {c1}
    Apps = {a}
    TargetOf <- Targets
    Policies <- AllPolicies
    Selections <- AllSelections
    FailureThreshold = 2
    MaxTries = 2
    Scopes <- LiveScopes
    NoCircuit = NoCircuit
PROPERTIES EndCloses DeadCircuitFailed NoOrphanStream
CHECK_DEADLOCK FALSE
