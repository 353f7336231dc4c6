SPECIFICATION Spec
CONSTANTS
    r = r  e1 = e1  e2 = e2  me = me  a = a  b = b  d = d  h = h  g = g  c1 = c1  c2 = c2
    Descriptors <- TwoExits
    Local = me
    AllowSelfExit = FALSE
    NoNode = NoNode
    Circuits = {c1, c2}
    Apps = {a, b, d, h, g}
    TargetOf <- Targets
    Policies <- AllPolicies
    Selections <- AllSelections
    FailureThreshold = 2
    MaxTries = 2
    Scopes <- SafetyScopes
    NoCircuit = NoCircuit
INVARIANTS ConnectedIsDialled InOrder AdmittedByPolicy
CHECK_DEADLOCK FALSE
