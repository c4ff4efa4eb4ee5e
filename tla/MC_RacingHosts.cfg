CONSTANTS
    h1 = h1
    h2 = h2
    h3 = h3
    NoHost = NoHost
    Host = {h1, h2, h3}
    MaxStarters = 2
    MaxForeign = 1
SPECIFICATION Spec
SYMMETRY HostSymmetry
INVARIANTS
    OneOwner
CHECK_DEADLOCK FALSE
