CONSTANTS
    h1 = h1
    h2 = h2
    h3 = h3
    NoHost = NoHost
    Host = {h1, h2, h3}
    MaxStarters = 1
    MaxForeign = 1
SPECIFICATION FairSpec
INVARIANTS
    OneOwner
PROPERTIES
    SupersededHostStops
    ServingHostIsFound
CHECK_DEADLOCK FALSE
