CONSTANTS
    p1 = p1
    p2 = p2
    p3 = p3
    h1 = h1
    h2 = h2
    Process = {p1, p2, p3}
    Holder = {h1, h2}
    HolderOf <- MC_HolderOf
    TTL = 2
    MaxClock = 4
    MaxGeneration = 3
SPECIFICATION FairSpec
INVARIANTS
    OneFenceHolder
PROPERTIES
    LiveLeaseKeepsItsHolder
    ImplementsFencing
    OrphanedLeaseIsTakenOver
