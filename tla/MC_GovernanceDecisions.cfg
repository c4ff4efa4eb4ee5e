CONSTANTS
    p1 = p1
    p2 = p2
    w1 = w1
    w2 = w2
    r1 = r1
    j1 = j1
    a1 = a1
    x1 = x1
    x2 = x2
    a2 = a2
    d1 = d1
    d2 = d2
    platform = platform
    provider1 = provider1
    NoRow = NoRow
    NoActor = NoActor
    NoPlan = NoPlan
    Process = {p1, p2}
    MaxGeneration = 2
    MaxAttempts = 1
    Run = {r1}
    Actor = {x1}
    DurableRun = {}
    WorkstreamOf <- MC_WorkstreamOf
    RunOf <- MC_RunOf
    JobOf <- MC_JobOf
    Workstream = {w1, w2}
    Job = {j1}
    Attempt = {a1}
    ProviderRun = {}
    CommonScope = {platform}
    Provider = {}
    Request = {d1, d2}
    ControlledScope = {}
    MaxControl = 0
SPECIFICATION GovernedSpec
SYMMETRY ModelSymmetry
INVARIANTS
    BlockedByOneDecision
PROPERTIES
    BlockedWorkstreamsStandStill
CHECK_DEADLOCK FALSE
