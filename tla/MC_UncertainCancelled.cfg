CONSTANTS
    p1 = p1
    p2 = p2
    w1 = w1
    r1 = r1
    j1 = j1
    j2 = j2
    a1 = a1
    a2 = a2
    a3 = a3
    x1 = x1
    x2 = x2
    NoRow = NoRow
    NoActor = NoActor
    Process = {p1}
    Workstream = {w1}
    Run = {r1}
    Job = {j1}
    Attempt = {a1, a2, a3}
    WorkstreamOf <- MC_WorkstreamOf
    RunOf <- MC_RunOf
    JobOf <- MC_JobOf
    ProviderRun = {}
    DurableRun = {}
    MaxAttempts = 3
    Actor = {x1}
    MaxGeneration = 1
SPECIFICATION Spec
INVARIANTS
    UncertainJobIsNotCancelled
CHECK_DEADLOCK FALSE
