\* Gates, envelopes, executions, promotions, sessions and calls.
CONSTANTS
    p1 = p1
    p2 = p2
    w1 = w1
    r1 = r1
    j1 = j1
    a1 = a1
    x1 = x1
    a2 = a2
    platform = platform
    provider1 = provider1
    NoRow = NoRow
    NoActor = NoActor
    NoPlan = NoPlan
    Process = {p1, p2}
    MaxGeneration = 2
    MaxAttempts = 2
    Run = {r1}
    Actor = {x1}
    DurableRun = {}
    WorkstreamOf <- MC_WorkstreamOf
    RunOf <- MC_RunOf
    JobOf <- MC_JobOf
    Workstream = {w1}
    Job = {j1}
    Attempt = {a1, a2}
    ProviderRun = {r1}
    CommonScope = {platform}
    Provider = {provider1}
    Request = {}
    ControlledScope = {platform}
    MaxControl = 1
    e1 = e1
    c1 = c1
    c2 = c2
    Envelope = {e1}
    EnvelopeOf <- MC_EnvelopeOf
    Content = {c1, c2}
    NoContent = NoContent
    \* The incarnations behind the fence are the processes of the coordinator.
    Worker = {p1, p2}
    MaxTakeovers = 1
    \* Execution: an owned file, another one and the Project Model; two gates.
    own = own
    other = other
    model = model
    Path = {own, other, model}
    OwnedPath = {own}
    CorePath = {model}
    ModelPath = model
    RequiredGate = {h1, h2}
    AllowedProvider = {"codex", "claude", "deepseek"}
    AuthorizedRoles <- MC_AuthorizedRoles
    \* Promotion: two workspaces, two Attempts dispatched by different actors.
    t1 = t1
    t2 = t2
    y1 = y1
    y2 = y2
    y3 = y3
    Workspace = {s1, s2}
    Execution = {t1, t2}
    DispatchedTo <- MC_DispatchedTo
    DispatchedBy <- MC_DispatchedBy
    Promoter = {y1, y3}
    Interlocutor = {"codex"}
    Elsewhere = Elsewhere
    Nobody = Nobody
    MaxNumber = 3
    \* Sessions: two of them, three revisions.
    Session = {sn1, sn2}
    Unopened = Unopened
    MaxAccepted = 3
    \* Transports: two calls, two incarnations of the host.
    i1 = i1
    i2 = i2
    Caller = {k1, k2}
    HostRun = {i1, i2}
    PortOf <- MC_PortOf
    NoHostRun = NoHostRun
    Reached = {"runtime", "service.status"}
    \* Authority: two Attempts, a clock that passes every expiry.
    Try = {u1, u2}
    Principal <- MC_Principal
    Alias = {"anonymous", "managed-service-local-client", "service"}
    Offer <- MC_Offer
    Order <- MC_Order
    MaxTime = 2
    Never = Never
    NoGrant = NoGrant
    NoTerms = NoTerms
    Unauthorized = Unauthorized
    Part = {"gates", "envelopes", "execution", "promotion", "sessions", "calls", "authority"}
SPECIFICATION ServicesSpec
SYMMETRY ServiceSymmetry
INVARIANTS
    ApprovedProposalsAreInForce
    LaunchedAtMostOnce
    PassingEvidenceIsEarned
    PromotedOnceAndEarned
    AnswersAreTrue
    DispatchedWithinAuthority
PROPERTIES
    NoStartUnderControl
    SessionsKeepTheirPlace
CHECK_DEADLOCK FALSE
