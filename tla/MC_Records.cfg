\* Installation, migration, documentation, workflow, validation, knowledge, research, stages
\* and integrations.
CONSTANTS
    \* Installation: two bundles of two files, one command at a time.
    v1 = v1
    v2 = v2
    exe = exe
    lib = lib
    doc = doc
    Process = {pr1}
    Version = {v1, v2}
    NoVersion = NoVersion
    File = {exe, lib, doc}
    Executable = exe
    FilesOf <- MC_FilesOf
    Root = root
    Transaction = {tx1, tx2}
    NotInstalled = NotInstalled
    NoOp = NoOp
    \* Migration: two attempts at one Project of one file.
    Token = {k1, k2, k3}
    Unissued = Unissued
    Spent = Spent
    MigrationId = {m1, m2}
    Legacy = {f1}
    Edit = {x1}
    Run = {r1}
    Absent = Absent
    NoMigration = NoMigration
    \* Documentation: one document, two processes, three revisions.
    t1 = t1
    Document = {d1}
    Text = {t1, t2}
    Writer = {w1, w2}
    Unwritten = Unwritten
    ByHand = ByHand
    Nothing = Nothing
    Resting = Resting
    MaxRevisions = 3
    \* Workflow: one stage, limits small enough to be reached.
    Stage = {s1}
    ExecutionBaseline = {c1, c2}
    NoBaseline = NoBaseline
    Output = {o1, o2}
    Produces = {o1}
    ProgressToken = {q1, q2}
    NotObserved = NotObserved
    MaxStageVisits = 4
    MaxNoProgress = 2
    MaxStall = 2
    \* Validation: a gate over another one, two bindings.
    g1 = g1
    g2 = g2
    e1 = e1
    e2 = e2
    e3 = e3
    b1 = b1
    b2 = b2
    EvidenceId = {e0, e1, e2, e3}
    Historical = {e0}
    e0 = e0
    Evidence <- MC_Evidence
    EvidenceBinding = {b1, b2}
    Gate = {g1, g2}
    Below <- MC_Below
    GateLevel <- MC_GateLevel
    Waivable = {g1}
    MinimumPasses = 1
    Torn = Torn
    Closed = Closed
    MaxDamage = 1
    MaxLines = 3
    \* Knowledge: two requests on two Projects.
    Project = {p1, p2}
    Lesson = {l1, l2}
    Promotable = {l1}
    KnowledgeId = {kn1}
    RecommendationId = {rec1, rec2}
    Client = {a1, a2}
    AtEase = AtEase
    Untaken = Untaken
    PlainEdit = PlainEdit
    MaxHistory = 2
    MaxTime = 1
    \* Research: one request, two instances of Pandora.
    rq1 = rq1
    rq2 = rq2
    n1 = n1
    n2 = n2
    src1 = src1
    RequestId = {rq1}
    Question = {x1, x0}
    BlankQuestion = x0
    Instance = {n1, n2}
    ResearchBundle <- MC_ResearchBundles
    Report = {t1, t0}
    BlankReport = t0
    Oversized = Oversized
    Unreadable = Unreadable
    NoFile = NoFile
    Researcher = {c1}
    NoImport = NoImport
    \* Stages outside the runtime: two harnesses, an owned file and the Model.
    Path = {own, model}
    OwnedPath = {own}
    CorePath = {model}
    ModelPath = model
    Harness = {h1, h2}
    StageEvidenceId = {se1}
    NoEvidenceId = NoEvidenceId
    SavedStatus = {"PROPOSED", "IMPLEMENTING"}
    MaxMeddling = 1
    \* Integrations: four semantic files changed twice, a pack of two files.
    pf1 = pf1
    pf2 = pf2
    Route <- MC_Routes
    Factory <- MC_Factory
    PackFile = {pf1, pf2}
    MaxEdits = 2
    \* Logs: two processes, two observations, one proposal.
    Observer = {o1, o2}
    Sighting = {g3, g4}
    Reported = {"MATCH", "DIVERGED"}
    Suggestion = {u1}
    NoSuggestion = NoSuggestion
SPECIFICATION RecordsSpec
INVARIANTS
    CommandsAreTransactional
    SomeBundleSurvives
    MigratedOrOriginal
    CurrentDocumentsAreCurrent
    NoEvidenceIsForgotten
    PassIsEarned
    AdoptedAsRecommended
    VerifiedOnEvidence
    PassedRouteIsASnapshot
    AppendedOrRefused
PROPERTIES
    UpgradeBringsServiceBack
    NoWorkIsDiscarded
    GuardedLoopsEnd
\* Commands, documents, stages, journals and Projects all come to an end.
CHECK_DEADLOCK FALSE
