\* Two or three of whatever may race, one of the rest; X and Y are symmetric.
SPECIFICATION ToolsSpec
CONSTANTS
    X = {x1, x2}
    Y = {y1, y2}
    Run = {r1, r2, r3}
    Template = {x1, x2}
    EnvFile = EnvFile
    Mine = Mine
    Missing = Missing
    Endpoints <- AnyEndpoint
    Surroundings <- AnySurroundings
    MaxPrice = 1
    NotRun = NotRun
    Call = {x1, x2}
    Command = {p1}
    Proof = {q1}
    Amount = {1, 2}
    MaxPerRequest = 2
    MaxSession = 3
    AllowSubpaths = TRUE
    Unasked = Unasked
    ToolCall = {k1, k2, k3}
    Payload = {q1}
    Own = q1
    PreviewScope = {s1}
    SessionSpend = 1
    Visitors = {x1, x2}
    SignIn = {y1, y2}
    Nobody = Nobody
    MaxRefreshes = 5
    Grant = {g1}
    Attempts = 2
    NoGrant = NoGrant
    ScriptRun = {x1, x2}
    AttemptAtomic = 2
    PilotWallet = {a}
    Stage = {s1}
    Required = {tech}
    FollowUp = {}
    Post = {x1, x2}
    Result = {"passed"}
    Outcome = {"retained"}
    Response = {"yes"}
    DueAfter = 1
    Instant = {0}
    Told = {0, 1}
    MaxCommands = 3
    MaxPosts = 2
    None = None
    BetaWriter = {x1, x2}
    BetaRecord <- BetaRecords
    Completion = {"settlement_finalized"}
    MinStarts = 1
    MinCompleted = 1
    Quick = {0, 1, 2}
    MaxLines = 4
SYMMETRY Tools
INVARIANTS
    TargetStaysWhole
    ExitTellsTheOutcome
    SpendStaysInBudget
    
    
    ReceiptsAreUnique
    EvidenceIsTrue
    RerunsRecover
    RecordedIsStored
    HostedAgreesWithFile
    GateIsIndependent
PROPERTY
    PageNeverGoesBack
CHECK_DEADLOCK FALSE
