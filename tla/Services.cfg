\* Two of whatever may race, one of the rest; X and Y are symmetric.
SPECIFICATION ServicesSpec
CONSTANTS
    X = {x1, x2}
    Y = {y1, y2}
    Account = {a, b}
    Nonce = {x1, x2}
    Handler = {y1, y2}
    Key = {k1}
    Version = {v1}
    OpenSession = OpenSession
    NoRequest = NoRequest
    MaxActive = 1
    ChallengeLife = 1
    SessionLife = 1
    MaxAuthTime = 1
    KeyLife = 1
    Merchant = a
    OwnVersion = v1
    NoProduct = NoProduct
    MaxWrites = 2
    LinkWallet = {a, b}
    Subject = {g1, g2}
    LinkState = {x1, x2}
    LinkHandler = {y1, y2}
    StateLife = 1
    MaxLinkTime = 1
    Nobody = Nobody
    Terms = {x1, x2}
    Evidence = {y1, y2}
    RecordOwner = {a}
    RequestLife = 1
    MaxRecordTime = 1
    NoRecord = NoRecord
    Visitor = {x1, x2}
    Seller = {a, b}
    Tag = {g1}
    Transfer = {t1}
    HostSeller = a
    HostTag = g1
    AnyOwner = AnyOwner
    NoTerms = NoTerms
    MaxServed = 2
    Address = {x1, x2}
    Wallet = {y1, y2}
    Approval = {s1, s2}
    ReservationId = {r1}
    PaymentKey = {k1}
    MaxAtomic = 1
    MaxTime = 1
    MaxHold = 1
    BatchLimit = 1
    PolicySets <- UpToTwoPolicies
    WarnAt = 1
    DenyAt = 2
    MaxRisk = 3
SYMMETRY Services
INVARIANTS
    ActiveWithinQuota
    AuthorizedAsSigned
    WritesPerKeyAreApart
    
    IdentityHasOneWallet
    StateLinksOnce
    RecordsStand
    VerdictIsEarned
    ScopedPaymentsStayWithOwner
    RowsAreProven
    
CHECK_DEADLOCK FALSE
