SPECIFICATION LifespanSpec
CONSTANTS
    Users = {u1, u2}
    AiApiKeys = {a, b}
    FernetKeys = {f, g}
    NoRow = NoRow
    Nobody = Nobody
    Kids = {v1, v2}
    Legacy = Legacy
    Lifetime = 2
    MaxTokens = 1
    NListeners = 2
    MaxRenewals = 2
    Missing = Missing
    Broken = Broken
    ChunkSize = 4
    ChunkOverlap = 2
    MaxLength = 10
    MaxInside = 2
    n1 = n1
    n2 = n2
    s1 = s1
    s2 = s2
    s3 = s3
    NoteChunks = {n1, n2}
    SessionChunks = {s1, s2, s3}
    SessionOf <- MCSessionOf
    Rankings <- MCRankings
    Replies <- MCReplies
    MaxDays = 1
    TopK = 2
    CandidateK = 8
    WindowTopK = 2
    RangeCap = 2
    QuestionDays <- MCQuestionDays
    NoRange = NoRange
    c1 = c1
    c2 = c2
    noteA = noteA
    noteB = noteB
    noteC = noteC
    sess = sess
    cap = cap
    pA1 = pA1
    pA2 = pA2
    pB = pB
    pC = pC
    pS = pS
    own1 = own1
    own2 = own2
    Courses = {c1, c2}
    NoCourse = NoCourse
    NotePassages = {pA1, pA2, pB, pC, own1, own2}
    SessionPassages = {pS}
    EntityOf <- MCEntityOf
    Captured = cap
    NotStored = NotStored
    Filings <- MCFilings
    Weights <- MCWeights
    Threshold = 6
    FallbackPool = 2
    RelatedPool = 4
    MaxRelated = 2
INVARIANTS TypeOK PartsTypeOK
    KeysReadable TicksMigrateNothing GoodForItsLifetime
    RenewedIsServed OutageOnlyMidRewrite
    NothingLost WithinBudget
    DatesAnswered RerankOnlyReorders RangeMeansItsName WeeksAgree
    MatchHasEvidence RetryAgrees
PROPERTY ImplementsKeyTable
