SPECIFICATION OneSpec
CONSTANTS
    t1 = t1
    t2 = t2
    i1 = i1
    i2 = i2
    r1 = r1
    r2 = r2
    r3 = r3
    k1 = k1
    k2 = k2
    p1 = p1
    p2 = p2
    c1 = c1
    e1 = e1
    e2 = e2
    e3 = e3
    v1 = v1
    v2 = v2
    shared = shared
    f1 = f1
    f2 = f2
    pic = pic
    photo = photo
    screen = screen
    broken = broken
    withDoi = withDoi
    noDoi = noDoi
    namesake = namesake
    quoted = quoted
    None = None
    Targets = {t1, t2}
    StoreOf <- Stores
    \* crawl runs
    Workers = {w1, w2}
    Runs = {r1, r2, r3}
    Items = {i1, i2}
    PagesOf <- PagesOfRuns
    LastVersion = 2
    Built <- Cuttings
    MaxChanges = 2
    \* guides
    GuideChunks = {k1, k2}
    Bundles <- GuideVersions
    MaxCommands = 4
    \* forum posts
    Posts = {p1, p2}
    Root = p1
    PostTexts = {"x", "y"}
    Worthless = {"y"}
    Metas = {"m", "n"}
    Snapshots <- TopicSnapshots
    MaxRows = 3
    Rank <- ReverseIds
    EmbedLimit = 2
    BatchSize = 2
    MaxFaults = 1
    \* drone documents
    Models = {m1, m2}
    Processings = {d1, d2}
    DocChunks = {c1, c2}
    DocTexts = {1, 2}
    DocBundles <- DocumentBundles
    MaxImports = 2
    MaxLosses = 1
    Nothing = Nothing
    \* the model quota
    Clients = {w1, w2}
    Estimates = {1, 3}
    Actuals = {0, 1, 4}
    Limit = 10000
    Lowest = 5000
    Cooldown = 66
    Streak = 2
    Calm = 30
    TimeStep = 6
    LastSecond = 78
    MaxLimited = 2
    \* answers
    Passages = {e1, e2, e3}
    Contents = {v1, v2}
    Unrelated = {v2}
    ContentOf <- PassageItems
    Position <- Places
    PassageLength <- Lengths
    HeaderLength = 2
    Profiles <- Questions
    RerankScores = {1, 2}
    VectorLimit = 3
    KeywordLimit = 3
    TopK = 2
    MaxPerContent = 2
    MaxEvidence = 2
    MaxChars = 16
    MaxWrites = 2
    \* texts
    MaxText = 4
    MaxLimit = 4
    MaxUnits = 3
    Carry = 2
    \* the job runner
    JobNames = {collect, check}
    LockGroups = {shared}
    GroupOf <- OneGroup
    Hands = {byHand}
    NoToken = NoToken
    Unlocked = Unlocked
    MaxRuns = 2
    MaxKills = 1
    \* the video crawler
    Crawlers = {hand, timer}
    Videos = {clip, film}
    Nobody = Nobody
    MaxPages = 1
    SuccessTarget = 1
    RetryAttempts = 1
    PageSize = 2
    VideoChunks = 2
    MaxCrawls = 2
    \* supplier jobs
    Urls = {u1, u2}
    Suppliers = {s1, s2}
    MaxJobs = 3
    WebPages = {w1, w2}
    SeedUrls = {w1}
    Claimants = {t1, t2}
    NoUrl = NoUrl
    Elsewhere = Elsewhere
    Bodies <- PageBodies
    MaxClaims = 1
    HalfWindow = 2
    Heading = 1
    Queries = 1
    MaxResults = 2
    FetchRetries = 1
    LlmRetries = 2
    FetchLimit = 1
    \* captions of figures
    Figures = {f1, f2}
    Pictures = {pic}
    PictureOf <- OnePicture
    KeyOf <- OnePicture
    SoftwareFigures = {f1}
    Captions = {photo, screen, broken}
    Malformed = {broken}
    Screens = {screen}
    NoText = NoText
    Seeds <- Offers
    CallLimit = 2
    MaxRounds = 2
    MaxGateFaults = 2
    \* papers of literature runs
    LitRuns = {l1, l2}
    DirectionIds = 2
    Records = {withDoi, noDoi, namesake}
    NumberOf <- Numbers
    DoiOf <- Dois
    TitleOf <- Titles
    NoId = 0
    Relevance <- Scores
    RecentRecords = {withDoi, noDoi}
    SearchResults <- OneEach
    PicksPerDirection = 1
    Quotes = {quoted}
    HeadOf <- Abstracts
    PdfOf <- Bodied
    HtmlOf <- Bodied
    Rows = {1, 2, 3}
    NoRow = 0
    \* the literature panel
    PanelRuns = {l1, l2}
    NoRun = NoRun
    LastResult = 1
    MaxRequests = 2
    MaxMisses = 1
    \* the chat page
    Sessions = {s1, s2}
    NoSession = NoSession
    MaxActions = 2
    \* the browsing pages
    Ids = {1, 2}
    MaxPending = 3
INVARIANTS
    GuidesAreSynced
    PostsAreCurrent
    DocumentsAreIndexed
    QuotaIsShared
    CutsAreSound
    CrawlIsHonest
    StoresAgree
    EvidenceIsHonest
    CaptionsAreSound
    PapersAreSound
    PanelFollows
    PageIsConsistent
    PanelIsTrue
PROPERTIES
    SuccessIsTrue
    AnswerIsSound
    BoxesAreOwned
CHECK_DEADLOCK FALSE
