SPECIFICATION FairOneSpec
CONSTANTS
    i1 = i1
    i2 = i2
    t1 = t1
    t2 = t2
    r1 = r1
    r2 = r2
    p1 = p1
    p2 = p2
    j1 = j1
    j2 = j2
    withDoi = withDoi
    noDoi = noDoi
    namesake = namesake
    None = None
    Targets = {t1, t2}
    StoreOf <- Stores
    \* crawl runs
    Workers = {w1, w2}
    Runs = {r1, r2}
    Items = {i1, i2}
    PagesOf <- TwoPages
    LastVersion = 2
    Built <- Cuts
    MaxChanges = 0
    \* forum posts
    Posts = {p1, p2}
    Root = p1
    PostTexts = {"x", "y"}
    Worthless = {"y"}
    Metas = {"m"}
    Snapshots <- TopicSnapshots
    MaxRows = 2
    Rank <- ReverseIds
    EmbedLimit = 1
    BatchSize = 2
    MaxFaults = 1
    \* a batch of drone documents
    Plan <- TwoJobs
    Pictured = {j1}
    BatchWorkers = {"prepare", "enrich", "text_enrich", "index"}
    LaneOf <- LaneEach
    Attempts = 2
    MaxStarts = 2
    MaxMishaps = 1
    Idle = Idle
    \* papers of literature runs
    LitRuns = {l1, l2}
    DirectionIds = 2
    Records = {withDoi, noDoi, namesake}
    NumberOf <- Numbers
    DoiOf <- Dois
    TitleOf <- Titles
    NoId = 0
    Relevance <- Scores
    RecentRecords = {withDoi, noDoi}
    SearchResults <- OneFound
    PicksPerDirection = 1
    Quotes = {}
    HeadOf <- Unquoted
    PdfOf <- Unquoted
    HtmlOf <- Unquoted
    Rows = {1, 2, 3}
    NoRow = 0
PROPERTIES
    WorkersFinish
    EmbeddingCatchesUp
    BatchConcludes
    RankingEnds
CHECK_DEADLOCK FALSE
