\* One service at a time, with one failed call.
CONSTANTS
    MaxFaults = 1
    Callers = {"a", "b", "c"}
    Paths = {"search", "warHistory", "warTimeline", "geo"}
    Addresses = {"one", "office"}
    Whitelist = {"office"}
    Limits <- MCLimits
    RequestsPerMinute = 3
    NoKey = NoKey
    Requests = {"r", "s"}
    Queries = {"activeWars", "alerts", "search"}
    MaxEntries = 1
    Longest = 1
    NoQuery = NoQuery
    Lookups = {"l", "m"}
    Pages = {"shared"}
    Editions = {"en", "bn", "hi"}
    Articles <- MCArticles
    Telling <- MCTelling
    Linked <- MCLinked
    Foreign <- MCForeign
    CacheLife = 2
    NoArticle = NoArticle
    Registrations = {"g", "h"}
    Emails = {"reader", "other"}
    Chosen = {"daily"}
    MaxAccounts = 2
    NoAccount = NoAccount
    Periods = {"daily"}
    Every <- MCEvery
    MaxSends = 1
    MaxRestarts = 1
    Titles = {"p", "q"}
    Aggregators = {"v", "w"}
    Increments = {2}
    MaxPages = 1
    MaxScored = 3
    NoTitle = NoTitle
    Operations = {"x", "y", "z"}
    FailureThreshold = 2
    HalfOpenMaxCalls = 2
    MaxAttempts = 2
    MaxFailures = 4
    Configured = {"elasticsearch_indexing", "trending_tracking"}
    NormalLimit = 3
    ReducedLimit = 1
SPECIFICATION ServicesSpec
INVARIANTS
    ServicesTypeOK
    OvershootBounded
    ServedFresh
    LocationRecovers
    OneMailPerRun
    RunsEndBeforeStores
    ScoreWithinEdits
    ClosedWhileFewFailures
    NothingOutlastsItsCause
CHECK_DEADLOCK FALSE
