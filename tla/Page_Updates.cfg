SPECIFICATION BrowserSpec
CONSTANTS
    Documents = {d1}
    NoDocument = NoDocument
    DashboardPage = DashboardPage
    NoPage = NoPage
    Workers = {w1}
    Concurrency = 1
    Requests = {q1}
    NoRequest = NoRequest
    MaxAttempts = 2
    Answers = {"valid", "invalid", "ERROR"}
    Faults = {}
    MaxFaults = 0
    MaxEffects = 2
INVARIANTS
    PageTypeOK
    NeverStopsSilently
    RetryIsSeen
    NothingMovesUncounted
    TilesCountWhatTheyLink
PROPERTIES
    PageUpdates
