SPECIFICATION MCSpec
CONSTANTS
    c1 = c1
    c2 = c2
    eager = eager
    k2 = k2
    k3 = k3
    t1 = t1
    t2 = t2
    Call <- MCCall
    Model <- MCModelIds
    ModelOf <- MCModelOf
    LongBetas <- MCLongBetas
    Token <- MCToken
    NoToken = 0
    MaxAuth = 1
    MaxRetries = 1
    Client <- MCClient
    Boot = eager
    NoClient = "none"
    MaxVersion = 2
    Catalog <- MCCatalog
    Family <- MCFamily
    StaticAlias <- MCAlias
    DefaultId = "sonnet-4-6"
    Unpublished <- MCUnpublished
    Day = 6
    Margin = 12
    LastMs = 1
    Offset <- MCOffset
    Change <- MCHour
    Date <- MCDate
    Second <- MCHour
    Query <- MCQuery
    MaxKeys = 2
    MaxSubmits = 2
    Canonical <- MCCanonical
    ToolSets <- MCToolSets
    UserContent <- MCUser
    MaxMessages = 4
    MaxToolCalls = 2
    Original <- MCOriginal
    StopReason <- MCStopReason
    StartUsage <- MCStartUsage
    OutputTokens <- MCOutputTokens
    MaxBlocks = 3
    MaxPieces = 3
    Modern <- MCModern
    Older <- MCOlder
    Live <- MCLive
    Request <- MCRequest
    Failure <- MCRefusal
    Trace <- MCTrace
    Kind <- MCKind
    MaxStarts = 2
    MaxFaults = 2
    MaxRequests = 3
    MaxTime = 2
    FirstMessage <- MCFirst
    MaxIdle = 1
    ListLimit = 3
    MaxCalls = 1
    Label <- MCLabel
    MaxRows = 2
    MaxMinted = 3
INVARIANTS
    MCTypeOK
    RetriesSound
    HistoriesSound
    ToolNamesRoundTrip
    ForcedRefreshIsFresh
    ListedResolves
    IndexExact
    GroupedByActivity
    AnswersAgree
    OptionsAccepted
    ReadsAgree
    DaysCovered
    NeverStranded
PROPERTIES
    CatalogNeverGoesBack
    KeysHonoured
    NothingWrittenIsLost
\* Calls end, and the bounded keys and conversations run out.
CHECK_DEADLOCK FALSE
