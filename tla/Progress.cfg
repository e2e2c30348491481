SPECIFICATION MCSpec
CONSTANTS
    MaxEvents = 7
    MaxChunk = 3
    t1 = t1
    t2 = t2
    MaxEmitted = 5
    MaxLosses = 1
    MaxMounts = 2
    BufferSize = 2
    HistoryLimit = 2
    TouchesDeps <- MCTouchesDeps
    TouchesUi <- MCTouchesUi
    Sound <- MCSound
    MaxCommits = 4
    MaxKills = 2
INVARIANTS
    MCTypeOK
    LetsGoProperly
    NothingDropped
    ShownAsReceived
PROPERTIES
    LetGo
    ShutdownEnds
    ShownWholeInTheEnd
    SaysWhatRuns
    ComesToRest
    DashboardLoads
\* A stream ends, and the bounded events, visits and requests run out.
CHECK_DEADLOCK FALSE
