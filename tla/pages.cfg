SPECIFICATION PagesSpec
CONSTANTS
    Item = {i1}
    Feed <- Days
    Publisher = {p1}
    Reader = {r1}
    None = None
    MaxClock = 1
    MaxVersions = 2
    MaxAge = 1
    MaxFaults = 0
    MaxDeletions = 1
    StaleProbes = TRUE
    Message <- SomeMessages
    RecordInterval = 1
    FlushInterval = 2
    LogEvery = 2
    Window = 2
    Lists <- SomeLists
    Columns = 2
    MaxEntries = 1
    Traffic <- SomeTraffic
    Offered <- SomeOffers
    Canvas <- SomeCanvas
INVARIANTS AnswerIsNarrowestStanding CountsAreKept ExaminedWasSeen NumbersAreFresh
CHECK_DEADLOCK FALSE
