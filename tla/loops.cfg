SPECIFICATION LoopsSpec
CONSTANTS
    b1 = b1
    s1 = s1
    s2 = s2
    t1 = t1
    t2 = t2
    Browser = {b1}
    Scraper = {s1, s2}
    Visits <- BrowserAndScrapers
    Edition <- Editions
    TileCount = 10
    CacheCapacity = 1
    Placeholder = Placeholder
    Fallback = Fallback
    None = None
    Image = {i1, i2}
    MaxInFlight = 1
    MaxClock = 2
    MaxVersion = 4
    MaxRestarts = 1
    StoreFaults = FALSE
    ScorerFaults = TRUE
PROPERTIES NotModifiedIsTrue PictureCatchesUp EveryImageTried
CHECK_DEADLOCK FALSE
