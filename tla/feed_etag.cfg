SPECIFICATION Spec
CONSTANTS
    b1 = b1
    s1 = s1
    s2 = s2
    t1 = t1
    t2 = t2
    Browser = {b1}
    Scraper = {s1, s2}
    Visits <- BrowserAndScrapers
    Edition <- Editions
    TileCount = 10
    CacheCapacity = 1
    Placeholder = Placeholder
    Fallback = Fallback
    None = None
INVARIANT EqualTagsMeanEqualPictures
CHECK_DEADLOCK FALSE
