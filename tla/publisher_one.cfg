SPECIFICATION FairSpec
CONSTANTS
    Item = {i1}
    Feed <- Days
    Publisher = {p1}
    Reader = {}
    None = None
    MaxClock = 2
    MaxVersions = 2
    MaxAge = 1
    MaxFaults = 1
    MaxDeletions = 0
    StaleProbes = FALSE
INVARIANTS
    CurrentGateMeansCurrentLists
PROPERTIES ListsAreARegister ListsConverge
