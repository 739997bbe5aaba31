SPECIFICATION Spec
CONSTANTS
    Image = {i1, i2}
    None = None
    MaxInFlight = 2
    MaxClock = 2
    MaxVersion = 3
    MaxRestarts = 0
    StoreFaults = FALSE
    ScorerFaults = FALSE
INVARIANT NoUnscoredImageBehindWatermark
