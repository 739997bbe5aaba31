SPECIFICATION Spec
CONSTANTS
    Image = {i1, i2}
    None = None
    MaxInFlight = 2
    MaxClock = 2
    MaxVersion = 4
    MaxRestarts = 1
    StoreFaults = TRUE
    ScorerFaults = TRUE
SYMMETRY ImageSymmetry
INVARIANTS StragglersStayReachable GateNeverHidesARow NoScoredImageIsRescored NoneBehindWatermarkInOrder
